--------------------------- MODULE ComposeProofs ---------------------------
(***************************************************************************)
(* What strategy.Compose promises, for any groups, members and strategy:   *)
(* its candidates are available members of groups of the snapshot, and no  *)
(* available member of a group it expands is missing.  The recursions of   *)
(* Compose run up to a bound, and so do the inductions about them: a set   *)
(* of numbers up to a bound has a least one, because inclusion of finite   *)
(* sets is well-founded.                                                   *)
(***************************************************************************)
EXTENDS Compose, FiniteSetTheorems, WellFoundedInduction, TLAPS

(* A set of natural numbers up to a bound has a least one: its intervals   *)
(* are finite sets, which are well-founded by inclusion.                   *)
LEMMA LeastUpTo ==
  ASSUME NEW n \in Nat, NEW T \in SUBSET (0 .. n), T # {}
  PROVE  \E x \in T : \A y \in T : x <= y
<1> DEFINE N == 0 .. n
           S == SUBSET N
           R == StrictSubsetOrdering(N)
           U == {0 .. x : x \in T}
<1>1. IsWellFoundedOn(R, S)
  <2>1. IsFiniteSet(N)
    BY FS_Interval
  <2> HIDE DEF N
  <2>2. FiniteSubsetsOf(N) = S
    BY <2>1, FS_FiniteSubsetsOfFinite
  <2>3. IsWellFoundedOn(StrictSubsetOrdering(N), FiniteSubsetsOf(N))
    BY FS_StrictSubsetOrderingWellFounded
  <2>. QED
    BY <2>2, <2>3
<1>2. U \subseteq S /\ U # {}
  <2>1. ASSUME NEW x \in T PROVE 0 .. x \in S
    OBVIOUS
  <2>. QED
    BY <2>1
<1>3. \E x \in U : \A y \in U : ~ (<<y, x>> \in R)
  <2> HIDE DEF S, R, U
  <2>. QED
    BY <1>1, <1>2, WFMin
<1>4. PICK x \in T : \A y \in T : ~ (<<0 .. y, 0 .. x>> \in R)
  BY <1>3
<1>5. ASSUME NEW y \in T, ~ (x <= y) PROVE FALSE
  <2> DEFINE p == <<0 .. y, 0 .. x>>
  <2>1. x \in Nat /\ y \in Nat /\ y < x /\ x <= n
    BY <1>5
  <2>2. x \in 0 .. x /\ x \notin 0 .. y
    BY <2>1
  <2>3. p \in (SUBSET N) \X (SUBSET N) /\ p[1] \subseteq p[2] /\ p[1] # p[2]
    BY <2>1, <2>2
  <2>4. p \in StrictSubsetOrdering(N)
    <3> HIDE DEF p, N
    <3>. QED
      BY <2>3 DEF StrictSubsetOrdering
  <2>. QED
    BY <1>4, <2>4
<1>. QED
  BY <1>4, <1>5

(* Induction up to a bound, on the set of numbers of which a fact holds.   *)
LEMMA InductionUpTo ==
  ASSUME NEW n \in Nat, NEW I \in SUBSET (0 .. n), 0 \in I,
         \A k \in 1 .. n : k - 1 \in I => k \in I
  PROVE  I = 0 .. n
<1>. SUFFICES ASSUME (0 .. n) \ I # {} PROVE FALSE
  OBVIOUS
<1>1. PICK x \in (0 .. n) \ I : \A y \in (0 .. n) \ I : x <= y
  BY LeastUpTo
<1>2. x \in 1 .. n
  OBVIOUS
<1>3. x - 1 \in I
  BY <1>1, <1>2
<1>. QED
  BY <1>2, <1>3

(* A function on 0 .. n is defined by its value at 0 and the step from one *)
(* value to the next.                                                      *)
Follows(f, n, S, a, step) ==
  /\ f \in [0 .. n -> S]
  /\ f[0] = a
  /\ \A k \in 1 .. n : f[k] = step[<<f[k - 1], k>>]

(* Every start and every step define such a function.                      *)
LEMMA Recursion ==
  ASSUME NEW n \in Nat, NEW S, NEW a \in S, NEW step \in [S \X (1 .. n) -> S]
  PROVE  \E f : Follows(f, n, S, a, step)
<1> DEFINE Fits(f, m) == /\ f[0] = a
                         /\ \A k \in 1 .. m : f[k] = step[<<f[k - 1], k>>]
           I == {m \in 0 .. n : \E f \in [0 .. n -> S] : Fits(f, m)}
<1>1. 0 \in I
  <2> DEFINE g == [k \in 0 .. n |-> a]
  <2>1. g \in [0 .. n -> S] /\ Fits(g, 0)
    OBVIOUS
  <2> HIDE DEF g, Fits
  <2>. QED
    BY <2>1
<1>2. ASSUME NEW m \in 1 .. n, m - 1 \in I PROVE m \in I
  <2>1. PICK f \in [0 .. n -> S] : Fits(f, m - 1)
    BY <1>2
  <2> DEFINE g == [f EXCEPT ![m] = step[<<f[m - 1], m>>]]
  <2>2. step[<<f[m - 1], m>>] \in S
    OBVIOUS
  <2>3. g \in [0 .. n -> S]
    BY <2>2
  <2>4. Fits(g, m)
    <3>1. g[0] = a
      BY <2>1
    <3>2. ASSUME NEW k \in 1 .. m PROVE g[k] = step[<<g[k - 1], k>>]
      <4>1. g[k - 1] = f[k - 1]
        OBVIOUS
      <4>2. CASE k = m
        BY <4>1, <4>2
      <4>3. CASE k # m
        <5>1. k \in 1 .. m - 1 /\ g[k] = f[k]
          BY <4>3
        <5>. QED
          BY <2>1, <4>1, <5>1
      <4>. QED
        BY <4>2, <4>3
    <3>. QED
      BY <3>1, <3>2
  <2> HIDE DEF g, Fits
  <2>. QED
    BY <2>3, <2>4
<1>3. I = 0 .. n
  <2> HIDE DEF I
  <2>1. I \in SUBSET (0 .. n)
    BY DEF I
  <2>. QED
    BY <1>1, <1>2, <2>1, InductionUpTo
<1>4. PICK f \in [0 .. n -> S] : Fits(f, n)
  BY <1>3
<1>. QED
  BY <1>4 DEF Follows

-----------------------------------------------------------------------------
(* What follows a step is the function its recursion defines.              *)
LEMMA Follower ==
  ASSUME NEW n \in Nat, NEW S, NEW a, NEW step, NEW f, Follows(f, n, S, a, step)
  PROVE  f = [k \in 0 .. n |-> IF k = 0 THEN a ELSE step[<<f[k - 1], k>>]]
BY DEF Follows

(* A recursion gives its start at 0 and what is left of it elsewhere.      *)
LEMMA Unrolled ==
  ASSUME NEW n \in Nat, NEW a, NEW b, NEW r,
         r = [k \in 0 .. n |-> IF k = 0 THEN a ELSE b[k]]
  PROVE  r[0] = a /\ \A k \in 1 .. n : r[k] = b[k]
OBVIOUS
-----------------------------------------------------------------------------
(* WalkTo does what its definition says.                                   *)
WalkOf(w, in, chain) ==
  w = [k \in 0 .. Len(chain) |-> IF k = 0 THEN <<>> ELSE w[k - 1] \o Given(in, chain[k])]

(* If any function walks the chain, WalkTo does.                           *)
LEMMA WalkChosen ==
  ASSUME NEW in, NEW chain, NEW w, WalkOf(w, in, chain)
  PROVE  WalkOf(WalkTo(in, chain), in, chain)
<1>1. WalkTo(in, chain) = CHOOSE v : WalkOf(v, in, chain)
  BY DEF WalkTo, WalkOf
<1>. QED
  BY <1>1

(* There is a function that walks a chain as WalkTo says, so WalkTo,       *)
(* which chooses one, does.                                                *)
LEMMA WalkRecurs ==
  ASSUME NEW Groups, NEW Models, NEW in, in.order \in Seq(Groups),
         in.members \in [Groups -> Seq(Models)], NEW chain \in Seq(Groups)
  PROVE  WalkOf(WalkTo(in, chain), in, chain)
<1> DEFINE n == Len(chain)
           S == Seq(Models)
           step == [x \in S \X (1 .. n) |-> x[1] \o Given(in, chain[x[2]])]
           a == <<>>
<1>1. \A k \in 1 .. n : Given(in, chain[k]) \in S
  BY DEF Given
<1>2. n \in Nat /\ a \in S /\ step \in [S \X (1 .. n) -> S]
  BY <1>1
<1>3. PICK w : Follows(w, n, S, a, step)
  <2> HIDE DEF n, S, step, a
  <2>. QED
    BY <1>2, Recursion
<1>4. \A k \in 1 .. n : step[<<w[k - 1], k>>] = w[k - 1] \o Given(in, chain[k])
  <2>. SUFFICES ASSUME NEW k \in 1 .. n
                PROVE  step[<<w[k - 1], k>>] = w[k - 1] \o Given(in, chain[k])
    OBVIOUS
  <2>1. w[k - 1] \in S
    <3> HIDE DEF n, S, step, a
    <3>. QED
      BY <1>2, <1>3 DEF Follows
  <2>2. <<w[k - 1], k>> \in S \X (1 .. n)
    BY <2>1
  <2>. QED
    BY <2>2
<1>5. WalkOf(w, in, chain)
  <2>1. w = [k \in 0 .. n |-> IF k = 0 THEN a ELSE step[<<w[k - 1], k>>]]
    <3> HIDE DEF n, S, step, a
    <3>. QED
      BY <1>2, <1>3, Follower
  <2>2. \A k \in 0 .. n : (IF k = 0 THEN a ELSE step[<<w[k - 1], k>>])
                         = (IF k = 0 THEN a ELSE w[k - 1] \o Given(in, chain[k]))
    <3>. SUFFICES ASSUME NEW k \in 0 .. n, k # 0
                  PROVE  step[<<w[k - 1], k>>] = w[k - 1] \o Given(in, chain[k])
      OBVIOUS
    <3>1. k \in 1 .. n
      BY <1>2
    <3> HIDE DEF n, S, step, a
    <3>. QED
      BY <1>4, <3>1
  <2>3. [k \in 0 .. n |-> IF k = 0 THEN a ELSE step[<<w[k - 1], k>>]]
          = [k \in 0 .. n |-> IF k = 0 THEN a ELSE w[k - 1] \o Given(in, chain[k])]
    <3> HIDE DEF n, S, step, a
    <3>. QED
      BY <2>2
  <2>. QED
    BY <2>1, <2>3 DEF WalkOf
<1>. QED
  BY <1>5, WalkChosen

(* The walk of a chain starts with nothing, gathers the members of one     *)
(* group after the other, and is a sequence of models.                     *)
LEMMA WalkUnrolled ==
  ASSUME NEW Groups, NEW Models, NEW in, in.order \in Seq(Groups),
         in.members \in [Groups -> Seq(Models)], NEW chain \in Seq(Groups)
  PROVE  /\ WalkTo(in, chain)[0] = <<>>
         /\ \A k \in 1 .. Len(chain) :
              WalkTo(in, chain)[k] = WalkTo(in, chain)[k - 1] \o Given(in, chain[k])
         /\ \A k \in 0 .. Len(chain) : WalkTo(in, chain)[k] \in Seq(Models)
<1> DEFINE w == WalkTo(in, chain)
           n == Len(chain)
           a == <<>>
           b == [k \in 1 .. n |-> w[k - 1] \o Given(in, chain[k])]
<1>0. n \in Nat
  OBVIOUS
<1>1. w = [k \in 0 .. n |-> IF k = 0 THEN a ELSE b[k]]
  <2>1. WalkOf(w, in, chain)
    BY WalkRecurs
  <2>2. \A k \in 0 .. n : (IF k = 0 THEN a ELSE w[k - 1] \o Given(in, chain[k]))
                         = (IF k = 0 THEN a ELSE b[k])
    <3>. SUFFICES ASSUME NEW k \in 0 .. n, k # 0
                  PROVE  b[k] = w[k - 1] \o Given(in, chain[k])
      OBVIOUS
    <3>1. k \in 1 .. n
      BY <1>0
    <3> HIDE DEF n, w
    <3>. QED
      BY <3>1
  <2>3. [k \in 0 .. n |-> IF k = 0 THEN a ELSE w[k - 1] \o Given(in, chain[k])]
          = [k \in 0 .. n |-> IF k = 0 THEN a ELSE b[k]]
    <3> HIDE DEF n, w, a, b
    <3>. QED
      BY <2>2
  <2>. QED
    BY <2>1, <2>3 DEF WalkOf
<1>2. w[0] = a /\ \A k \in 1 .. n : w[k] = b[k]
  <2> HIDE DEF w, n, a, b
  <2>. QED
    BY <1>0, <1>1, Unrolled
<1>3. \A k \in 1 .. n : w[k] = w[k - 1] \o Given(in, chain[k])
  <2> HIDE DEF w, n
  <2>. QED
    BY <1>2
<1>4. \A k \in 0 .. n : w[k] \in Seq(Models)
  <2> DEFINE S == Seq(Models)
             I == {k \in 0 .. n : w[k] \in S}
  <2>1. 0 \in I
    <3>1. a \in S
      OBVIOUS
    <3> HIDE DEF w, n, S, a
    <3>. QED
      BY <1>0, <1>2, <3>1
  <2>2. ASSUME NEW k \in 1 .. n, k - 1 \in I PROVE k \in I
    <3>1. Given(in, chain[k]) \in S
      BY DEF Given
    <3>2. w[k] = w[k - 1] \o Given(in, chain[k]) /\ w[k - 1] \in S
      BY <1>3, <2>2
    <3>3. w[k] \in S
      <4> HIDE DEF w
      <4>. QED
        BY <3>1, <3>2
    <3> HIDE DEF w, n, S
    <3>. QED
      BY <1>0, <3>3
  <2>3. I = 0 .. n
    <3>1. I \in SUBSET (0 .. n)
      OBVIOUS
    <3> HIDE DEF I, n
    <3>. QED
      BY <1>0, <2>1, <2>2, <3>1, InductionUpTo
  <2>4. \A k \in 0 .. n : w[k] \in S
    <3> HIDE DEF S, n, w
    <3>. QED
      BY <2>3
  <2>. QED
    BY <2>4
<1>. QED
  BY <1>2, <1>3, <1>4
-----------------------------------------------------------------------------
(* FirstsTo does what its definition says.                                 *)
FirstNext(s, w, A, k) ==
  IF Met(w, k) \/ w[k] \notin A THEN s ELSE Append(s, w[k])

FirstsFit(f, w, A) ==
  f = [k \in 0 .. Len(w) |-> IF k = 0 THEN <<>>
                             ELSE FirstNext(f[k - 1], w, A, k)]

(* If any function does it, FirstsTo does.                                 *)
LEMMA FirstsChosen ==
  ASSUME NEW w, NEW A, NEW f, FirstsFit(f, w, A)
  PROVE  FirstsFit(FirstsTo(w, A), w, A)
<1>1. FirstsTo(w, A) = CHOOSE g : FirstsFit(g, w, A)
  BY DEF FirstsTo, FirstsFit, FirstNext
<1>. QED
  BY <1>1

(* One more member of the walk leaves a sequence of models.                *)
LEMMA FirstType ==
  ASSUME NEW Models, NEW A, NEW w \in Seq(Models), NEW k \in 1 .. Len(w),
         NEW s \in Seq(Models)
  PROVE  FirstNext(s, w, A, k) \in Seq(Models)
BY DEF FirstNext

(* There is a function that does what FirstsTo says, so FirstsTo, which    *)
(* chooses one, does.                                                      *)
LEMMA FirstsRecur ==
  ASSUME NEW Models, NEW A, NEW w \in Seq(Models)
  PROVE  FirstsFit(FirstsTo(w, A), w, A)
<1> DEFINE n == Len(w)
           S == Seq(Models)
           step == [x \in S \X (1 .. n) |-> FirstNext(x[1], w, A, x[2])]
           a == <<>>
<1>1. n \in Nat /\ a \in S
  OBVIOUS
<1>2. \A s \in S : \A k \in 1 .. n : FirstNext(s, w, A, k) \in S
  BY FirstType
<1>3. step \in [S \X (1 .. n) -> S]
  <2> HIDE DEF n, S, a
  <2>. QED
    BY <1>2
<1>4. PICK f : Follows(f, n, S, a, step)
  <2> HIDE DEF n, S, step, a
  <2>. QED
    BY <1>1, <1>3, Recursion
<1>5. ASSUME NEW k \in 1 .. n
      PROVE  step[<<f[k - 1], k>>] = FirstNext(f[k - 1], w, A, k)
  <2>1. f[k - 1] \in S
    <3> HIDE DEF n, S, step, a
    <3>. QED
      BY <1>1, <1>4 DEF Follows
  <2> HIDE DEF n, S, a
  <2>2. <<f[k - 1], k>> \in S \X (1 .. n)
    BY <2>1
  <2>. QED
    BY <2>2
<1>6. FirstsFit(f, w, A)
  <2>1. f = [k \in 0 .. n |-> IF k = 0 THEN a ELSE step[<<f[k - 1], k>>]]
    <3> HIDE DEF n, S, step, a
    <3>. QED
      BY <1>1, <1>4, Follower
  <2>2. \A k \in 0 .. n : (IF k = 0 THEN a ELSE step[<<f[k - 1], k>>])
                         = (IF k = 0 THEN a ELSE FirstNext(f[k - 1], w, A, k))
    <3>. SUFFICES ASSUME NEW k \in 0 .. n, k # 0
                  PROVE  step[<<f[k - 1], k>>] = FirstNext(f[k - 1], w, A, k)
      OBVIOUS
    <3>1. k \in 1 .. n
      BY <1>1
    <3> HIDE DEF n, S, step, a
    <3>. QED
      BY <1>5, <3>1
  <2>3. [k \in 0 .. n |-> IF k = 0 THEN a ELSE step[<<f[k - 1], k>>]]
          = [k \in 0 .. n |-> IF k = 0 THEN a ELSE FirstNext(f[k - 1], w, A, k)]
    <3> HIDE DEF n, S, step, a
    <3>. QED
      BY <2>2
  <2>. QED
    BY <2>1, <2>3 DEF FirstsFit
<1>. QED
  BY <1>6, FirstsChosen

(* The firsts of a walk begin with nothing, take one member after the      *)
(* other, and are a sequence of models.                                    *)
LEMMA FirstsUnrolled ==
  ASSUME NEW Models, NEW A, NEW w \in Seq(Models)
  PROVE  /\ FirstsTo(w, A)[0] = <<>>
         /\ \A k \in 1 .. Len(w) :
              FirstsTo(w, A)[k] = FirstNext(FirstsTo(w, A)[k - 1], w, A, k)
         /\ \A k \in 0 .. Len(w) :
              FirstsTo(w, A)[k] \in Seq(Models)
<1> DEFINE f == FirstsTo(w, A)
           n == Len(w)
           a == <<>>
           b == [k \in 1 .. n |-> FirstNext(f[k - 1], w, A, k)]
           S == Seq(Models)
<1>0. n \in Nat /\ a \in S
  OBVIOUS
<1>1. f = [k \in 0 .. n |-> IF k = 0 THEN a ELSE b[k]]
  <2>1. FirstsFit(f, w, A)
    BY FirstsRecur
  <2>2. \A k \in 0 .. n : (IF k = 0 THEN a ELSE FirstNext(f[k - 1], w, A, k))
                         = (IF k = 0 THEN a ELSE b[k])
    <3>. SUFFICES ASSUME NEW k \in 0 .. n, k # 0
                  PROVE  b[k] = FirstNext(f[k - 1], w, A, k)
      OBVIOUS
    <3>1. k \in 1 .. n
      BY <1>0
    <3> HIDE DEF n, f
    <3>. QED
      BY <3>1
  <2>3. [k \in 0 .. n |-> IF k = 0 THEN a ELSE FirstNext(f[k - 1], w, A, k)]
          = [k \in 0 .. n |-> IF k = 0 THEN a ELSE b[k]]
    <3> HIDE DEF n, f, a, b
    <3>. QED
      BY <2>2
  <2>. QED
    BY <2>1, <2>3 DEF FirstsFit
<1>2. f[0] = a /\ \A k \in 1 .. n : f[k] = b[k]
  <2> HIDE DEF f, n, a, b
  <2>. QED
    BY <1>0, <1>1, Unrolled
<1>3. \A k \in 1 .. n : f[k] = FirstNext(f[k - 1], w, A, k)
  <2> HIDE DEF f, n
  <2>. QED
    BY <1>2
<1>4. \A k \in 0 .. n : f[k] \in S
  <2> DEFINE I == {k \in 0 .. n : f[k] \in S}
  <2>1. 0 \in I
    <3> HIDE DEF f, n, S, a
    <3>. QED
      BY <1>0, <1>2
  <2>2. ASSUME NEW k \in 1 .. n, k - 1 \in I PROVE k \in I
    <3>1. f[k] = FirstNext(f[k - 1], w, A, k) /\ f[k - 1] \in S
      BY <1>3, <2>2
    <3>2. f[k] \in S
      BY <3>1, FirstType
    <3> HIDE DEF f, n, S
    <3>. QED
      BY <1>0, <3>2
  <2>3. I = 0 .. n
    <3>1. I \in SUBSET (0 .. n)
      OBVIOUS
    <3> HIDE DEF I, n
    <3>. QED
      BY <1>0, <2>1, <2>2, <3>1, InductionUpTo
  <2> HIDE DEF S, n, f
  <2>. QED
    BY <2>3
<1>. QED
  BY <1>2, <1>3, <1>4
-----------------------------------------------------------------------------
(* The elements of sequences put together.                                 *)
LEMMA ConcatElements ==
  ASSUME NEW S, NEW s \in Seq(S), NEW t \in Seq(S)
  PROVE  ToSet(s \o t) = ToSet(s) \cup ToSet(t)
<1>1. ASSUME NEW x \in ToSet(s) \cup ToSet(t) PROVE x \in ToSet(s \o t)
  <2>1. CASE x \in ToSet(s)
    <3>1. PICK i \in 1 .. Len(s) : x = s[i]
      BY <2>1 DEF ToSet
    <3>2. i \in 1 .. Len(s \o t) /\ (s \o t)[i] = x
      BY <3>1
    <3>. QED
      BY <3>2 DEF ToSet
  <2>2. CASE x \in ToSet(t)
    <3>1. PICK i \in 1 .. Len(t) : x = t[i]
      BY <2>2 DEF ToSet
    <3>2. Len(s) + i \in 1 .. Len(s \o t) /\ (s \o t)[Len(s) + i] = x
      BY <3>1
    <3>. QED
      BY <3>2 DEF ToSet
  <2>. QED
    BY <1>1, <2>1, <2>2
<1>2. ASSUME NEW x \in ToSet(s \o t) PROVE x \in ToSet(s) \cup ToSet(t)
  <2>1. PICK i \in 1 .. Len(s \o t) : x = (s \o t)[i]
    BY DEF ToSet
  <2>. QED
    BY <2>1 DEF ToSet
<1>. QED
  BY <1>1, <1>2

(* The elements of a sequence with one more.                               *)
LEMMA AppendElements ==
  ASSUME NEW S, NEW s \in Seq(S), NEW e \in S
  PROVE  ToSet(Append(s, e)) = ToSet(s) \cup {e}
<1>1. /\ Len(Append(s, e)) = Len(s) + 1 /\ Len(s) \in Nat
      /\ \A i \in 1 .. Len(s) : Append(s, e)[i] = s[i]
      /\ Append(s, e)[Len(s) + 1] = e
      /\ DOMAIN Append(s, e) = 1 .. Len(s) + 1 /\ DOMAIN s = 1 .. Len(s)
  OBVIOUS
<1>. QED
  BY <1>1 DEF ToSet

(* The members a group gives, as a set.                                    *)
GivenSet(in, g) == {m \in ToSet(in.members[g]) : g \in ToSet(in.order)}

WellFormed(in, Groups, Models) ==
  in.order \in Seq(Groups) /\ in.members \in [Groups -> Seq(Models)]

Reached(in, chain) == UNION {GivenSet(in, g) : g \in ToSet(chain)}

(* A walk meets the members of the groups of its chain.                    *)
LEMMA WalkElements ==
  ASSUME NEW Groups, NEW Models, NEW in, WellFormed(in, Groups, Models),
         NEW chain \in Seq(Groups)
  PROVE  /\ Walk(in, chain) \in Seq(Models)
         /\ ToSet(Walk(in, chain)) = Reached(in, chain)
<1> DEFINE w == WalkTo(in, chain)
           n == Len(chain)
           G(k) == {m \in Models : \E j \in 1 .. k : m \in GivenSet(in, chain[j])}
           I == {k \in 0 .. n : ToSet(w[k]) = G(k)}
<1>0. n \in Nat
  OBVIOUS
<1>1. /\ w[0] = <<>>
      /\ \A k \in 1 .. n : w[k] = w[k - 1] \o Given(in, chain[k])
      /\ \A k \in 0 .. n : w[k] \in Seq(Models)
  BY WalkUnrolled DEF WellFormed
<1>2. 0 \in I
  <2>1. ToSet(w[0]) = {}
    BY <1>1 DEF ToSet
  <2>. QED
    BY <1>0, <2>1
<1>3. ASSUME NEW k \in 1 .. n, k - 1 \in I PROVE k \in I
  <2>1. /\ Given(in, chain[k]) \in Seq(Models)
        /\ ToSet(Given(in, chain[k])) = GivenSet(in, chain[k])
        /\ GivenSet(in, chain[k]) \subseteq Models
    BY DEF Given, GivenSet, ToSet, WellFormed
  <2>2. ToSet(w[k]) = ToSet(w[k - 1]) \cup GivenSet(in, chain[k])
    <3> DEFINE s == w[k - 1]
               t == Given(in, chain[k])
               S == Seq(Models)
    <3>1. k - 1 \in 0 .. n
      BY <1>0
    <3>2. s \in S
      <4> HIDE DEF w, n, S
      <4>. QED
        BY <1>1, <3>1 DEF S
    <3>3. w[k] = s \o t
      <4> HIDE DEF w, n
      <4>. QED
        BY <1>1
    <3>4. ToSet(s \o t) = ToSet(s) \cup ToSet(t)
      <4>1. t \in S
        BY <2>1
      <4> HIDE DEF s, t
      <4>. QED
        BY <3>2, <4>1, ConcatElements
    <3>. QED
      BY <2>1, <3>3, <3>4
  <2>3. G(k) = G(k - 1) \cup GivenSet(in, chain[k])
    <3>1. k \in Nat /\ k >= 1
      BY <1>0
    <3>2. \A j : j \in 1 .. k <=> j \in 1 .. k - 1 \/ j = k
      BY <3>1
    <3>. QED
      BY <2>1, <3>2
  <2>4. ToSet(w[k - 1]) = G(k - 1) /\ k \in 0 .. n
    BY <1>0, <1>3
  <2>. QED
    BY <2>2, <2>3, <2>4
<1>4. I = 0 .. n
  <2>1. I \in SUBSET (0 .. n)
    OBVIOUS
  <2> HIDE DEF I, n
  <2>. QED
    BY <1>0, <1>2, <1>3, <2>1, InductionUpTo
<1>5. ToSet(w[n]) = G(n)
  <2> HIDE DEF w, n, G
  <2>. QED
    BY <1>0, <1>4
<1>6. G(n) = Reached(in, chain)
  <2>1. ToSet(chain) = {chain[j] : j \in 1 .. n}
    BY DEF ToSet
  <2>2. \A j \in 1 .. n : GivenSet(in, chain[j]) \subseteq Models
    BY DEF GivenSet, ToSet, WellFormed
  <2> HIDE DEF n
  <2>. QED
    BY <2>1, <2>2 DEF Reached
<1>7. w[n] \in Seq(Models)
  <2> DEFINE S == Seq(Models)
  <2>1. \A k \in 0 .. n : w[k] \in S
    BY <1>1
  <2> HIDE DEF w, n, S
  <2>2. w[n] \in S
    BY <1>0, <2>1
  <2>. QED
    BY <2>2 DEF S
<1>8. Walk(in, chain) = w[n]
  BY DEF Walk
<1> HIDE DEF w, n, G
<1>. QED
  BY <1>5, <1>6, <1>7, <1>8

(* The walk of the first groups of a chain begins the walk of them all.    *)
Begins(s, t) == Len(s) <= Len(t) /\ \A j \in 1 .. Len(s) : t[j] = s[j]

(* Each group adds its members to what there is.                           *)
LEMMA WalkBegins ==
  ASSUME NEW Groups, NEW Models, NEW in, WellFormed(in, Groups, Models),
         NEW chain \in Seq(Groups)
  PROVE  \A k \in 0 .. Len(chain) : Begins(WalkTo(in, chain)[k], Walk(in, chain))
<1> DEFINE w == WalkTo(in, chain)
           n == Len(chain)
           I == {d \in 0 .. n : Begins(w[n - d], w[n])}
<1>0. n \in Nat
  OBVIOUS
<1>1. /\ w[0] = <<>>
      /\ \A k \in 1 .. n : w[k] = w[k - 1] \o Given(in, chain[k])
      /\ \A k \in 0 .. n : w[k] \in Seq(Models)
  BY WalkUnrolled DEF WellFormed
<1>2. \A k \in 1 .. n : Given(in, chain[k]) \in Seq(Models)
  BY DEF WellFormed, Given
<1> HIDE DEF w, n
<1>3. 0 \in I
  <2>1. n \in 0 .. n /\ 0 \in 0 .. n /\ n - 0 = n
    BY <1>0
  <2>2. w[n] \in Seq(Models)
    BY <1>1, <2>1
  <2>3. Begins(w[n], w[n])
    BY <2>2 DEF Begins
  <2>. QED
    BY <2>1, <2>3
<1>4. ASSUME NEW d \in 1 .. n, d - 1 \in I PROVE d \in I
  <2>1. PICK k \in 1 .. n : k = n - (d - 1) /\ k - 1 = n - d
    BY <1>0
  <2>2. k - 1 \in 0 .. n /\ k \in 0 .. n /\ d \in 0 .. n
    BY <1>0
  <2> DEFINE s == w[k - 1]
             t == Given(in, chain[k])
             u == w[n]
  <2>3. s \in Seq(Models) /\ t \in Seq(Models) /\ w[k] = s \o t
    BY <1>1, <1>2, <2>2
  <2>4. Begins(s \o t, u)
    BY <1>4, <2>1, <2>3
  <2>5. u \in Seq(Models)
    <3>1. n \in 0 .. n
      BY <1>0
    <3>. QED
      BY <1>1, <3>1
  <2>6. Begins(s, u)
    <3> HIDE DEF s, t, u
    <3>. QED
      BY <2>3, <2>4, <2>5 DEF Begins
  <2>. QED
    BY <2>1, <2>2, <2>6
<1>5. I = 0 .. n
  <2>1. I \in SUBSET (0 .. n)
    OBVIOUS
  <2> HIDE DEF I
  <2>. QED
    BY <1>0, <1>3, <1>4, <2>1, InductionUpTo
<1>6. \A k \in 0 .. n : Begins(w[k], w[n])
  <2>. SUFFICES ASSUME NEW k \in 0 .. n PROVE Begins(w[k], w[n])
    OBVIOUS
  <2>1. n - k \in I /\ n - (n - k) = k
    <3> HIDE DEF I
    <3>. QED
      BY <1>0, <1>5
  <2>. QED
    BY <2>1
<1>. QED
  BY <1>6 DEF Walk, w, n

(* The models of a set among the first members of a walk.                  *)
Among(w, A, k) == {w[j] : j \in {i \in 1 .. k : w[i] \in A}}

(* The firsts of a walk so far are the models met on it so far.            *)
LEMMA FirstsElements ==
  ASSUME NEW Models, NEW A, NEW w \in Seq(Models)
  PROVE  \A k \in 0 .. Len(w) : ToSet(FirstsTo(w, A)[k]) = Among(w, A, k)
<1> DEFINE f == FirstsTo(w, A)
           n == Len(w)
           I == {k \in 0 .. n : ToSet(f[k]) = Among(w, A, k)}
<1>0. n \in Nat
  OBVIOUS
<1>1. /\ f[0] = <<>>
      /\ \A k \in 1 .. n : f[k] = FirstNext(f[k - 1], w, A, k)
      /\ \A k \in 0 .. n : f[k] \in Seq(Models)
  BY FirstsUnrolled
<1>2. 0 \in I
  <2>1. ToSet(f[0]) = {}
    BY <1>1 DEF ToSet
  <2>. QED
    BY <1>0, <2>1 DEF Among
<1>3. ASSUME NEW k \in 1 .. n, k - 1 \in I PROVE k \in I
  <2>0. k - 1 \in 0 .. n /\ k \in 0 .. n /\ w[k] \in Models
    BY <1>0
  <2>1. f[k - 1] \in Seq(Models) /\ f[k] = FirstNext(f[k - 1], w, A, k)
    <3> HIDE DEF f, n
    <3>. QED
      BY <1>1, <2>0
  <2>2. ToSet(f[k - 1]) = Among(w, A, k - 1)
    BY <1>3
  <2>3. CASE w[k] \notin A
    <3>1. f[k] = f[k - 1]
      BY <2>1, <2>3 DEF FirstNext
    <3>2. Among(w, A, k) = Among(w, A, k - 1)
      BY <2>3 DEF Among
    <3>. QED
      BY <2>0, <2>2, <3>1, <3>2
  <2>4. CASE w[k] \in A
    <3>1. Among(w, A, k) = Among(w, A, k - 1) \cup {w[k]}
      BY <2>4 DEF Among
    <3>2. CASE Met(w, k)
      <4>1. PICK j \in 1 .. k - 1 : w[j] = w[k]
        BY <3>2 DEF Met
      <4>2. w[k] \in Among(w, A, k - 1)
        BY <2>4, <4>1 DEF Among
      <4>3. f[k] = f[k - 1]
        BY <2>1, <3>2 DEF FirstNext
      <4>. QED
        BY <2>0, <2>2, <3>1, <4>2, <4>3
    <3>3. CASE ~Met(w, k)
      <4>1. f[k] = Append(f[k - 1], w[k])
        BY <2>1, <2>4, <3>3 DEF FirstNext
      <4>2. ToSet(f[k]) = ToSet(f[k - 1]) \cup {w[k]}
        <5> HIDE DEF f
        <5>. QED
          BY <2>0, <2>1, <4>1, AppendElements
      <4>. QED
        BY <2>0, <2>2, <3>1, <4>2
    <3>. QED
      BY <3>2, <3>3
  <2>. QED
    BY <2>3, <2>4
<1>4. I = 0 .. n
  <2>1. I \in SUBSET (0 .. n)
    OBVIOUS
  <2> HIDE DEF I, n
  <2>. QED
    BY <1>0, <1>2, <1>3, <2>1, InductionUpTo
<1> HIDE DEF f, n
<1>5. \A k \in 0 .. n : ToSet(f[k]) = Among(w, A, k)
  BY <1>4
<1>. QED
  BY <1>5 DEF f, n

(* One member more: it is kept if it is of the set and was not met.        *)
LEMMA OneMore ==
  ASSUME NEW Models, NEW A, NEW w \in Seq(Models), NEW k \in 1 .. Len(w)
  PROVE  /\ FirstsTo(w, A)[k - 1] \in Seq(Models)
         /\ FirstsTo(w, A)[k] = IF w[k] \in A \ Among(w, A, k - 1)
                               THEN Append(FirstsTo(w, A)[k - 1], w[k])
                               ELSE FirstsTo(w, A)[k - 1]
         /\ Among(w, A, k) = Among(w, A, k - 1) \cup {m \in {w[k]} : m \in A}
<1>1. /\ FirstsTo(w, A)[k] = FirstNext(FirstsTo(w, A)[k - 1], w, A, k)
      /\ FirstsTo(w, A)[k - 1] \in Seq(Models)
  <2>1. k - 1 \in 0 .. Len(w)
    OBVIOUS
  <2>. QED
    BY <2>1, FirstsUnrolled
<1>2. w[k] \in A => (Met(w, k) <=> w[k] \in Among(w, A, k - 1))
  BY DEF Met, Among
<1>3. Among(w, A, k) = Among(w, A, k - 1) \cup {m \in {w[k]} : m \in A}
  <2>1. \A i : i \in 1 .. k <=> i \in 1 .. k - 1 \/ i = k
    OBVIOUS
  <2>. QED
    BY <2>1 DEF Among
<1>. QED
  BY <1>1, <1>2, <1>3 DEF FirstNext
-----------------------------------------------------------------------------
(* What a segment gives: the available members of its groups.              *)
SegmentSet(in, segment) ==
  {[model |-> m, phase |-> segment.phase] :
     m \in {x \in Reached(in, segment.chain) : ~Unavailable(in, x)}}

IsSegment(segment, Groups) == segment.chain \in Seq(Groups) /\ segment.phase \in Phases

(* Marking models with a phase gives candidates, those models' and no      *)
(* other.                                                                  *)
LEMMA PhaseElements ==
  ASSUME NEW Models, NEW s \in Seq(Models), NEW phase \in Phases
  PROVE  /\ InPhase(phase, s) \in Seq([model : Models, phase : Phases])
         /\ ToSet(InPhase(phase, s)) = {[model |-> m, phase |-> phase] : m \in ToSet(s)}
<1>1. /\ Len(s) \in Nat /\ \A k \in 1 .. Len(s) : s[k] \in Models
      /\ ToSet(s) = {s[k] : k \in 1 .. Len(s)}
  BY DEF ToSet
<1>2. InPhase(phase, s) \in Seq([model : Models, phase : Phases])
  <2>1. \A k \in 1 .. Len(s) :
          [model |-> s[k], phase |-> phase] \in [model : Models, phase : Phases]
    BY <1>1
  <2>. QED
    BY <1>1, <2>1 DEF InPhase
<1>3. ToSet(InPhase(phase, s)) = {[model |-> s[k], phase |-> phase] : k \in 1 .. Len(s)}
  BY <1>1 DEF InPhase, ToSet
<1>. QED
  BY <1>1, <1>2, <1>3

(* A segment gives the available members of its groups, and no other.      *)
LEMMA SegmentElements ==
  ASSUME NEW Groups, NEW Models, NEW in, WellFormed(in, Groups, Models),
         NEW segment, IsSegment(segment, Groups)
  PROVE  /\ CandidatesOf(in, segment) \in Seq([model : Models, phase : Phases])
         /\ ToSet(CandidatesOf(in, segment)) = SegmentSet(in, segment)
<1> DEFINE chain == segment.chain
           w == Walk(in, chain)
           n == Len(w)
           A == Available(in, w)
           f == Firsts(w, A)
<1>1. w \in Seq(Models) /\ ToSet(w) = Reached(in, chain)
  <2>1. chain \in Seq(Groups)
    BY DEF IsSegment
  <2> HIDE DEF chain
  <2>. QED
    BY <2>1, WalkElements
<1>2. CandidatesOf(in, segment) = InPhase(segment.phase, f)
  BY DEF CandidatesOf
<1>3. f \in Seq(Models) /\ ToSet(f) = Among(w, A, n)
  <2> HIDE DEF w, A
  <2>1. n \in 0 .. n
    BY <1>1
  <2>2. \A k \in 0 .. n : FirstsTo(w, A)[k] \in Seq(Models)
    BY <1>1, FirstsUnrolled
  <2>3. \A k \in 0 .. n : ToSet(FirstsTo(w, A)[k]) = Among(w, A, k)
    BY <1>1, FirstsElements
  <2> HIDE DEF n
  <2>. QED
    BY <2>1, <2>2, <2>3 DEF Firsts, n
<1>4. Among(w, A, n) = {m \in Reached(in, chain) : ~Unavailable(in, m)}
  <2>1. ToSet(w) = {w[j] : j \in 1 .. n}
    BY <1>1 DEF ToSet
  <2> HIDE DEF w, n
  <2>. QED
    BY <1>1, <2>1 DEF Among, Available
<1>5. /\ InPhase(segment.phase, f) \in Seq([model : Models, phase : Phases])
      /\ ToSet(InPhase(segment.phase, f))
           = {[model |-> m, phase |-> segment.phase] : m \in ToSet(f)}
  <2>1. segment.phase \in Phases
    BY DEF IsSegment
  <2> HIDE DEF f
  <2>. QED
    BY <1>3, <2>1, PhaseElements
<1> HIDE DEF f, n, w, A
<1>. QED
  BY <1>2, <1>3, <1>4, <1>5 DEF SegmentSet

(* What Compose promises: candidates that are available members of groups  *)
(* of the snapshot, and every such member of the groups it expands.        *)
Promised(in, Models) ==
  /\ Candidates(in) \in Seq([model : Models, phase : Phases])
  /\ \A i \in 1 .. Len(Candidates(in)) :
       /\ ~Unavailable(in, Candidates(in)[i].model)
       /\ \E g \in ToSet(in.order) : Candidates(in)[i].model \in ToSet(in.members[g])
  /\ \A k \in 1 .. Len(Segments(in)) :
       \A g \in ToSet(Segments(in)[k].chain) \cap ToSet(in.order) :
         \A m \in ToSet(in.members[g]) :
           Unavailable(in, m) \/ \E i \in 1 .. Len(Candidates(in)) : Candidates(in)[i].model = m

IsInput(in, Groups, Models) ==
  /\ WellFormed(in, Groups, Models)
  /\ in.chain \in Seq(Groups) /\ in.compact \in Seq(Groups)

(* Compose keeps its promise.                                              *)
LEMMA CandidatesPromised ==
  ASSUME NEW Groups, NEW Models, NEW in, IsInput(in, Groups, Models)
  PROVE  Promised(in, Models)
<1> DEFINE C == [model : Models, phase : Phases]
           c == Candidates(in)
           s == Segments(in)
           Of(k) == SegmentSet(in, s[k])
<1>0. /\ WellFormed(in, Groups, Models)
      /\ in.order \in Seq(Groups)
      /\ in.chain \in Seq(Groups) /\ in.compact \in Seq(Groups)
  BY DEF IsInput, WellFormed
<1>1. /\ Len(s) \in {1, 2}
      /\ Triggered(in) <=> Len(s) = 2
      /\ \A k \in 1 .. Len(s) : s[k].chain \in Seq(Groups) /\ s[k].phase \in Phases
  <2>1. Chain(in) \in Seq(Groups)
    BY <1>0 DEF Chain
  <2>. QED
    BY <1>0, <2>1 DEF Segments, Phases
<1>2. \A k \in 1 .. Len(s) :
        CandidatesOf(in, s[k]) \in Seq(C) /\ ToSet(CandidatesOf(in, s[k])) = Of(k)
  <2>. SUFFICES ASSUME NEW k \in 1 .. Len(s)
                PROVE  /\ CandidatesOf(in, s[k]) \in Seq(C)
                       /\ ToSet(CandidatesOf(in, s[k])) = Of(k)
    OBVIOUS
  <2> DEFINE segment == s[k]
  <2>1. IsSegment(segment, Groups)
    BY <1>1 DEF IsSegment
  <2> HIDE DEF segment
  <2>2. /\ CandidatesOf(in, segment) \in Seq([model : Models, phase : Phases])
        /\ ToSet(CandidatesOf(in, segment)) = SegmentSet(in, segment)
    BY <1>0, <2>1, SegmentElements
  <2>. QED
    BY <2>2 DEF segment
<1>3. c \in Seq(C) /\ ToSet(c) = UNION {Of(k) : k \in 1 .. Len(s)}
  <2>1. CASE Triggered(in)
    <3>1. 1 \in 1 .. Len(s) /\ 2 \in 1 .. Len(s) /\ 1 .. Len(s) = {1, 2}
      <4>1. Len(s) = 2
        BY <1>1, <2>1
      <4> HIDE DEF s
      <4>. QED
        BY <4>1
    <3> DEFINE c1 == CandidatesOf(in, s[1])
               c2 == CandidatesOf(in, s[2])
    <3>2. c = c1 \o c2
      BY <2>1 DEF Candidates
    <3>3. c1 \in Seq(C) /\ c2 \in Seq(C) /\ ToSet(c1) = Of(1) /\ ToSet(c2) = Of(2)
      BY <1>2, <3>1
    <3> HIDE DEF c1, c2, c, C, Of, s
    <3>4. c \in Seq(C) /\ ToSet(c) = ToSet(c1) \cup ToSet(c2)
      BY <3>2, <3>3, ConcatElements
    <3>. QED
      BY <3>1, <3>3, <3>4
  <2>2. CASE ~Triggered(in)
    <3>1. 1 .. Len(s) = {1}
      <4>1. Len(s) = 1
        BY <1>1, <2>2
      <4> HIDE DEF s
      <4>. QED
        BY <4>1
    <3>2. c = CandidatesOf(in, s[1])
      BY <2>2 DEF Candidates
    <3> HIDE DEF c, C, Of, s
    <3>. QED
      BY <1>2, <3>1, <3>2
  <2>. QED
    BY <2>1, <2>2
<1>4. ToSet(c) = {c[i] : i \in 1 .. Len(c)}
  <2>1. DOMAIN c = 1 .. Len(c)
    <3> HIDE DEF c, C
    <3>. QED
      BY <1>3
  <2>. QED
    BY <2>1 DEF ToSet
<1>5. ASSUME NEW i \in 1 .. Len(c)
      PROVE  /\ ~Unavailable(in, c[i].model)
             /\ \E g \in ToSet(in.order) : c[i].model \in ToSet(in.members[g])
  <2>1. PICK k \in 1 .. Len(s) : c[i] \in Of(k)
    <3> HIDE DEF c, Of, s
    <3>. QED
      BY <1>3, <1>4, <1>5
  <2> HIDE DEF c, s
  <2>2. PICK m \in Reached(in, s[k].chain) :
          ~Unavailable(in, m) /\ c[i] = [model |-> m, phase |-> s[k].phase]
    BY <2>1 DEF SegmentSet
  <2>3. c[i].model = m
    BY <2>2
  <2>. QED
    BY <2>2, <2>3 DEF Reached, GivenSet
<1>6. ASSUME NEW k \in 1 .. Len(s), NEW g \in ToSet(s[k].chain) \cap ToSet(in.order),
             NEW m \in ToSet(in.members[g]), ~Unavailable(in, m)
      PROVE  \E i \in 1 .. Len(c) : c[i].model = m
  <2> HIDE DEF c, s
  <2>1. m \in Reached(in, s[k].chain)
    BY DEF Reached, GivenSet
  <2>2. [model |-> m, phase |-> s[k].phase] \in ToSet(c)
    <3>1. [model |-> m, phase |-> s[k].phase] \in Of(k)
      BY <1>6, <2>1 DEF SegmentSet
    <3> HIDE DEF Of
    <3>. QED
      BY <1>3, <3>1
  <2>3. PICK i \in 1 .. Len(c) : c[i] = [model |-> m, phase |-> s[k].phase]
    BY <1>4, <2>2
  <2>4. c[i].model = m
    BY <2>3
  <2>. QED
    BY <2>4
<1>. QED
  BY <1>3, <1>5, <1>6 DEF Promised
=============================================================================
