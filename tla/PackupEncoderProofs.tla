------------------------- MODULE PackupEncoderProofs -------------------------
(***************************************************************************)
(* Proofs about the encoder of packup, for all problems: what the clauses  *)
(* demand of an installation, what they allow, that the soft clauses never *)
(* outweigh the hard ones, and that the encoding is finite.                *)
(***************************************************************************)
EXTENDS PackupEncoder, SequenceTheorems, FiniteSetTheorems, WellFoundedInduction, TLAPS

-----------------------------------------------------------------------------
(* The encoder.  An assignment a is the set of the variables that are true. *)

\* what slicing yields, when no version is above m (Version is unsigned)
Encodable(s, m) ==
  /\ s.needed \subseteq Units(s.pr)
  /\ s.features = UNION {Provided(s.pr, i) : i \in s.needed}
  /\ \A i \in s.needed : Unit(s, i).version \in 0 .. m
  /\ \A f \in s.features : f[2] \in 0 .. m

Infinite(s, a, n) == InfiniteProvided(s, n) /\ PV(n, 0) \in a
SomeFrom(s, a, n, v) == Infinite(s, a, n) \/ \E x \in Versions(s, n) : x >= v /\ PV(n, x) \in a
SomeTo(s, a, n, v) == \E x \in Versions(s, n) : x <= v /\ PV(n, x) \in a

\* what an interval variable stands for
Meaning(s, a, kind, n, v) ==
  CASE kind = "ru" -> SomeFrom(s, a, n, v)
    [] kind = "rd" -> SomeTo(s, a, n, v)
    [] kind = "du" -> ~ SomeFrom(s, a, n, v)
    [] kind = "dd" -> ~ SomeTo(s, a, n, v)

\* the clauses that define <<kind, n, v>>
Clauses(s, kind, n, I, v) ==
  IF kind \in {"ru", "rd"} THEN ProcessRequire(s, kind, n, I, v) ELSE ProcessDisable(s, kind, n, I, v)

AllSatisfied(a, C) == \A c \in C : Satisfied(a, c)

LEMMA LeastOf ==
  ASSUME NEW S, S \subseteq Nat, S # {}
  PROVE  Min(S) \in S /\ \A x \in S : Min(S) <= x
<1>1. PICK m \in S : \A x \in S : ~ (<<x, m>> \in OpToRel(<, Nat))
  BY NatLessThanWellFounded, WFMin
<1>2. \A x \in S : m <= x
  <2>1. \A x \in S : ~ (x < m)
    BY <1>1 DEF OpToRel
  <2> QED  BY <2>1
<1>3. \E x \in S : \A y \in S : x <= y
  BY <1>2
<1> QED  BY <1>3 DEF Min

LEMMA GreatestOf ==
  ASSUME NEW m \in Nat, NEW S, S \subseteq 0 .. m, S # {}
  PROVE  Max(S) \in S /\ \A x \in S : x <= Max(S)
<1>0. S \subseteq Int
  OBVIOUS
<1> DEFINE T == {m - x : x \in S}
<1>1. T \subseteq Nat /\ T # {}
  <2>1. \A x \in S : m - x \in Nat
    OBVIOUS
  <2> QED  BY <2>1
<1>2. PICK t \in T : \A u \in T : t <= u
  <2> HIDE DEF T
  <2> QED  BY <1>1, LeastOf
<1>3. PICK x \in S : t = m - x
  OBVIOUS
<1>4. \A y \in S : x >= y
  <2>1. \A y \in S : m - x <= m - y
    BY <1>2, <1>3
  <2> HIDE DEF T
  <2>2. \A y \in S : x \in Int /\ y \in Int
    BY <1>0
  <2> QED  BY <2>1, <2>2
<1>5. \E z \in S : \A y \in S : z >= y
  BY <1>4
<1>6. Max(S) \in S /\ \A y \in S : Max(S) >= y
  BY <1>5 DEF Max
<1> QED  BY <1>6

(* What holds at 0 and is kept by every step holds up to n.                *)
LEMMA UpTo ==
  ASSUME NEW n \in Nat, NEW S, 0 \in S, \A k \in 1 .. n : k - 1 \in S => k \in S
  PROVE  0 .. n \subseteq S
<1> DEFINE B == {k \in 0 .. n : k \notin S}
<1> SUFFICES ASSUME B # {} PROVE FALSE
  OBVIOUS
<1>1. PICK b \in B : \A k \in B : b <= k
  <2>1. B \subseteq Nat
    OBVIOUS
  <2> HIDE DEF B
  <2> QED  BY <2>1, LeastOf
<1>2. b # 0
  OBVIOUS
<1>3. b-1 \in 0 .. n /\ b-1 \notin B /\ b \in 1 .. n
  BY <1>1, <1>2
<1> QED  BY <1>1, <1>3

LEMMA Initials ==
  ASSUME NEW k, k \in Nat, k # 0
  PROVE  1 .. k # {} /\ Max(1 .. k) = k /\ (1 .. k) \ {k} = 1 .. k - 1 /\ k - 1 \in Nat
<1>1. k \in 1 .. k /\ 1 .. k \subseteq 0 .. k
  OBVIOUS
<1>2. Max(1 .. k) \in 1 .. k /\ \A x \in 1 .. k : x <= Max(1 .. k)
  BY <1>1, GreatestOf
<1> QED  BY <1>1, <1>2

LEMMA VersionsBounded ==
  ASSUME NEW s, NEW m \in Nat, Encodable(s, m), NEW n
  PROVE  /\ Versions(s, n) \subseteq 0 .. m
         /\ InfiniteProvided(s, n) => 0 \in Versions(s, n) /\ IsFeature(s.pr, n)
<1>1. Versions(s, n) \subseteq 0 .. m
  BY DEF Encodable, Versions, UnitVersions, NeededUnits
<1>2. ASSUME InfiniteProvided(s, n) PROVE 0 \in Versions(s, n) /\ IsFeature(s.pr, n)
  <2>1. <<n, 0>> \in s.features /\ <<n, 0>>[1] = n /\ <<n, 0>>[2] = 0
    BY <1>2 DEF InfiniteProvided
  <2>2. 0 \in Versions(s, n)
    BY <2>1 DEF Versions, NeededFeature
  <2>3. <<n, 0>> \in AllProvided(s.pr)
    BY <2>1 DEF Encodable, AllProvided
  <2> QED  BY <2>1, <2>2, <2>3 DEF IsFeature
<1> QED  BY <1>1, <1>2

(* The next interval is another one, in the direction of the kind.         *)
LEMMA NextOf ==
  ASSUME NEW m \in Nat, NEW I, I \subseteq 0 .. m, NEW v \in I, NEW kind
  PROVE  IF Following(kind, I, v) = {} THEN NextInterval(kind, I, v) = v
         ELSE NextInterval(kind, I, v) \in Following(kind, I, v)
<1> DEFINE F == Following(kind, I, v)
<1>1. CASE F = {}
  BY <1>1 DEF NextInterval
<1>2. CASE F # {}
  <2>1. F \subseteq I
    BY DEF Following
  <2>2. F \subseteq Nat /\ F \subseteq 0 .. m
    <3> HIDE DEF F
    <3> QED  BY <2>1
  <2>3. Min(F) \in F /\ Max(F) \in F
    <3> HIDE DEF F
    <3> QED  BY <1>2, <2>2, LeastOf, GreatestOf
  <2> QED  BY <1>2, <2>3 DEF NextInterval
<1> QED  BY <1>1, <1>2

LEMMA NextUp ==
  ASSUME NEW m \in Nat, NEW I, I \subseteq 0 .. m, NEW v \in I, NEW kind \in {"ru", "du"}
  PROVE  LET next == NextInterval(kind, I, v) IN
         /\ next = v <=> Following(kind, I, v) = {}
         /\ next # v => next \in I /\ next \in Nat /\ next > v
<1> DEFINE F == Following(kind, I, v)
           next == NextInterval(kind, I, v)
<1>1. \A w : w \in F <=> w \in I /\ w > v
  BY DEF Following, IsUp
<1>2. v \in Nat /\ \A w \in I : w \in Nat
  OBVIOUS
<1>3. v \notin F
  BY <1>1, <1>2
<1>4. IF F = {} THEN next = v ELSE next \in F
  BY NextOf
<1> HIDE DEF F, next
<1>5. next = v <=> F = {}
  BY <1>3, <1>4
<1>6. next # v => next \in I /\ next \in Nat /\ next > v
  BY <1>1, <1>2, <1>4
<1> QED  BY <1>5, <1>6 DEF F, next

LEMMA NextDown ==
  ASSUME NEW m \in Nat, NEW I, I \subseteq 0 .. m, NEW v \in I, NEW kind \in {"rd", "dd"}
  PROVE  LET next == NextInterval(kind, I, v) IN
         /\ next = v <=> Following(kind, I, v) = {}
         /\ next # v => next \in I /\ next \in Nat /\ next < v
<1> DEFINE F == Following(kind, I, v)
           next == NextInterval(kind, I, v)
<1>1. \A w : w \in F <=> w \in I /\ w < v
  BY DEF Following, IsUp
<1>2. v \in Nat /\ \A w \in I : w \in Nat
  OBVIOUS
<1>3. v \notin F
  BY <1>1, <1>2
<1>4. IF F = {} THEN next = v ELSE next \in F
  BY NextOf
<1> HIDE DEF F, next
<1>5. next = v <=> F = {}
  BY <1>3, <1>4
<1>6. next # v => next \in I /\ next \in Nat /\ next < v
  BY <1>1, <1>2, <1>4
<1> QED  BY <1>5, <1>6 DEF F, next

(* What it means that a literal is true, and a clause of the encoder.      *)
Holds(a, l) == (l[1] \in a) = l[2]

LEMMA LiteralHolds ==
  ASSUME NEW a, NEW x
  PROVE  (Holds(a, Pos(x)) <=> x \in a) /\ (Holds(a, Neg(x)) <=> x \notin a)
<1>1. Pos(x)[1] = x /\ Pos(x)[2] = TRUE /\ Neg(x)[1] = x /\ Neg(x)[2] = FALSE
  BY DEF Pos, Neg
<1>2. ((x \in a) = TRUE) <=> x \in a
  BY Zenon
<1>3. ((x \in a) = FALSE) <=> x \notin a
  <2>1. CASE x \in a
    BY <1>2, <2>1
  <2>2. CASE x \notin a
    BY <2>2
  <2> QED  BY <2>1, <2>2
<1> QED  BY <1>1, <1>2, <1>3, Zenon DEF Holds

LEMMA ClauseHolds == ASSUME NEW a, NEW c PROVE Satisfied(a, c) <=> \E l \in c : Holds(a, l)
BY Zenon DEF Satisfied, Holds

LEMMA ImplicationHolds ==
  ASSUME NEW a, NEW y, NEW X
  PROVE  Satisfied(a, {Neg(y)} \cup {Pos(x) : x \in X}) <=> (y \in a => \E x \in X : x \in a)
BY ClauseHolds, LiteralHolds

LEMMA PairHolds ==
  ASSUME NEW a, NEW x, NEW y
  PROVE  /\ Satisfied(a, {Neg(x), Neg(y)}) <=> ~ (x \in a /\ y \in a)
         /\ Satisfied(a, {Neg(x), Pos(y)}) <=> (x \in a => y \in a)
BY ClauseHolds, LiteralHolds

LEMMA RequireHolds ==
  ASSUME NEW s, NEW a, NEW kind, NEW n, NEW I, NEW v
  PROVE  AllSatisfied(a, ProcessRequire(s, kind, n, I, v)) <=>
           (<<kind, n, v>> \in a =>
              \/ \E x \in Segment(s, kind, n, I, v) \cup NextVars(kind, n, I, v) : x \in a
              \/ kind = "ru" /\ \E x \in InfiniteVars(s, kind, n, I, v) : x \in a)
<1> DEFINE X == Segment(s, kind, n, I, v) \cup NextVars(kind, n, I, v)
                  \cup (IF kind = "ru" THEN InfiniteVars(s, kind, n, I, v) ELSE {})
<1>1. AllSatisfied(a, ProcessRequire(s, kind, n, I, v)) <=>
        Satisfied(a, {Neg(<<kind, n, v>>)} \cup {Pos(x) : x \in X})
  BY DEF AllSatisfied, ProcessRequire
<1>2. @ <=> (<<kind, n, v>> \in a => \E x \in X : x \in a)
  <2> HIDE DEF X
  <2> QED  BY ImplicationHolds
<1>3. @ <=> (<<kind, n, v>> \in a =>
               \/ \E x \in Segment(s, kind, n, I, v) \cup NextVars(kind, n, I, v) : x \in a
               \/ kind = "ru" /\ \E x \in InfiniteVars(s, kind, n, I, v) : x \in a)
  OBVIOUS
<1> QED  BY <1>1, <1>2, <1>3

LEMMA DisableHolds ==
  ASSUME NEW s, NEW a, NEW kind, NEW n, NEW I, NEW v
  PROVE  AllSatisfied(a, ProcessDisable(s, kind, n, I, v)) <=>
           (<<kind, n, v>> \in a =>
              /\ \A x \in Segment(s, kind, n, I, v) \cup InfiniteVars(s, kind, n, I, v) : x \notin a
              /\ \A x \in NextVars(kind, n, I, v) : x \in a)
<1> DEFINE y == <<kind, n, v>>
           X == Segment(s, kind, n, I, v) \cup InfiniteVars(s, kind, n, I, v)
           Z == NextVars(kind, n, I, v)
<1>1. ProcessDisable(s, kind, n, I, v) = {{Neg(y), Neg(x)} : x \in X} \cup {{Neg(y), Pos(x)} : x \in Z}
  BY DEF ProcessDisable
<1> HIDE DEF X, Z, y
<1>2. AllSatisfied(a, ProcessDisable(s, kind, n, I, v)) <=>
        (\A x \in X : Satisfied(a, {Neg(y), Neg(x)})) /\ (\A x \in Z : Satisfied(a, {Neg(y), Pos(x)}))
  BY <1>1 DEF AllSatisfied
<1>3. @ <=> (y \in a => (\A x \in X : x \notin a) /\ (\A x \in Z : x \in a))
  BY PairHolds
<1> QED  BY <1>2, <1>3 DEF X, Z, y

LEMMA RequireUp ==
  ASSUME NEW s, NEW m \in Nat, Encodable(s, m), NEW a, NEW n, NEW I, I \subseteq 0 .. m,
         \A v \in I : AllSatisfied(a, ProcessRequire(s, "ru", n, I, v))
  PROVE  \A v \in I : <<"ru", n, v>> \in a => SomeFrom(s, a, n, v)
<1> DEFINE B == {v \in I : <<"ru", n, v>> \in a /\ ~ SomeFrom(s, a, n, v)}
<1>1. SUFFICES ASSUME B # {} PROVE FALSE
  OBVIOUS
<1>2. PICK v \in B : \A w \in B : w <= v
  <2>1. B \subseteq 0 .. m
    OBVIOUS
  <2> HIDE DEF B
  <2> QED  BY <1>1, <2>1, GreatestOf
<1>3. v \in I /\ v \in Nat /\ <<"ru", n, v>> \in a /\ Versions(s, n) \subseteq Nat /\ IsUp("ru")
  BY VersionsBounded DEF IsUp
<1>4. \/ \E x \in Segment(s, "ru", n, I, v) \cup NextVars("ru", n, I, v) : x \in a
      \/ \E x \in InfiniteVars(s, "ru", n, I, v) : x \in a
  BY <1>3, RequireHolds
<1>5. CASE \E x \in Segment(s, "ru", n, I, v) : x \in a
  BY <1>3, <1>5 DEF Segment, SomeFrom
<1>6. CASE \E x \in NextVars("ru", n, I, v) : x \in a
  <2> DEFINE next == NextInterval("ru", I, v)
  <2>0. next # v /\ <<"ru", n, next>> \in a
    BY <1>6 DEF NextVars
  <2>1. PICK w \in I : w > v /\ <<"ru", n, w>> \in a
    <3> HIDE DEF B
    <3>1. next \in I /\ next > v
      BY <1>3, <2>0, NextUp
    <3> QED  BY <2>0, <3>1
  <2>2. w \notin B /\ w \in Nat
    BY <1>2, <1>3, <2>1
  <2>3. SomeFrom(s, a, n, w)
    BY <2>1, <2>2
  <2> QED  BY <1>3, <2>1, <2>2, <2>3 DEF SomeFrom
<1>7. CASE \E x \in InfiniteVars(s, "ru", n, I, v) : x \in a
  BY <1>7, <1>2 DEF InfiniteVars, SomeFrom, Infinite
<1> QED  BY <1>4, <1>5, <1>6, <1>7

LEMMA RequireDown ==
  ASSUME NEW s, NEW m \in Nat, Encodable(s, m), NEW a, NEW n, NEW I, I \subseteq 0 .. m,
         \A v \in I : AllSatisfied(a, ProcessRequire(s, "rd", n, I, v))
  PROVE  \A v \in I : <<"rd", n, v>> \in a => SomeTo(s, a, n, v)
<1> DEFINE B == {v \in I : <<"rd", n, v>> \in a /\ ~ SomeTo(s, a, n, v)}
<1>1. SUFFICES ASSUME B # {} PROVE FALSE
  OBVIOUS
<1>2. PICK v \in B : \A w \in B : v <= w
  <2>1. B \subseteq I
    OBVIOUS
  <2> HIDE DEF B
  <2>2. B \subseteq Nat
    BY <2>1
  <2> QED  BY <1>1, <2>2, LeastOf
<1>3. v \in I /\ v \in Nat /\ <<"rd", n, v>> \in a /\ Versions(s, n) \subseteq Nat /\ ~ IsUp("rd")
  BY VersionsBounded DEF IsUp
<1>4. \E x \in Segment(s, "rd", n, I, v) \cup NextVars("rd", n, I, v) : x \in a
  BY <1>3, RequireHolds
<1>5. CASE \E x \in Segment(s, "rd", n, I, v) : x \in a
  BY <1>3, <1>5 DEF Segment, SomeTo
<1>6. CASE \E x \in NextVars("rd", n, I, v) : x \in a
  <2> DEFINE next == NextInterval("rd", I, v)
  <2>0. next # v /\ <<"rd", n, next>> \in a
    BY <1>6 DEF NextVars
  <2>1. PICK w \in I : w < v /\ <<"rd", n, w>> \in a
    <3> HIDE DEF B
    <3>1. next \in I /\ next < v
      BY <1>3, <2>0, NextDown
    <3> QED  BY <2>0, <3>1
  <2>2. w \notin B /\ w \in Nat
    BY <1>2, <1>3, <2>1
  <2>3. SomeTo(s, a, n, w)
    BY <2>1, <2>2
  <2> QED  BY <1>3, <2>1, <2>2, <2>3 DEF SomeTo
<1> QED  BY <1>4, <1>5, <1>6

LEMMA DisableUp ==
  ASSUME NEW s, NEW m \in Nat, Encodable(s, m), NEW a, NEW n, NEW I, I \subseteq 0 .. m,
         \A v \in I : AllSatisfied(a, ProcessDisable(s, "du", n, I, v))
  PROVE  \A v \in I : <<"du", n, v>> \in a => ~ SomeFrom(s, a, n, v)
<1> DEFINE B == {v \in I : <<"du", n, v>> \in a /\ SomeFrom(s, a, n, v)}
<1>1. SUFFICES ASSUME B # {} PROVE FALSE
  OBVIOUS
<1>2. PICK v \in B : \A w \in B : w <= v
  <2>1. B \subseteq 0 .. m
    OBVIOUS
  <2> HIDE DEF B
  <2> QED  BY <1>1, <2>1, GreatestOf
<1>3. v \in I /\ v \in Nat /\ <<"du", n, v>> \in a /\ Versions(s, n) \subseteq Nat /\ IsUp("du")
  BY VersionsBounded DEF IsUp
<1> DEFINE next == NextInterval("du", I, v)
<1>4. /\ \A x \in Segment(s, "du", n, I, v) \cup InfiniteVars(s, "du", n, I, v) : x \notin a
      /\ \A x \in NextVars("du", n, I, v) : x \in a
  BY <1>3, DisableHolds
<1>5. CASE next = v
  <2>1. Following("du", I, v) = {}
    <3> HIDE DEF B
    <3> QED  BY <1>3, <1>5, NextUp
  <2>2. ~ Infinite(s, a, n)
    BY <1>4, <2>1, VersionsBounded DEF InfiniteVars, Infinite
  <2>3. ASSUME NEW x \in Versions(s, n), x >= v PROVE PV(n, x) \notin a
    BY <1>3, <1>4, <1>5, <2>3 DEF Segment
  <2> QED  BY <1>2, <2>2, <2>3 DEF SomeFrom
<1>6. CASE next # v
  <2>1. next \in I /\ next > v /\ next \in Nat
    <3> HIDE DEF B
    <3> QED  BY <1>3, <1>6, NextUp
  <2>2. <<"du", n, next>> \in a
    BY <1>4, <1>6 DEF NextVars
  <2>3. ~ SomeFrom(s, a, n, next)
    <3>1. next \notin B
      BY <1>2, <1>3, <2>1
    <3> QED  BY <2>1, <2>2, <3>1
  <2>4. ASSUME NEW x \in Versions(s, n), x >= v, x < next PROVE PV(n, x) \notin a
    BY <1>3, <1>4, <2>4 DEF Segment
  <2>5. \A x \in Versions(s, n) : x >= v => x >= next \/ x < next
    BY <1>3, <2>1
  <2> QED  BY <1>2, <2>3, <2>4, <2>5 DEF SomeFrom
<1> QED  BY <1>5, <1>6

LEMMA DisableDown ==
  ASSUME NEW s, NEW m \in Nat, Encodable(s, m), NEW a, NEW n, NEW I, I \subseteq 0 .. m,
         \A v \in I : AllSatisfied(a, ProcessDisable(s, "dd", n, I, v))
  PROVE  \A v \in I : <<"dd", n, v>> \in a => ~ SomeTo(s, a, n, v)
<1> DEFINE B == {v \in I : <<"dd", n, v>> \in a /\ SomeTo(s, a, n, v)}
<1>1. SUFFICES ASSUME B # {} PROVE FALSE
  OBVIOUS
<1>2. PICK v \in B : \A w \in B : v <= w
  <2>1. B \subseteq I
    OBVIOUS
  <2> HIDE DEF B
  <2>2. B \subseteq Nat
    BY <2>1
  <2> QED  BY <1>1, <2>2, LeastOf
<1>3. v \in I /\ v \in Nat /\ <<"dd", n, v>> \in a /\ Versions(s, n) \subseteq Nat /\ ~ IsUp("dd")
  BY VersionsBounded DEF IsUp
<1> DEFINE next == NextInterval("dd", I, v)
<1>4. /\ \A x \in Segment(s, "dd", n, I, v) : x \notin a
      /\ \A x \in NextVars("dd", n, I, v) : x \in a
  BY <1>3, DisableHolds
<1>5. CASE next = v
  <2>1. ASSUME NEW x \in Versions(s, n), x <= v PROVE PV(n, x) \notin a
    BY <1>3, <1>4, <1>5, <2>1 DEF Segment
  <2> QED  BY <1>2, <2>1 DEF SomeTo
<1>6. CASE next # v
  <2>1. next \in I /\ next < v /\ next \in Nat
    <3> HIDE DEF B
    <3> QED  BY <1>3, <1>6, NextDown
  <2>2. <<"dd", n, next>> \in a
    BY <1>4, <1>6 DEF NextVars
  <2>3. ~ SomeTo(s, a, n, next)
    <3>1. next \notin B
      BY <1>2, <1>3, <2>1
    <3> QED  BY <2>1, <2>2, <3>1
  <2>4. ASSUME NEW x \in Versions(s, n), x <= v, x > next PROVE PV(n, x) \notin a
    BY <1>3, <1>4, <2>4 DEF Segment
  <2>5. \A x \in Versions(s, n) : x <= v => x <= next \/ x > next
    BY <1>3, <2>1
  <2> QED  BY <1>2, <2>3, <2>4, <2>5 DEF SomeTo
<1> QED  BY <1>5, <1>6

\* the clauses C have interval variables of versions up to m only
Bounded(C, m) == \A kind \in KindsOfInterval : \A n : Intervals(C, kind, n) \subseteq 0 .. m

\* the names with interval variables, and the clauses of one kind and name
IntervalNames(C) == {l[1][2] : l \in {j \in UNION C : j[1][1] \in KindsOfInterval}}
OfName(s, C, kind, n) ==
  UNION {Clauses(s, kind, n, Intervals(C, kind, n), v) : v \in Intervals(C, kind, n)}
EdgesOf(C, n) ==
  EncodeEdges(n, Intervals(C, "ru", n), Intervals(C, "rd", n), Intervals(C, "du", n), Intervals(C, "dd", n))

LEMMA AllIntervals ==
  ASSUME NEW s, NEW C
  PROVE  \A c : c \in ProcessIntervalVariables(s, C) <=>
           \E n \in IntervalNames(C) :
             c \in EdgesOf(C, n) \/ \E kind \in KindsOfInterval : c \in OfName(s, C, kind, n)
<1>1. ProcessIntervalVariables(s, C) =
        (UNION {OfName(s, C, kind, n) : kind \in KindsOfInterval, n \in IntervalNames(C)})
          \cup UNION {EdgesOf(C, n) : n \in IntervalNames(C)}
  BY DEF ProcessIntervalVariables, IntervalNames, OfName, EdgesOf, Clauses
<1> QED  BY <1>1

LEMMA IntervalClauses ==
  ASSUME NEW s, NEW a, NEW C, AllSatisfied(a, ProcessIntervalVariables(s, C)),
         NEW kind \in KindsOfInterval, NEW n, NEW v \in Intervals(C, kind, n)
  PROVE  AllSatisfied(a, Clauses(s, kind, n, Intervals(C, kind, n), v))
<1>1. PICK l \in UNION C : l[1][1] = kind /\ l[1][2] = n
  BY DEF Intervals
<1>2. n \in IntervalNames(C)
  BY <1>1 DEF IntervalNames
<1>3. Clauses(s, kind, n, Intervals(C, kind, n), v) \subseteq OfName(s, C, kind, n)
  BY DEF OfName
<1>4. OfName(s, C, kind, n) \subseteq ProcessIntervalVariables(s, C)
  BY <1>2, AllIntervals
<1> QED  BY <1>3, <1>4 DEF AllSatisfied

(***************************************************************************)
(* No clause of the intervals lets something pass: with their links from   *)
(* each interval to the next, and the feature without version at the last  *)
(* one only, a variable that is true means what it stands for.             *)
(***************************************************************************)
THEOREM IntervalsSound ==
  ASSUME NEW s, NEW m \in Nat, Encodable(s, m), NEW a, NEW C, Bounded(C, m),
         AllSatisfied(a, ProcessIntervalVariables(s, C)),
         NEW kind \in KindsOfInterval, NEW n, NEW v \in Intervals(C, kind, n), <<kind, n, v>> \in a
  PROVE  Meaning(s, a, kind, n, v)
<1> DEFINE I == Intervals(C, kind, n)
<1>1. I \subseteq 0 .. m
  BY DEF Bounded
<1>2. \A w \in I : AllSatisfied(a, Clauses(s, kind, n, I, w))
  BY IntervalClauses
<1>3. v \in I
  OBVIOUS
<1> HIDE DEF I
<1>4. CASE kind = "ru"
  <2>1. \A w \in I : AllSatisfied(a, ProcessRequire(s, "ru", n, I, w))
    BY <1>2, <1>4 DEF Clauses
  <2> QED  BY <1>1, <1>3, <1>4, <2>1, RequireUp DEF Meaning
<1>5. CASE kind = "rd"
  <2>1. \A w \in I : AllSatisfied(a, ProcessRequire(s, "rd", n, I, w))
    BY <1>2, <1>5 DEF Clauses
  <2> QED  BY <1>1, <1>3, <1>5, <2>1, RequireDown DEF Meaning
<1>6. CASE kind = "du"
  <2>1. \A w \in I : AllSatisfied(a, ProcessDisable(s, "du", n, I, w))
    BY <1>2, <1>6 DEF Clauses
  <2> QED  BY <1>1, <1>3, <1>6, <2>1, DisableUp DEF Meaning
<1>7. CASE kind = "dd"
  <2>1. \A w \in I : AllSatisfied(a, ProcessDisable(s, "dd", n, I, w))
    BY <1>2, <1>7 DEF Clauses
  <2> QED  BY <1>1, <1>3, <1>7, <2>1, DisableDown DEF Meaning
<1> QED  BY <1>4, <1>5, <1>6, <1>7 DEF KindsOfInterval

LEMMA RequireUpHolds ==
  ASSUME NEW s, NEW m \in Nat, Encodable(s, m), NEW a, NEW n, NEW I, I \subseteq 0 .. m,
         \A v \in I : <<"ru", n, v>> \in a <=> SomeFrom(s, a, n, v)
  PROVE  \A v \in I : AllSatisfied(a, ProcessRequire(s, "ru", n, I, v))
<1> SUFFICES ASSUME NEW v \in I, SomeFrom(s, a, n, v)
             PROVE  \/ \E x \in Segment(s, "ru", n, I, v) \cup NextVars("ru", n, I, v) : x \in a
                    \/ \E x \in InfiniteVars(s, "ru", n, I, v) : x \in a
  BY RequireHolds
<1> DEFINE next == NextInterval("ru", I, v)
<1>1. v \in Nat /\ Versions(s, n) \subseteq Nat /\ IsUp("ru")
  BY VersionsBounded DEF IsUp
<1>2. next # v => next \in I /\ next \in Nat /\ next > v
  BY NextUp
<1>3. CASE Infinite(s, a, n)
  <2>1. CASE next = v
    <3>1. Following("ru", I, v) = {}
      BY <2>1, NextUp
    <3> QED  BY <1>3, <3>1, VersionsBounded DEF InfiniteVars, Infinite
  <2>2. CASE next # v
    BY <1>2, <1>3, <2>2 DEF NextVars, SomeFrom
  <2> QED  BY <2>1, <2>2
<1>4. CASE ~ Infinite(s, a, n)
  <2>1. PICK x \in Versions(s, n) : x >= v /\ PV(n, x) \in a
    BY <1>4 DEF SomeFrom
  <2>2. CASE next # v => x < next
    BY <1>1, <2>1, <2>2 DEF Segment
  <2>3. CASE next # v /\ ~ (x < next)
    <3>1. SomeFrom(s, a, n, next)
      BY <1>1, <1>2, <2>1, <2>3 DEF SomeFrom
    <3> QED  BY <1>2, <2>3, <3>1 DEF NextVars
  <2> QED  BY <2>2, <2>3
<1> QED  BY <1>3, <1>4

LEMMA RequireDownHolds ==
  ASSUME NEW s, NEW m \in Nat, Encodable(s, m), NEW a, NEW n, NEW I, I \subseteq 0 .. m,
         \A v \in I : <<"rd", n, v>> \in a <=> SomeTo(s, a, n, v)
  PROVE  \A v \in I : AllSatisfied(a, ProcessRequire(s, "rd", n, I, v))
<1> SUFFICES ASSUME NEW v \in I, SomeTo(s, a, n, v)
             PROVE  \E x \in Segment(s, "rd", n, I, v) \cup NextVars("rd", n, I, v) : x \in a
  BY RequireHolds
<1> DEFINE next == NextInterval("rd", I, v)
<1>1. v \in Nat /\ Versions(s, n) \subseteq Nat /\ ~ IsUp("rd")
  BY VersionsBounded DEF IsUp
<1>2. next # v => next \in I /\ next \in Nat /\ next < v
  BY NextDown
<1>3. PICK x \in Versions(s, n) : x <= v /\ PV(n, x) \in a
  BY DEF SomeTo
<1>4. CASE next # v => x > next
  BY <1>1, <1>3, <1>4 DEF Segment
<1>5. CASE next # v /\ ~ (x > next)
  <2>1. SomeTo(s, a, n, next)
    BY <1>1, <1>2, <1>3, <1>5 DEF SomeTo
  <2> QED  BY <1>2, <1>5, <2>1 DEF NextVars
<1> QED  BY <1>4, <1>5

LEMMA DisableUpHolds ==
  ASSUME NEW s, NEW m \in Nat, Encodable(s, m), NEW a, NEW n, NEW I, I \subseteq 0 .. m,
         \A v \in I : <<"du", n, v>> \in a <=> ~ SomeFrom(s, a, n, v)
  PROVE  \A v \in I : AllSatisfied(a, ProcessDisable(s, "du", n, I, v))
<1> SUFFICES ASSUME NEW v \in I, ~ SomeFrom(s, a, n, v)
             PROVE  /\ \A x \in Segment(s, "du", n, I, v) \cup InfiniteVars(s, "du", n, I, v) : x \notin a
                    /\ \A x \in NextVars("du", n, I, v) : x \in a
  BY DisableHolds
<1> DEFINE next == NextInterval("du", I, v)
<1>1. v \in Nat /\ Versions(s, n) \subseteq Nat /\ IsUp("du")
  BY VersionsBounded DEF IsUp
<1>2. next # v => next \in I /\ next \in Nat /\ next > v
  BY NextUp
<1>3. \A x \in Segment(s, "du", n, I, v) : x \notin a
  BY <1>1 DEF Segment, SomeFrom
<1>4. \A x \in InfiniteVars(s, "du", n, I, v) : x \notin a
  BY DEF InfiniteVars, SomeFrom, Infinite
<1>5. ASSUME next # v PROVE <<"du", n, next>> \in a
  <2>1. \A x \in Versions(s, n) : x >= next => x >= v
    BY <1>1, <1>2, <1>5
  <2>2. ~ SomeFrom(s, a, n, next)
    BY <2>1 DEF SomeFrom
  <2> QED  BY <1>2, <1>5, <2>2
<1> QED  BY <1>3, <1>4, <1>5 DEF NextVars

LEMMA DisableDownHolds ==
  ASSUME NEW s, NEW m \in Nat, Encodable(s, m), NEW a, NEW n, NEW I, I \subseteq 0 .. m,
         \A v \in I : <<"dd", n, v>> \in a <=> ~ SomeTo(s, a, n, v)
  PROVE  \A v \in I : AllSatisfied(a, ProcessDisable(s, "dd", n, I, v))
<1> SUFFICES ASSUME NEW v \in I, ~ SomeTo(s, a, n, v)
             PROVE  /\ \A x \in Segment(s, "dd", n, I, v) \cup InfiniteVars(s, "dd", n, I, v) : x \notin a
                    /\ \A x \in NextVars("dd", n, I, v) : x \in a
  BY DisableHolds
<1> DEFINE next == NextInterval("dd", I, v)
<1>1. v \in Nat /\ Versions(s, n) \subseteq Nat /\ ~ IsUp("dd")
  BY VersionsBounded DEF IsUp
<1>2. next # v => next \in I /\ next \in Nat /\ next < v
  BY NextDown
<1>3. \A x \in Segment(s, "dd", n, I, v) : x \notin a
  BY <1>1 DEF Segment, SomeTo
<1>4. \A x \in InfiniteVars(s, "dd", n, I, v) : x \notin a
  <2>1. InfiniteProvided(s, n) => 0 \in Versions(s, n) /\ 0 <= v
    BY <1>1, VersionsBounded
  <2> QED  BY <2>1 DEF InfiniteVars, SomeTo
<1>5. ASSUME next # v PROVE <<"dd", n, next>> \in a
  <2>1. \A x \in Versions(s, n) : x <= next => x <= v
    BY <1>1, <1>2, <1>5
  <2>2. ~ SomeTo(s, a, n, next)
    BY <2>1 DEF SomeTo
  <2> QED  BY <1>2, <1>5, <2>2
<1> QED  BY <1>3, <1>4, <1>5 DEF NextVars

LEMMA EdgesHold ==
  ASSUME NEW s, NEW m \in Nat, Encodable(s, m), NEW a, NEW n, NEW ru, NEW rd, NEW du, NEW dd,
         ru \subseteq 0 .. m, rd \subseteq 0 .. m, du \subseteq 0 .. m, dd \subseteq 0 .. m,
         \A v \in ru : <<"ru", n, v>> \in a => SomeFrom(s, a, n, v),
         \A v \in rd : <<"rd", n, v>> \in a => SomeTo(s, a, n, v),
         \A v \in du : <<"du", n, v>> \in a => ~ SomeFrom(s, a, n, v),
         \A v \in dd : <<"dd", n, v>> \in a => ~ SomeTo(s, a, n, v)
  PROVE  AllSatisfied(a, EncodeEdges(n, ru, rd, du, dd))
<1>1. Versions(s, n) \subseteq Nat
  BY VersionsBounded
<1>2. ASSUME NEW v \in du, \E w \in ru : w >= v
      PROVE  Satisfied(a, {Neg(<<"ru", n, Min({w \in ru : w >= v})>>), Neg(<<"du", n, v>>)})
  <2> DEFINE w == Min({x \in ru : x >= v})
  <2>1. w \in ru /\ w >= v
    <3> DEFINE S == {x \in ru : x >= v}
    <3>1. S # {} /\ S \subseteq ru
      BY <1>2
    <3>2. Min(S) \in S
      <4> HIDE DEF S
      <4>1. S \subseteq Nat
        BY <3>1
      <4> QED  BY <3>1, <4>1, LeastOf
    <3> QED  BY <3>2
  <2> HIDE DEF w
  <2>2. v \in Nat /\ w \in Nat
    BY <2>1
  <2>3. SomeFrom(s, a, n, w) => SomeFrom(s, a, n, v)
    BY <1>1, <2>1, <2>2 DEF SomeFrom
  <2>4. Satisfied(a, {Neg(<<"ru", n, w>>), Neg(<<"du", n, v>>)})
    BY <2>1, <2>3, PairHolds
  <2> QED  BY <2>4 DEF w
<1>3. ASSUME NEW v \in dd, \E w \in rd : w <= v
      PROVE  Satisfied(a, {Neg(<<"rd", n, Max({w \in rd : w <= v})>>), Neg(<<"dd", n, v>>)})
  <2> DEFINE w == Max({x \in rd : x <= v})
  <2>1. w \in rd /\ w <= v
    <3> DEFINE S == {x \in rd : x <= v}
    <3>1. S # {} /\ S \subseteq rd
      BY <1>3
    <3>2. Max(S) \in S
      <4> HIDE DEF S
      <4>1. S \subseteq 0 .. m
        BY <3>1
      <4> QED  BY <3>1, <4>1, GreatestOf
    <3> QED  BY <3>2
  <2> HIDE DEF w
  <2>2. v \in Nat /\ w \in Nat
    BY <2>1
  <2>3. SomeTo(s, a, n, w) => SomeTo(s, a, n, v)
    BY <1>1, <2>1, <2>2 DEF SomeTo
  <2>4. Satisfied(a, {Neg(<<"rd", n, w>>), Neg(<<"dd", n, v>>)})
    BY <2>1, <2>3, PairHolds
  <2> QED  BY <2>4 DEF w
<1> QED  BY <1>2, <1>3 DEF AllSatisfied, EncodeEdges

(***************************************************************************)
(* No clause of the intervals excludes something: an assignment in which   *)
(* every interval variable has the value it stands for, whatever packages  *)
(* and features are true, satisfies the clauses of all intervals and the   *)
(* edges between them.                                                     *)
(***************************************************************************)
THEOREM IntervalsComplete ==
  ASSUME NEW s, NEW m \in Nat, Encodable(s, m), NEW a, NEW C, Bounded(C, m),
         \A kind \in KindsOfInterval : \A n : \A v \in Intervals(C, kind, n) :
           <<kind, n, v>> \in a <=> Meaning(s, a, kind, n, v)
  PROVE  AllSatisfied(a, ProcessIntervalVariables(s, C))
<1> DEFINE Of(kind, n) == Intervals(C, kind, n)
<1>1. \A kind \in KindsOfInterval : \A n : Of(kind, n) \subseteq 0 .. m
  BY DEF Bounded
<1>2. \A n : /\ \A v \in Of("ru", n) : <<"ru", n, v>> \in a <=> SomeFrom(s, a, n, v)
             /\ \A v \in Of("rd", n) : <<"rd", n, v>> \in a <=> SomeTo(s, a, n, v)
             /\ \A v \in Of("du", n) : <<"du", n, v>> \in a <=> ~ SomeFrom(s, a, n, v)
             /\ \A v \in Of("dd", n) : <<"dd", n, v>> \in a <=> ~ SomeTo(s, a, n, v)
  BY DEF KindsOfInterval, Meaning
<1> HIDE DEF Of
<1>3. \A n : \A v \in Of("ru", n) : AllSatisfied(a, ProcessRequire(s, "ru", n, Of("ru", n), v))
  BY <1>1, <1>2, RequireUpHolds DEF KindsOfInterval
<1>4. \A n : \A v \in Of("rd", n) : AllSatisfied(a, ProcessRequire(s, "rd", n, Of("rd", n), v))
  BY <1>1, <1>2, RequireDownHolds DEF KindsOfInterval
<1>5. \A n : \A v \in Of("du", n) : AllSatisfied(a, ProcessDisable(s, "du", n, Of("du", n), v))
  BY <1>1, <1>2, DisableUpHolds DEF KindsOfInterval
<1>6. \A n : \A v \in Of("dd", n) : AllSatisfied(a, ProcessDisable(s, "dd", n, Of("dd", n), v))
  BY <1>1, <1>2, DisableDownHolds DEF KindsOfInterval
<1>7. \A kind \in KindsOfInterval : \A n : \A v \in Of(kind, n) :
        AllSatisfied(a, Clauses(s, kind, n, Of(kind, n), v))
  BY <1>3, <1>4, <1>5, <1>6 DEF KindsOfInterval, Clauses
<1>8. \A n : AllSatisfied(a, EncodeEdges(n, Of("ru", n), Of("rd", n), Of("du", n), Of("dd", n)))
  BY <1>1, <1>2, EdgesHold DEF KindsOfInterval
<1>9. \A n : \A kind \in KindsOfInterval : AllSatisfied(a, OfName(s, C, kind, n))
  BY <1>7 DEF Of, OfName, AllSatisfied
<1>10. \A n : AllSatisfied(a, EdgesOf(C, n))
  BY <1>8 DEF Of, EdgesOf
<1> QED  BY <1>9, <1>10, AllIntervals DEF AllSatisfied

-----------------------------------------------------------------------------
(* Requests *)

\* nothing is asked for below version 0 (operand - 1 would wrap around)
Askable(vp) ==
  /\ vp.op \in {"none", "=", "!=", ">=", ">", "<=", "<"} /\ vp.version \in Nat
  /\ vp.op \in {"!=", "<"} => vp.version # 0

\* a true variable answers a request
Answered(s, a, vp) ==
  \E v \in Versions(s, vp.name) :
    /\ PV(vp.name, v) \in a
    /\ Evaluate(v, vp.op, vp.version) \/ (v = 0 /\ InfiniteProvided(s, vp.name))

\* p is one of the parts of S that a request selects
PartOf(p, S) ==
  /\ p[1] \in {"u", "d", "="} /\ p[2] \subseteq S
  /\ p[1] = "u" => \A x \in S : \A y \in p[2] : x >= y => x \in p[2]
  /\ p[1] = "d" => \A x \in S : \A y \in p[2] : x <= y => x \in p[2]

Up(S, v) == <<"u", {x \in S : x >= v}>>
Down(S, v) == <<"d", {x \in S : x <= v}>>

LEMMA UpAndDown ==
  ASSUME NEW S, S \subseteq Nat, NEW v \in Int
  PROVE  /\ PartOf(Up(S, v), S) /\ \A x : x \in Up(S, v)[2] <=> x \in S /\ x >= v
         /\ PartOf(Down(S, v), S) /\ \A x : x \in Down(S, v)[2] <=> x \in S /\ x <= v
<1>1. \A x \in S : x \in Int
  OBVIOUS
<1>2. /\ Up(S, v)[1] = "u" /\ \A x : x \in Up(S, v)[2] <=> x \in S /\ x >= v
      /\ Down(S, v)[1] = "d" /\ \A x : x \in Down(S, v)[2] <=> x \in S /\ x <= v
  BY DEF Up, Down
<1> DEFINE p == Up(S, v)
           q == Down(S, v)
<1>3. PartOf(p, S)
  <2> HIDE DEF p
  <2>1. \A x \in S : \A y \in p[2] : x >= y => x \in p[2]
    BY <1>1, <1>2 DEF p
  <2> QED  BY <1>2, <2>1 DEF p, PartOf
<1>4. PartOf(q, S)
  <2> HIDE DEF q
  <2>1. \A x \in S : \A y \in q[2] : x <= y => x \in q[2]
    BY <1>1, <1>2 DEF q
  <2> QED  BY <1>2, <2>1 DEF q, PartOf
<1> QED  BY <1>2, <1>3, <1>4

LEMMA AboveAndBelow ==
  ASSUME NEW S, S \subseteq Nat, NEW v \in Nat
  PROVE  /\ PartOf(Up(S, v + 1), S) /\ \A x \in S : x \in Up(S, v + 1)[2] <=> x > v
         /\ PartOf(Down(S, v - 1), S) /\ \A x \in S : x \in Down(S, v - 1)[2] <=> x < v
<1>1. \A x \in S : (x >= v + 1 <=> x > v) /\ (x <= v - 1 <=> x < v)
  OBVIOUS
<1>2. v + 1 \in Int /\ v - 1 \in Int
  OBVIOUS
<1>3. \A x : x \in Up(S, v + 1)[2] <=> x \in S /\ x >= v + 1
  BY <1>2, UpAndDown
<1>4. \A x : x \in Down(S, v - 1)[2] <=> x \in S /\ x <= v - 1
  BY <1>2, UpAndDown
<1> QED  BY <1>1, <1>2, <1>3, <1>4, UpAndDown

LEMMA SelectedParts ==
  ASSUME NEW S, S \subseteq Nat, NEW vp, Askable(vp)
  PROVE  /\ \A p \in Selected(S, vp.op, vp.version) :
              PartOf(p, S) /\ \A x \in p[2] : Evaluate(x, vp.op, vp.version)
         /\ \A x \in S : Evaluate(x, vp.op, vp.version) =>
              \E p \in Selected(S, vp.op, vp.version) : x \in p[2]
<1> DEFINE w == vp.version
<1>1. w \in Nat /\ w \in Int /\ w + 1 \in Int /\ w - 1 \in Int /\ 0 \in Int /\ \A x \in S : x \in Nat
  BY DEF Askable
<1>2. CASE vp.op = "none"
  <2>1. Selected(S, vp.op, w) = {Up(S, 0)}
    BY <1>1, <1>2 DEF Selected, Up, Down
  <2>2. \A x : Evaluate(x, vp.op, w)
    BY <1>2 DEF Evaluate
  <2>3. PartOf(Up(S, 0), S) /\ \A x \in S : x \in Up(S, 0)[2]
    <3>1. ASSUME NEW x \in S PROVE x >= 0
      <4>1. x \in Nat
        OBVIOUS
      <4> QED  BY <4>1
    <3>2. PartOf(Up(S, 0), S) /\ \A x : x \in Up(S, 0)[2] <=> x \in S /\ x >= 0
      BY <1>1, UpAndDown
    <3> QED  BY <3>1, <3>2
  <2> QED  BY <1>1, <2>1, <2>2, <2>3 DEF PartOf
<1>3. CASE vp.op = "="
  <2>1. Selected(S, vp.op, w) = {<<"=", S \cap {w}>>}
    BY <1>1, <1>3 DEF Selected, Up, Down
  <2>2. \A x : Evaluate(x, vp.op, w) <=> x = w
    BY <1>3 DEF Evaluate
  <2> DEFINE p == <<"=", S \cap {w}>>
  <2>3. p[1] = "=" /\ \A x : x \in p[2] <=> x \in S /\ x = w
    OBVIOUS
  <2> HIDE DEF p
  <2>4. PartOf(p, S)
    BY <2>3 DEF PartOf
  <2> QED  BY <2>1, <2>2, <2>3, <2>4 DEF p
<1>4. CASE vp.op = "!="
  <2>1. Selected(S, vp.op, w) = {Up(S, w + 1), Down(S, w - 1)}
    BY <1>1, <1>4 DEF Selected, Up, Down, Askable
  <2>2. \A x : Evaluate(x, vp.op, w) <=> x # w
    BY <1>4 DEF Evaluate
  <2>3. PartOf(Up(S, w + 1), S) /\ \A x \in S : x \in Up(S, w + 1)[2] <=> x > w
    BY <1>1, AboveAndBelow
  <2>4. PartOf(Down(S, w - 1), S) /\ \A x \in S : x \in Down(S, w - 1)[2] <=> x < w
    BY <1>1, AboveAndBelow
  <2> QED  BY <1>1, <2>1, <2>2, <2>3, <2>4 DEF PartOf
<1>5. CASE vp.op = ">="
  <2>1. Selected(S, vp.op, w) = {Up(S, w)}
    BY <1>1, <1>5 DEF Selected, Up, Down
  <2>2. \A x : Evaluate(x, vp.op, w) <=> x >= w
    BY <1>5 DEF Evaluate
  <2>3. PartOf(Up(S, w), S) /\ \A x \in S : x \in Up(S, w)[2] <=> x >= w
    BY <1>1, UpAndDown
  <2> QED  BY <1>1, <2>1, <2>2, <2>3 DEF PartOf
<1>6. CASE vp.op = ">"
  <2>1. Selected(S, vp.op, w) = {Up(S, w + 1)}
    BY <1>1, <1>6 DEF Selected, Up, Down
  <2>2. \A x : Evaluate(x, vp.op, w) <=> x > w
    BY <1>6 DEF Evaluate
  <2>3. PartOf(Up(S, w + 1), S) /\ \A x \in S : x \in Up(S, w + 1)[2] <=> x > w
    BY <1>1, AboveAndBelow
  <2> QED  BY <1>1, <2>1, <2>2, <2>3 DEF PartOf
<1>7. CASE vp.op = "<="
  <2>1. Selected(S, vp.op, w) = {Down(S, w)}
    BY <1>1, <1>7 DEF Selected, Up, Down
  <2>2. \A x : Evaluate(x, vp.op, w) <=> x <= w
    BY <1>7 DEF Evaluate
  <2>3. PartOf(Down(S, w), S) /\ \A x \in S : x \in Down(S, w)[2] <=> x <= w
    BY <1>1, UpAndDown
  <2> QED  BY <1>1, <2>1, <2>2, <2>3 DEF PartOf
<1>8. CASE vp.op = "<"
  <2>1. Selected(S, vp.op, w) = {Down(S, w - 1)}
    BY <1>1, <1>8 DEF Selected, Up, Down, Askable
  <2>2. \A x : Evaluate(x, vp.op, w) <=> x < w
    BY <1>8 DEF Evaluate
  <2>3. PartOf(Down(S, w - 1), S) /\ \A x \in S : x \in Down(S, w - 1)[2] <=> x < w
    BY <1>1, AboveAndBelow
  <2> QED  BY <1>1, <2>1, <2>2, <2>3 DEF PartOf
<1> QED  BY <1>2, <1>3, <1>4, <1>5, <1>6, <1>7, <1>8 DEF Askable

LEMMA Occurs ==
  ASSUME NEW C, NEW kind, NEW n, NEW v, Pos(<<kind, n, v>>) \in UNION C
  PROVE  v \in Intervals(C, kind, n)
<1>1. Pos(<<kind, n, v>>)[1] = <<kind, n, v>>
  BY DEF Pos
<1>2. <<kind, n, v>>[1] = kind /\ <<kind, n, v>>[2] = n /\ <<kind, n, v>>[3] = v
  OBVIOUS
<1> QED  BY <1>1, <1>2 DEF Intervals

\* the assignment satisfies the clauses of the intervals that C needs
Follows(s, m, a, C) ==
  m \in Nat /\ Encodable(s, m) /\ Bounded(C, m) /\ AllSatisfied(a, ProcessIntervalVariables(s, C))

LEMMA IntervalHolds ==
  ASSUME NEW s, NEW m, NEW a, NEW C, Follows(s, m, a, C), NEW kind \in KindsOfInterval, NEW n, NEW v,
         Pos(<<kind, n, v>>) \in UNION C, Holds(a, Pos(<<kind, n, v>>))
  PROVE  Meaning(s, a, kind, n, v)
<1>1. v \in Intervals(C, kind, n) /\ <<kind, n, v>> \in a
  BY Occurs, LiteralHolds
<1> QED  BY <1>1, IntervalsSound DEF Follows

LEMMA PartEnds ==
  ASSUME NEW m \in Nat, NEW S, S \subseteq 0 .. m, Cardinality(S) > Iv
  PROVE  /\ Min(S) \in S /\ \A x \in S : Min(S) <= x
         /\ Max(S) \in S /\ \A x \in S : x <= Max(S)
<1>1. S # {}
  BY FS_EmptySet DEF Iv
<1>2. S \subseteq Nat
  OBVIOUS
<1> QED  BY <1>1, <1>2, LeastOf, GreatestOf

LEMMA RequirePartSound ==
  ASSUME NEW s, NEW m, NEW a, NEW C, Follows(s, m, a, C), NEW n, NEW p, PartOf(p, Versions(s, n)),
         RequirePart(n, p) \subseteq UNION C, NEW l \in RequirePart(n, p), Holds(a, l)
  PROVE  Infinite(s, a, n) \/ \E x \in p[2] : PV(n, x) \in a
<1>1. m \in Nat /\ Versions(s, n) \subseteq 0 .. m /\ p[2] \subseteq 0 .. m
  BY VersionsBounded DEF Follows, PartOf
<1>2. CASE p[1] # "=" /\ Cardinality(p[2]) > Iv
  <2>1. /\ Min(p[2]) \in p[2] /\ \A x \in p[2] : Min(p[2]) <= x
        /\ Max(p[2]) \in p[2] /\ \A x \in p[2] : x <= Max(p[2])
    BY <1>1, <1>2, PartEnds
  <2>2. CASE p[1] = "u"
    <3>1. l = Pos(<<"ru", n, Min(p[2])>>)
      BY <1>2, <2>2 DEF RequirePart, Interval
    <3>2. Meaning(s, a, "ru", n, Min(p[2]))
      BY <3>1, IntervalHolds DEF KindsOfInterval
    <3>3. SomeFrom(s, a, n, Min(p[2]))
      BY <3>2 DEF Meaning
    <3>4. \A x \in Versions(s, n) : x >= Min(p[2]) => x \in p[2]
      BY <2>1, <2>2 DEF PartOf
    <3> QED  BY <3>3, <3>4 DEF SomeFrom
  <2>3. CASE p[1] = "d"
    <3>1. l = Pos(<<"rd", n, Max(p[2])>>)
      BY <1>2, <2>3 DEF RequirePart, Interval
    <3>2. Meaning(s, a, "rd", n, Max(p[2]))
      BY <3>1, IntervalHolds DEF KindsOfInterval
    <3>3. SomeTo(s, a, n, Max(p[2]))
      BY <3>2 DEF Meaning
    <3>4. \A x \in Versions(s, n) : x <= Max(p[2]) => x \in p[2]
      BY <2>1, <2>3 DEF PartOf
    <3> QED  BY <3>3, <3>4 DEF SomeTo
  <2> QED  BY <1>2, <2>2, <2>3 DEF PartOf
<1>3. CASE ~ (p[1] # "=" /\ Cardinality(p[2]) > Iv)
  BY <1>3, LiteralHolds DEF RequirePart
<1> QED  BY <1>2, <1>3

LEMMA DisablePartSound ==
  ASSUME NEW s, NEW m, NEW a, NEW C, Follows(s, m, a, C), NEW n, NEW p, PartOf(p, Versions(s, n)),
         DisablePart(n, p) \subseteq UNION C, \A l \in DisablePart(n, p) : Holds(a, l)
  PROVE  /\ \A x \in p[2] : PV(n, x) \notin a
         /\ Infinite(s, a, n) => p[1] = "=" \/ ~ (Cardinality(p[2]) > Iv)
<1>1. m \in Nat /\ Versions(s, n) \subseteq 0 .. m /\ p[2] \subseteq 0 .. m
  BY VersionsBounded DEF Follows, PartOf
<1>2. CASE p[1] # "=" /\ Cardinality(p[2]) > Iv
  <2>1. /\ Min(p[2]) \in p[2] /\ \A x \in p[2] : Min(p[2]) <= x
        /\ Max(p[2]) \in p[2] /\ \A x \in p[2] : x <= Max(p[2])
    BY <1>1, <1>2, PartEnds
  <2>2. CASE p[1] = "u"
    <3>1. Pos(<<"du", n, Min(p[2])>>) \in DisablePart(n, p)
      BY <1>2, <2>2 DEF DisablePart, Interval
    <3>2. Meaning(s, a, "du", n, Min(p[2]))
      BY <3>1, IntervalHolds DEF KindsOfInterval
    <3>3. ~ SomeFrom(s, a, n, Min(p[2]))
      BY <3>2 DEF Meaning
    <3>4. \A x \in p[2] : x >= Min(p[2]) /\ x \in Versions(s, n)
      BY <1>1, <2>1 DEF PartOf
    <3> QED  BY <3>3, <3>4 DEF SomeFrom
  <2>3. CASE p[1] = "d"
    <3>1. Pos(<<"dd", n, Max(p[2])>>) \in DisablePart(n, p)
      BY <1>2, <2>3 DEF DisablePart, Interval
    <3>2. Meaning(s, a, "dd", n, Max(p[2]))
      BY <3>1, IntervalHolds DEF KindsOfInterval
    <3>3. ~ SomeTo(s, a, n, Max(p[2]))
      BY <3>2 DEF Meaning
    <3>4. \A x \in p[2] : x <= Max(p[2]) /\ x \in Versions(s, n)
      BY <1>1, <2>1 DEF PartOf
    <3>5. InfiniteProvided(s, n) => 0 \in Versions(s, n) /\ 0 <= Max(p[2])
      BY <1>1, <2>1, VersionsBounded DEF Follows
    <3> QED  BY <3>3, <3>4, <3>5 DEF SomeTo, Infinite
  <2> QED  BY <1>2, <2>2, <2>3 DEF PartOf
<1>3. CASE ~ (p[1] # "=" /\ Cardinality(p[2]) > Iv)
  BY <1>3, LiteralHolds DEF DisablePart
<1> QED  BY <1>2, <1>3

\* the units that an assignment chooses, as in Point
Chosen(s, a) == {i \in s.needed : UnitVar(s, i) \in a}

\* a unit answers a request with its own version or with a feature
Answers(s, i, vp) ==
  \/ Unit(s, i).name = vp.name /\ Evaluate(Unit(s, i).version, vp.op, vp.version)
  \/ \E f \in Provided(s.pr, i) :
       f[1] = vp.name /\ (f[2] = 0 \/ Evaluate(f[2], vp.op, vp.version))

LEMMA FeatureIsPair ==
  ASSUME NEW s, NEW m, Encodable(s, m), NEW f \in s.features
  PROVE  f = <<f[1], f[2]>> /\ \E i \in s.needed : i \in Units(s.pr) /\ f \in Provided(s.pr, i)
<1>1. PICK i \in s.needed : f \in Provided(s.pr, i)
  BY DEF Encodable
<1>2. f = <<f[1], f[2]>>
  BY <1>1 DEF Provided, FeatureOf
<1>3. i \in Units(s.pr)
  BY DEF Encodable
<1> QED  BY <1>1, <1>2, <1>3

\* what the clauses of EncodeProvides say
Providers(s, f) ==
  (IF f[2] # 0 /\ InfiniteProvided(s, f[1]) THEN {PV(f[1], 0)} ELSE {})
    \cup {UnitVar(s, i) : i \in FeatureUnits(s.pr, f) \cap s.needed}

LEMMA ProvidesHold ==
  ASSUME NEW s, NEW a
  PROVE  AllSatisfied(a, EncodeProvides(s)) <=>
           \A f \in s.features : PV(f[1], f[2]) \in a <=> \E y \in Providers(s, f) : y \in a
<1> DEFINE Defined(f) == {{Neg(y), Pos(PV(f[1], f[2]))} : y \in Providers(s, f)}
                           \cup {{Neg(PV(f[1], f[2]))} \cup {Pos(y) : y \in Providers(s, f)}}
<1>1. EncodeProvides(s) = UNION {Defined(f) : f \in s.features}
  BY DEF EncodeProvides, Providers
<1>2. ASSUME NEW f \in s.features
      PROVE  AllSatisfied(a, Defined(f)) <=>
               (PV(f[1], f[2]) \in a <=> \E y \in Providers(s, f) : y \in a)
  <2> DEFINE x == PV(f[1], f[2])
             Y == Providers(s, f)
  <2>1. AllSatisfied(a, Defined(f)) <=>
          /\ \A y \in Y : Satisfied(a, {Neg(y), Pos(x)})
          /\ Satisfied(a, {Neg(x)} \cup {Pos(y) : y \in Y})
    BY DEF AllSatisfied
  <2> HIDE DEF x, Y, Defined
  <2>2. \A y \in Y : Satisfied(a, {Neg(y), Pos(x)}) <=> (y \in a => x \in a)
    BY PairHolds
  <2>3. Satisfied(a, {Neg(x)} \cup {Pos(y) : y \in Y}) <=> (x \in a => \E y \in Y : y \in a)
    BY ImplicationHolds
  <2>4. AllSatisfied(a, Defined(f)) <=> (x \in a <=> \E y \in Y : y \in a)
    BY <2>1, <2>2, <2>3
  <2> QED  BY <2>4 DEF x, Y
<1> HIDE DEF Defined
<1>3. AllSatisfied(a, EncodeProvides(s)) <=> \A f \in s.features : AllSatisfied(a, Defined(f))
  BY <1>1 DEF AllSatisfied
<1> QED  BY <1>2, <1>3

LEMMA ProvidesSound ==
  ASSUME NEW s, NEW m, Encodable(s, m), NEW a, AllSatisfied(a, EncodeProvides(s)), NEW n, NEW v,
         <<n, v>> \in s.features
  PROVE  /\ PV(n, v) \in a =>
              \E i \in Chosen(s, a) : <<n, v>> \in Provided(s.pr, i) \/ <<n, 0>> \in Provided(s.pr, i)
         /\ Infinite(s, a, n) => PV(n, v) \in a
         /\ \A i \in Chosen(s, a) : <<n, v>> \in Provided(s.pr, i) => PV(n, v) \in a
<1> DEFINE f == <<n, v>>
           g == <<n, 0>>
<1>1. f[1] = n /\ f[2] = v /\ g[1] = n /\ g[2] = 0
  OBVIOUS
<1>2. PV(n, v) \in a <=> \E y \in Providers(s, f) : y \in a
  BY <1>1, ProvidesHold
<1>3. \A h, y : y \in Providers(s, h) <=>
        \/ h[2] # 0 /\ InfiniteProvided(s, h[1]) /\ y = PV(h[1], 0)
        \/ \E i \in s.needed : i \in FeatureUnits(s.pr, h) /\ y = UnitVar(s, i)
  BY DEF Providers
<1>4. \A i \in s.needed : \A h : i \in FeatureUnits(s.pr, h) <=> h \in Provided(s.pr, i)
  BY DEF FeatureUnits, Encodable
<1>5. ASSUME InfiniteProvided(s, n)
      PROVE  PV(n, 0) \in a => \E i \in Chosen(s, a) : <<n, 0>> \in Provided(s.pr, i)
  <2>1. g \in s.features
    BY <1>5 DEF InfiniteProvided
  <2>2. PV(n, 0) \in a <=> \E y \in Providers(s, g) : y \in a
    BY <1>1, <2>1, ProvidesHold
  <2> HIDE DEF f, g
  <2>3. PV(n, 0) \in a => \E i \in s.needed : i \in FeatureUnits(s.pr, g) /\ UnitVar(s, i) \in a
    BY <1>1, <1>3, <2>2
  <2> QED  BY <1>4, <2>3 DEF Chosen, g
<1> HIDE DEF f, g
<1>6. PV(n, v) \in a =>
        (InfiniteProvided(s, n) /\ PV(n, 0) \in a) \/ \E i \in Chosen(s, a) : f \in Provided(s.pr, i)
  BY <1>1, <1>2, <1>3, <1>4 DEF Chosen
<1>7. Infinite(s, a, n) => PV(n, v) \in a
  BY <1>1, <1>2, <1>3 DEF Infinite
<1>8. \A i \in Chosen(s, a) : f \in Provided(s.pr, i) => PV(n, v) \in a
  BY <1>2, <1>3, <1>4 DEF Chosen
<1> QED  BY <1>5, <1>6, <1>7, <1>8 DEF f

(* A true variable that answers a request belongs to a chosen unit.        *)
LEMMA AnsweredByUnit ==
  ASSUME NEW s, NEW m, Encodable(s, m), NEW a, AllSatisfied(a, EncodeProvides(s)), NEW vp, Answered(s, a, vp)
  PROVE  \E i \in Chosen(s, a) : Answers(s, i, vp)
<1> DEFINE n == vp.name
<1>1. PICK v \in Versions(s, n) :
        /\ PV(n, v) \in a
        /\ Evaluate(v, vp.op, vp.version) \/ (v = 0 /\ InfiniteProvided(s, n))
  BY DEF Answered
<1>2. CASE NeededFeature(s, n)
  <2>1. PICK f \in s.features : f[1] = n /\ f[2] = v
    BY <1>1, <1>2 DEF Versions
  <2>2. <<n, v>> \in s.features
    BY <2>1, FeatureIsPair
  <2>3. PICK i \in Chosen(s, a) : <<n, v>> \in Provided(s.pr, i) \/ <<n, 0>> \in Provided(s.pr, i)
    BY <1>1, <2>2, ProvidesSound
  <2>4. <<n, v>>[1] = n /\ <<n, v>>[2] = v /\ <<n, 0>>[1] = n /\ <<n, 0>>[2] = 0
    OBVIOUS
  <2> QED  BY <1>1, <2>3, <2>4 DEF Answers
<1>3. CASE ~ NeededFeature(s, n)
  <2>1. PICK i \in s.needed : Unit(s, i).name = n /\ Unit(s, i).version = v
    BY <1>1, <1>3 DEF Versions, UnitVersions, NeededUnits
  <2>2. i \in Chosen(s, a)
    BY <1>1, <2>1 DEF Chosen, UnitVar
  <2>3. ~ InfiniteProvided(s, n)
    <3>1. <<n, 0>>[1] = n
      OBVIOUS
    <3> QED  BY <1>3, <3>1 DEF InfiniteProvided, NeededFeature
  <2> QED  BY <1>1, <2>1, <2>2, <2>3 DEF Answers
<1> QED  BY <1>2, <1>3

(* The variables of the chosen units that slicing would need answer it.    *)
LEMMA AnsweredIfNeeded ==
  ASSUME NEW s, NEW m, Encodable(s, m), NEW a, AllSatisfied(a, EncodeProvides(s)), NEW vp,
         NEW i \in Chosen(s, a), i \in NeedVersions(s.pr, vp)
  PROVE  Answered(s, a, vp)
<1> DEFINE n == vp.name
<1>1. i \in s.needed /\ i \in Units(s.pr) /\ UnitVar(s, i) \in a
  BY DEF Chosen, Encodable
<1>2. CASE IsFeature(s.pr, n)
  <2>1. PICK v : /\ <<n, v>> \in Provided(s.pr, i)
                 /\ v = 0 \/ Evaluate(v, vp.op, vp.version)
    BY <1>2 DEF NeedVersions, NeedFeatures, FeatureUnits
  <2>2. <<n, v>> \in s.features /\ <<n, v>>[1] = n /\ <<n, v>>[2] = v
    BY <1>1, <2>1 DEF Encodable
  <2>3. v \in Versions(s, n)
    BY <2>2 DEF Versions, NeededFeature
  <2>4. PV(n, v) \in a
    BY <2>1, <2>2, ProvidesSound
  <2>5. v = 0 => InfiniteProvided(s, n)
    BY <2>2 DEF InfiniteProvided
  <2> QED  BY <2>1, <2>3, <2>4, <2>5 DEF Answered
<1>3. CASE ~ IsFeature(s.pr, n)
  <2>1. /\ Unit(s, i).name = n
        /\ Evaluate(Unit(s, i).version, vp.op, vp.version)
    BY <1>3 DEF NeedVersions, NeedPackages, ReadUnits, Unit
  <2>2. ~ NeededFeature(s, n)
    <3> SUFFICES ASSUME NEW f \in s.features, f[1] = n PROVE FALSE
      BY DEF NeededFeature
    <3>1. f \in AllProvided(s.pr)
      BY FeatureIsPair DEF AllProvided
    <3> QED  BY <1>3, <3>1 DEF IsFeature
  <2>3. Unit(s, i).version \in Versions(s, n) /\ PV(n, Unit(s, i).version) \in a
    BY <1>1, <2>1, <2>2 DEF Versions, UnitVersions, NeededUnits, UnitVar
  <2> QED  BY <2>1, <2>3 DEF Answered
<1> QED  BY <1>2, <1>3

(***************************************************************************)
(* The clause of a request lets nothing pass: if it is true, a chosen unit *)
(* answers the request, whichever versions were listed and whichever were  *)
(* left to an interval.                                                    *)
(***************************************************************************)
THEOREM RequestSound ==
  ASSUME NEW s, NEW m, NEW a, NEW C, Follows(s, m, a, C), AllSatisfied(a, EncodeProvides(s)),
         NEW vp, Askable(vp), RequestToClause(s, vp) \subseteq UNION C, Satisfied(a, RequestToClause(s, vp))
  PROVE  \E i \in Chosen(s, a) : Answers(s, i, vp)
<1> DEFINE n == vp.name
           S == Versions(s, n)
           P == Selected(S, vp.op, vp.version)
           lits == UNION {RequirePart(n, p) : p \in P}
<1>1. Encodable(s, m) /\ m \in Nat /\ S \subseteq Nat
  BY VersionsBounded DEF Follows
<1>2. \A p \in P : PartOf(p, S) /\ \A x \in p[2] : Evaluate(x, vp.op, vp.version)
  BY <1>1, SelectedParts
<1>3. RequestToClause(s, vp) = IF lits = {} /\ InfiniteProvided(s, n) THEN {Pos(PV(n, 0))} ELSE lits
  BY DEF RequestToClause
<1>4. PICK l \in RequestToClause(s, vp) : Holds(a, l)
  BY ClauseHolds
<1>5. Infinite(s, a, n) => Answered(s, a, vp)
  BY <1>1, VersionsBounded DEF Infinite, Answered
<1>6. CASE lits = {} /\ InfiniteProvided(s, n)
  <2>1. PV(n, 0) \in a
    BY <1>3, <1>4, <1>6, LiteralHolds
  <2> QED  BY <1>1, <1>5, <1>6, <2>1, AnsweredByUnit DEF Infinite
<1>7. CASE ~ (lits = {} /\ InfiniteProvided(s, n))
  <2>1. PICK p \in P : l \in RequirePart(n, p)
    BY <1>3, <1>4, <1>7
  <2>2. RequirePart(n, p) \subseteq UNION C
    BY <1>3, <1>7, <2>1
  <2>3. Infinite(s, a, n) \/ \E x \in p[2] : PV(n, x) \in a
    BY <1>2, <1>4, <2>1, <2>2, RequirePartSound
  <2>4. Answered(s, a, vp)
    BY <1>2, <1>5, <2>3 DEF Answered, PartOf
  <2> QED  BY <1>1, <2>4, AnsweredByUnit
<1> QED  BY <1>6, <1>7

(***************************************************************************)
(* The term of what is to be absent lets nothing pass: if all its literals *)
(* are true, no chosen unit is among those that the request means, with a  *)
(* version of its own, a feature of some version, or one without.          *)
(***************************************************************************)
THEOREM DisableSound ==
  ASSUME NEW s, NEW m, NEW a, NEW C, Follows(s, m, a, C), AllSatisfied(a, EncodeProvides(s)),
         NEW vp, Askable(vp), DisableToTerm(s, vp) \subseteq UNION C,
         \A l \in DisableToTerm(s, vp) : Holds(a, l)
  PROVE  Chosen(s, a) \cap NeedVersions(s.pr, vp) = {}
<1> DEFINE n == vp.name
           S == Versions(s, n)
           P == Selected(S, vp.op, vp.version)
           lits == UNION {DisablePart(n, p) : p \in P}
<1>1. Encodable(s, m) /\ m \in Nat /\ S \subseteq Nat
  BY VersionsBounded DEF Follows
<1>2. /\ \A p \in P : PartOf(p, S)
      /\ \A x \in S : Evaluate(x, vp.op, vp.version) => \E p \in P : x \in p[2]
  BY <1>1, SelectedParts
<1>3. DisableToTerm(s, vp) = IF lits = {} /\ InfiniteProvided(s, n) THEN {Neg(PV(n, 0))} ELSE lits
  BY DEF DisableToTerm
<1>4. \A p \in P : DisablePart(n, p) \subseteq lits
  OBVIOUS
<1> SUFFICES ASSUME NEW v \in S, PV(n, v) \in a,
                    Evaluate(v, vp.op, vp.version) \/ (v = 0 /\ InfiniteProvided(s, n))
             PROVE  FALSE
  BY <1>1, AnsweredIfNeeded DEF Answered
<1>5. CASE lits = {} /\ InfiniteProvided(s, n)
  <2>1. PV(n, 0) \notin a
    BY <1>3, <1>5, LiteralHolds
  <2>2. PICK p \in P : v \in p[2]
    BY <1>2, <2>1
  <2>3. DisablePart(n, p) # {}
    BY <2>2 DEF DisablePart
  <2> QED  BY <1>4, <1>5, <2>3
<1>6. CASE ~ (lits = {} /\ InfiniteProvided(s, n))
  <2>1. \A p \in P : /\ \A x \in p[2] : PV(n, x) \notin a
                     /\ Infinite(s, a, n) => p[1] = "=" \/ ~ (Cardinality(p[2]) > Iv)
    BY <1>2, <1>3, <1>4, <1>6, DisablePartSound
  <2>2. CASE Evaluate(v, vp.op, vp.version)
    BY <1>2, <2>1, <2>2
  <2>3. CASE v = 0 /\ InfiniteProvided(s, n)
    <3>1. lits # {} /\ Infinite(s, a, n)
      BY <1>6, <2>3 DEF Infinite
    <3>2. PICK p \in P : DisablePart(n, p) # {}
      BY <3>1
    <3>3. PICK x \in p[2] : TRUE
      BY <2>1, <3>1, <3>2 DEF DisablePart
    <3>4. x \in S /\ PV(n, x) \notin a
      BY <1>2, <2>1 DEF PartOf
    <3>5. NeededFeature(s, n)
      <4>1. <<n, 0>>[1] = n
        OBVIOUS
      <4> QED  BY <2>3, <4>1 DEF InfiniteProvided, NeededFeature
    <3>6. <<n, x>> \in s.features
      BY <1>1, <3>4, <3>5, FeatureIsPair DEF Versions
    <3> QED  BY <1>1, <3>1, <3>4, <3>6, ProvidesSound
  <2> QED  BY <2>2, <2>3
<1> QED  BY <1>5, <1>6

-----------------------------------------------------------------------------
(* The whole encoding *)

AllRequests(s) ==
  s.pr.install \cup Range(s.pr.upgrade) \cup Range(s.pr.remove)
    \cup (UNION {UNION {Range(Unit(s, i).depends[k]) : k \in DOMAIN Unit(s, i).depends} : i \in s.needed})
    \cup (UNION {Range(Unit(s, i).conflicts) : i \in s.needed})

\* No name is of a package and of a feature, and no version is declared twice.
WellPosed(s, m) ==
  /\ Encodable(s, m)
  /\ \A vp \in AllRequests(s) : Askable(vp)
  /\ \A i \in s.needed : ~ IsFeature(s.pr, Unit(s, i).name)
  /\ \A i, j \in s.needed : UnitVar(s, i) = UnitVar(s, j) => i = j

\* the versions of a name in an installation
InstalledVersions(s, I, n) ==
  IF NeededFeature(s, n) THEN {f[2] : f \in {g \in UNION {Provided(s.pr, i) : i \in I} : g[1] = n}}
  ELSE {Unit(s, i).version : i \in {j \in I : Unit(s, j).name = n}}

DependsMet(s, I) ==
  \A i \in I : \A k \in DOMAIN Unit(s, i).depends :
    \E vp \in Range(Unit(s, i).depends[k]) : \E j \in I : Answers(s, j, vp)

ConflictsKept(s, I) ==
  \A i \in I : \A vp \in Range(Unit(s, i).conflicts) : I \cap NeedVersions(s.pr, vp) \subseteq {i}

RequestMet(s, I) ==
  /\ \A vp \in s.pr.install \cup Range(s.pr.upgrade) : \E j \in I : Answers(s, j, vp)
  /\ \A vp \in Range(s.pr.remove) : I \cap NeedVersions(s.pr, vp) = {}

UpgradesMet(s, I) ==
  \A vp \in Range(s.pr.upgrade) :
    /\ LatestNeeded(s, vp.name) >= 0 =>
         \E v \in Versions(s, vp.name) :
           v >= LatestNeeded(s, vp.name) /\ InstalledVersions(s, I, vp.name) = {v}
    /\ NeededFeature(s, vp.name) => 0 \notin InstalledVersions(s, I, vp.name)

\* what is asked for of the units I
Met(s, I) == DependsMet(s, I) /\ ConflictsKept(s, I) /\ RequestMet(s, I) /\ UpgradesMet(s, I)

\* the clauses of the request and of the needed units
Demanded(s) ==
  EncodeProvides(s) \cup (UNION {EncodeUnit(s, i) : i \in s.needed})
    \cup EncodeInstall(s) \cup EncodeUpgrade(s) \cup EncodeRequestRemove(s)

\* a satisfies these and, whatever else is written, the clauses of all intervals
ModelOf(s, m, C, a) ==
  /\ WellPosed(s, m) /\ Demanded(s) \subseteq C
  /\ AllSatisfied(a, Demanded(s)) /\ Follows(s, m, a, C)

LEMMA DemandedParts ==
  ASSUME NEW s
  PROVE  /\ EncodeProvides(s) \subseteq Demanded(s)
         /\ \A i \in s.needed : /\ EncodeDepends(s, i) \subseteq Demanded(s)
                                /\ EncodeConflicts(s, i) \subseteq Demanded(s)
         /\ EncodeInstall(s) \subseteq Demanded(s) /\ EncodeUpgrade(s) \subseteq Demanded(s)
         /\ EncodeRequestRemove(s) \subseteq Demanded(s)
<1>1. \A i \in s.needed : EncodeUnit(s, i) \subseteq Demanded(s)
  BY DEF Demanded
<1> QED  BY <1>1 DEF Demanded, EncodeUnit

LEMMA WrittenParts ==
  ASSUME NEW s, NEW m, NEW C, NEW a, ModelOf(s, m, C, a)
  PROVE  /\ AllSatisfied(a, EncodeProvides(s))
         /\ \A i \in s.needed : AllSatisfied(a, EncodeDepends(s, i)) /\ AllSatisfied(a, EncodeConflicts(s, i))
         /\ AllSatisfied(a, EncodeInstall(s)) /\ AllSatisfied(a, EncodeUpgrade(s))
         /\ AllSatisfied(a, EncodeRequestRemove(s))
         /\ \A c \in Demanded(s) : c \subseteq UNION C
         /\ \A i \in s.needed : EncodeDepends(s, i) \cup EncodeConflicts(s, i) \subseteq Demanded(s)
         /\ EncodeInstall(s) \cup EncodeUpgrade(s) \cup EncodeRequestRemove(s) \subseteq Demanded(s)
<1>1. \A c \in Demanded(s) : c \subseteq UNION C
  BY DEF ModelOf
<1> QED  BY <1>1, DemandedParts DEF AllSatisfied, ModelOf

LEMMA DependsSound ==
  ASSUME NEW s, NEW m, NEW C, NEW a, ModelOf(s, m, C, a)
  PROVE  DependsMet(s, Chosen(s, a))
<1> SUFFICES ASSUME NEW i \in Chosen(s, a), NEW k \in DOMAIN Unit(s, i).depends
             PROVE  \E vp \in Range(Unit(s, i).depends[k]) : \E j \in Chosen(s, a) : Answers(s, j, vp)
  BY DEF DependsMet
<1> DEFINE D == Unit(s, i).depends
           c == {Neg(UnitVar(s, i))} \cup RequestsToClause(s, D[k])
<1>1. i \in s.needed /\ UnitVar(s, i) \in a
  BY DEF Chosen
<1>2. c \in EncodeDepends(s, i)
  BY DEF EncodeDepends, Implications, Range
<1>3. Satisfied(a, c) /\ c \subseteq UNION C
  BY <1>1, <1>2, WrittenParts DEF AllSatisfied
<1>4. PICK l \in RequestsToClause(s, D[k]) : Holds(a, l)
  <2>1. PICK l \in c : Holds(a, l)
    <3> HIDE DEF c
    <3> QED  BY <1>3, ClauseHolds
  <2>2. l # Neg(UnitVar(s, i))
    BY <1>1, <2>1, LiteralHolds
  <2> QED  BY <2>1, <2>2
<1>5. PICK vp \in Range(D[k]) : l \in RequestToClause(s, vp)
  BY <1>4 DEF RequestsToClause
<1>6. RequestToClause(s, vp) \subseteq UNION C
  BY <1>3, <1>5 DEF RequestsToClause
<1>7. Satisfied(a, RequestToClause(s, vp))
  BY <1>4, <1>5, ClauseHolds
<1>8. Askable(vp)
  <2>1. vp \in AllRequests(s)
    BY <1>1, <1>5 DEF AllRequests
  <2> QED  BY <2>1 DEF ModelOf, WellPosed
<1>9. Follows(s, m, a, C) /\ AllSatisfied(a, EncodeProvides(s))
  BY WrittenParts DEF ModelOf
<1>10. \E j \in Chosen(s, a) : Answers(s, j, vp)
  BY <1>6, <1>7, <1>8, <1>9, RequestSound
<1> QED  BY <1>5, <1>10

LEMMA RequestMetSound ==
  ASSUME NEW s, NEW m, NEW C, NEW a, ModelOf(s, m, C, a)
  PROVE  RequestMet(s, Chosen(s, a))
<1>1. Follows(s, m, a, C) /\ AllSatisfied(a, EncodeProvides(s))
  BY WrittenParts DEF ModelOf
<1>2. \A c \in EncodeInstall(s) \cup EncodeUpgrade(s) \cup EncodeRequestRemove(s) :
        Satisfied(a, c) /\ c \subseteq UNION C
  BY WrittenParts DEF AllSatisfied
<1>3. \A vp \in s.pr.install \cup Range(s.pr.upgrade) \cup Range(s.pr.remove) : Askable(vp)
  BY DEF ModelOf, WellPosed, AllRequests
<1>4. ASSUME NEW vp \in s.pr.install \cup Range(s.pr.upgrade)
      PROVE  \E j \in Chosen(s, a) : Answers(s, j, vp)
  <2>1. RequestToClause(s, vp) \in EncodeInstall(s) \cup EncodeUpgrade(s)
    BY DEF EncodeInstall, EncodeUpgrade
  <2> QED  BY <1>1, <1>2, <1>3, <2>1, RequestSound
<1>5. ASSUME NEW vp \in Range(s.pr.remove)
      PROVE  Chosen(s, a) \cap NeedVersions(s.pr, vp) = {}
  <2>1. \A l \in DisableToTerm(s, vp) : {l} \in EncodeRequestRemove(s)
    BY DEF EncodeRequestRemove
  <2>2. \A l \in DisableToTerm(s, vp) : Holds(a, l) /\ l \in UNION C
    <3> SUFFICES ASSUME NEW l \in DisableToTerm(s, vp) PROVE Holds(a, l) /\ l \in UNION C
      OBVIOUS
    <3>1. Satisfied(a, {l}) /\ {l} \subseteq UNION C
      BY <1>2, <2>1
    <3> QED  BY <3>1, ClauseHolds
  <2>3. DisableToTerm(s, vp) \subseteq UNION C
    BY <2>2
  <2> QED  BY <1>1, <1>3, <2>2, <2>3, DisableSound
<1> QED  BY <1>4, <1>5 DEF RequestMet

(* A binary clause with a chosen unit makes its other literal true.        *)
LEMMA SecondLiteral ==
  ASSUME NEW a, NEW x, x \in a, NEW l, Satisfied(a, {Neg(x), l})
  PROVE  Holds(a, l)
BY ClauseHolds, LiteralHolds

LEMMA FeatureConflict ==
  ASSUME NEW s, NEW m, WellPosed(s, m), NEW a, NEW i \in Chosen(s, a), NEW vp, NEW f \in Provided(s.pr, i),
         f[1] = vp.name, AllSatisfied(a, FeatureSelfConflict(s, i, vp))
  PROVE  Chosen(s, a) \cap NeedVersions(s.pr, vp) \subseteq {i}
<1> DEFINE n == vp.name
<1>1. Encodable(s, m) /\ i \in Units(s.pr)
  BY DEF WellPosed, Encodable, Chosen
<1>2. IsFeature(s.pr, n)
  BY <1>1 DEF IsFeature, AllProvided
<1> SUFFICES ASSUME NEW j \in Chosen(s, a), j \in NeedVersions(s.pr, vp), j # i PROVE FALSE
  OBVIOUS
<1>3. PICK v : /\ <<n, v>> \in Provided(s.pr, j)
               /\ v = 0 \/ Evaluate(v, vp.op, vp.version)
  BY <1>2 DEF NeedVersions, NeedFeatures, FeatureUnits
<1>4. j \in s.needed /\ j \in Units(s.pr)
  BY <1>1 DEF Chosen, Encodable
<1>5. <<n, v>> \in s.features /\ <<n, v>>[1] = n /\ <<n, v>>[2] = v
  BY <1>1, <1>3, <1>4 DEF Encodable
<1>6. v \in Versions(s, n)
  BY <1>5 DEF Versions, NeededFeature
<1>7. j \in FeatureUnits(s.pr, <<n, v>>)
  BY <1>3, <1>4 DEF FeatureUnits
<1>8. j \in ConflictProviders(s, vp)
  BY <1>3, <1>4, <1>6, <1>7 DEF ConflictProviders
<1>9. Satisfied(a, {Neg(UnitVar(s, i)), Neg(UnitVar(s, j))})
  BY <1>8 DEF FeatureSelfConflict, AllSatisfied
<1> QED  BY <1>9, PairHolds DEF Chosen

LEMMA PackageConflict ==
  ASSUME NEW s, NEW m, WellPosed(s, m), NEW a, NEW C, Follows(s, m, a, C), NEW i \in Chosen(s, a), NEW vp,
         vp.name = Unit(s, i).name, AllSatisfied(a, PackageSelfConflict(s, i, vp)),
         \A c \in PackageSelfConflict(s, i, vp) : c \subseteq UNION C
  PROVE  Chosen(s, a) \cap NeedVersions(s.pr, vp) \subseteq {i}
<1> DEFINE n == vp.name
           S == UnitVersions(s, n)
           v == Unit(s, i).version
           x == UnitVar(s, i)
<1>1. Encodable(s, m) /\ i \in s.needed /\ x \in a /\ m \in Nat
  BY DEF WellPosed, Chosen, Follows
<1>2. ~ IsFeature(s.pr, n)
  BY <1>1 DEF WellPosed
<1>3. ~ NeededFeature(s, n)
  <2> SUFFICES ASSUME NEW f \in s.features, f[1] = n PROVE FALSE
    BY DEF NeededFeature
  <2>1. f \in AllProvided(s.pr)
    BY <1>1, FeatureIsPair DEF AllProvided
  <2> QED  BY <1>2, <2>1 DEF IsFeature
<1>4. S = Versions(s, n) /\ S \subseteq Nat /\ v \in Nat
  <2>1. S = Versions(s, n)
    BY <1>3 DEF Versions
  <2>2. Versions(s, n) \subseteq 0 .. m
    BY <1>1, VersionsBounded
  <2>3. v \in 0 .. m
    BY <1>1 DEF Encodable
  <2> QED  BY <2>1, <2>2, <2>3
<1> SUFFICES ASSUME NEW j \in Chosen(s, a), j \in NeedVersions(s.pr, vp), j # i PROVE FALSE
  OBVIOUS
<1> DEFINE w == Unit(s, j).version
<1>5. Unit(s, j).name = n /\ Evaluate(w, vp.op, vp.version) /\ j \in s.needed
  BY <1>2 DEF NeedVersions, NeedPackages, ReadUnits, Unit, Chosen
<1>6. w \in S /\ PV(n, w) \in a
  BY <1>5 DEF UnitVersions, NeededUnits, Chosen, UnitVar
<1>7. w # v
  BY <1>1, <1>5 DEF WellPosed, UnitVar
<1>8. CASE vp.op # "none"
  <2>1. {Neg(x), Neg(PV(n, w))} \in PackageSelfConflict(s, i, vp)
    BY <1>5, <1>6, <1>7, <1>8 DEF PackageSelfConflict
  <2>2. Satisfied(a, {Neg(x), Neg(PV(n, w))})
    BY <2>1 DEF AllSatisfied
  <2> HIDE DEF x, n, w
  <2> QED  BY <1>1, <1>6, <2>2, PairHolds
<1>9. CASE vp.op = "none"
  <2> DEFINE above == DisablePart(n, Up(S, v + 1))
             below == DisablePart(n, Down(S, v - 1))
  <2>1. PackageSelfConflict(s, i, vp) = {{Neg(x), l} : l \in above \cup below}
    BY <1>9 DEF PackageSelfConflict, Up, Down
  <2>2. \A l \in above \cup below : Holds(a, l) /\ l \in UNION C
    <3> SUFFICES ASSUME NEW l \in above \cup below PROVE Holds(a, l) /\ l \in UNION C
      OBVIOUS
    <3>1. {Neg(x), l} \in PackageSelfConflict(s, i, vp)
      BY <2>1
    <3>2. Satisfied(a, {Neg(x), l}) /\ {Neg(x), l} \subseteq UNION C
      BY <3>1 DEF AllSatisfied
    <3> QED  BY <1>1, <3>2, SecondLiteral
  <2> HIDE DEF above, below, S, v, w
  <2>3. /\ PartOf(Up(S, v + 1), Versions(s, n)) /\ PartOf(Down(S, v - 1), Versions(s, n))
        /\ \A y \in S : (y \in Up(S, v + 1)[2] <=> y > v) /\ (y \in Down(S, v - 1)[2] <=> y < v)
    BY <1>4, AboveAndBelow
  <2>4. \A y \in Up(S, v + 1)[2] : PV(n, y) \notin a
    BY <2>2, <2>3, DisablePartSound DEF above
  <2>5. \A y \in Down(S, v - 1)[2] : PV(n, y) \notin a
    BY <2>2, <2>3, DisablePartSound DEF below
  <2>6. w > v \/ w < v
    BY <1>4, <1>6, <1>7
  <2> QED  BY <1>6, <2>3, <2>4, <2>5, <2>6
<1> QED  BY <1>8, <1>9

LEMMA ConflictsSound ==
  ASSUME NEW s, NEW m, NEW C, NEW a, ModelOf(s, m, C, a)
  PROVE  ConflictsKept(s, Chosen(s, a))
<1>1. WellPosed(s, m) /\ Follows(s, m, a, C) /\ AllSatisfied(a, EncodeProvides(s))
  BY WrittenParts DEF ModelOf
<1> SUFFICES ASSUME NEW i \in Chosen(s, a), NEW vp \in Range(Unit(s, i).conflicts)
             PROVE  Chosen(s, a) \cap NeedVersions(s.pr, vp) \subseteq {i}
  BY DEF ConflictsKept
<1>2. i \in s.needed /\ UnitVar(s, i) \in a
  BY DEF Chosen
<1>3. \A c \in EncodeConflict(s, i, vp) : Satisfied(a, c) /\ c \subseteq UNION C
  <2>1. EncodeConflict(s, i, vp) \subseteq EncodeConflicts(s, i)
    BY DEF EncodeConflicts
  <2>2. \A c \in EncodeConflicts(s, i) : Satisfied(a, c) /\ c \in Demanded(s)
    BY <1>2, WrittenParts DEF AllSatisfied
  <2> QED  BY <2>1, <2>2, WrittenParts
<1>4. CASE \E f \in Provided(s.pr, i) : f[1] = vp.name
  <2>1. AllSatisfied(a, FeatureSelfConflict(s, i, vp))
    BY <1>3, <1>4 DEF EncodeConflict, AllSatisfied
  <2> QED  BY <1>1, <1>4, <2>1, FeatureConflict
<1>5. CASE (~ \E f \in Provided(s.pr, i) : f[1] = vp.name) /\ vp.name = Unit(s, i).name
  <2>1. EncodeConflict(s, i, vp) = PackageSelfConflict(s, i, vp)
    BY <1>5 DEF EncodeConflict
  <2>2. AllSatisfied(a, PackageSelfConflict(s, i, vp))
    BY <1>3, <2>1 DEF AllSatisfied
  <2> QED  BY <1>1, <1>3, <1>5, <2>1, <2>2, PackageConflict
<1>6. CASE (~ \E f \in Provided(s.pr, i) : f[1] = vp.name) /\ vp.name # Unit(s, i).name
  <2>1. EncodeConflict(s, i, vp) = NotSelfConflict(s, i, vp)
    BY <1>6 DEF EncodeConflict
  <2>2. \A l \in DisableToTerm(s, vp) : Holds(a, l) /\ l \in UNION C
    <3> SUFFICES ASSUME NEW l \in DisableToTerm(s, vp) PROVE Holds(a, l) /\ l \in UNION C
      OBVIOUS
    <3>1. {Neg(UnitVar(s, i)), l} \in EncodeConflict(s, i, vp)
      BY <2>1 DEF NotSelfConflict
    <3>2. Satisfied(a, {Neg(UnitVar(s, i)), l}) /\ {Neg(UnitVar(s, i)), l} \subseteq UNION C
      BY <1>3, <3>1
    <3> QED  BY <1>2, <3>2, SecondLiteral
  <2>3. DisableToTerm(s, vp) \subseteq UNION C
    BY <2>2
  <2>4. Askable(vp)
    <3>1. vp \in AllRequests(s)
      BY <1>2 DEF AllRequests
    <3> QED  BY <1>1, <3>1 DEF WellPosed
  <2>5. Chosen(s, a) \cap NeedVersions(s.pr, vp) = {}
    BY <1>1, <2>2, <2>3, <2>4, DisableSound
  <2> QED  BY <2>5
<1> QED  BY <1>4, <1>5, <1>6

(* The versions of a name in an installation are those that are true, if   *)
(* none of its features is without a version.                              *)
LEMMA InstalledTrue ==
  ASSUME NEW s, NEW m \in Nat, Encodable(s, m), NEW a, AllSatisfied(a, EncodeProvides(s)), NEW n
  PROVE  LET V == InstalledVersions(s, Chosen(s, a), n) IN
         /\ \A y \in V : y \in Versions(s, n) /\ PV(n, y) \in a
         /\ ~ Infinite(s, a, n) => \A y \in Versions(s, n) : PV(n, y) \in a => y \in V
         /\ Infinite(s, a, n) <=> NeededFeature(s, n) /\ 0 \in V
<1> DEFINE I == Chosen(s, a)
           V == InstalledVersions(s, I, n)
<1>1. CASE NeededFeature(s, n)
  <2>1. \A y : y \in V <=> \E i \in I : <<n, y>> \in Provided(s.pr, i)
    <3>1. V = {f[2] : f \in {g \in UNION {Provided(s.pr, i) : i \in I} : g[1] = n}}
      BY <1>1 DEF InstalledVersions
    <3>2. \A i \in I : \A g \in Provided(s.pr, i) : g = <<g[1], g[2]>>
      BY DEF Provided, FeatureOf
    <3>3. \A y : <<n, y>>[1] = n /\ <<n, y>>[2] = y
      OBVIOUS
    <3> HIDE DEF I, V
    <3>4. ASSUME NEW y \in V PROVE \E i \in I : <<n, y>> \in Provided(s.pr, i)
      <4>1. PICK g \in UNION {Provided(s.pr, i) : i \in I} : g[1] = n /\ y = g[2]
        BY <3>1
      <4>2. PICK i \in I : g \in Provided(s.pr, i)
        OBVIOUS
      <4> QED  BY <3>2, <4>1, <4>2
    <3>5. ASSUME NEW y, NEW i \in I, <<n, y>> \in Provided(s.pr, i) PROVE y \in V
      <4>1. <<n, y>> \in {g \in UNION {Provided(s.pr, j) : j \in I} : g[1] = n}
        BY <3>3, <3>5
      <4> QED  BY <3>1, <3>3, <4>1
    <3> QED  BY <3>4, <3>5
  <2>2. \A i \in I : \A y : <<n, y>> \in Provided(s.pr, i) => <<n, y>> \in s.features
    BY DEF I, Chosen, Encodable
  <2>3. \A y : y \in Versions(s, n) <=> <<n, y>> \in s.features
    <3>1. \A y : <<n, y>>[1] = n /\ <<n, y>>[2] = y
      OBVIOUS
    <3>2. \A f \in s.features : f = <<f[1], f[2]>>
      BY FeatureIsPair
    <3>3. Versions(s, n) = {f[2] : f \in {g \in s.features : g[1] = n}}
      BY <1>1 DEF Versions
    <3> QED  BY <3>1, <3>2, <3>3
  <2> HIDE DEF I, V
  <2>4. \A y \in V : y \in Versions(s, n) /\ PV(n, y) \in a
    BY <2>1, <2>2, <2>3, ProvidesSound DEF I
  <2>5. 0 \in V => Infinite(s, a, n)
    BY <2>3, <2>4 DEF Infinite, InfiniteProvided
  <2>6. \A y \in Versions(s, n) : PV(n, y) \in a => y \in V \/ 0 \in V
    BY <2>1, <2>3, ProvidesSound DEF I
  <2>7. Infinite(s, a, n) => 0 \in V
    BY <2>3, <2>6 DEF Infinite, InfiniteProvided
  <2> QED  BY <1>1, <2>4, <2>5, <2>6, <2>7 DEF I, V
<1>2. CASE ~ NeededFeature(s, n)
  <2>1. V = {Unit(s, i).version : i \in {j \in I : Unit(s, j).name = n}}
    BY <1>2 DEF InstalledVersions
  <2>2. Versions(s, n) = {Unit(s, i).version : i \in {j \in s.needed : Unit(s, j).name = n}}
    BY <1>2 DEF Versions, UnitVersions, NeededUnits
  <2>3. \A i : i \in I <=> i \in s.needed /\ PV(Unit(s, i).name, Unit(s, i).version) \in a
    BY DEF I, Chosen, UnitVar
  <2>4. ~ Infinite(s, a, n)
    <3>1. <<n, 0>>[1] = n
      OBVIOUS
    <3> QED  BY <1>2, <3>1 DEF Infinite, InfiniteProvided, NeededFeature
  <2> HIDE DEF I, V
  <2>5. \A y \in V : y \in Versions(s, n) /\ PV(n, y) \in a
    BY <2>1, <2>2, <2>3
  <2>6. \A y \in Versions(s, n) : PV(n, y) \in a => y \in V
    BY <2>1, <2>2, <2>3
  <2> QED  BY <1>2, <2>4, <2>5, <2>6 DEF I, V
<1> QED  BY <1>1, <1>2

LEMMA UpgradeClauses ==
  ASSUME NEW s, NEW c
  PROVE  c \in EncodeUpgrade(s) <=>
           \E vp \in Range(s.pr.upgrade) :
             \/ c = RequestToClause(s, vp)
             \/ /\ LatestNeeded(s, vp.name) >= 0
                /\ \/ c = {Pos(<<"ru", vp.name, LatestNeeded(s, vp.name)>>)}
                   \/ c \in AtMostOne(s, vp.name, LatestNeeded(s, vp.name))
             \/ IsFeature(s.pr, vp.name) /\ InfiniteProvided(s, vp.name) /\ c = {Neg(PV(vp.name, 0))}
<1> DEFINE Part(q) == LET n == q.name
                          latest == LatestNeeded(s, n)
                      IN  (IF latest >= 0 THEN {{Pos(<<"ru", n, latest>>)}} \cup AtMostOne(s, n, latest)
                           ELSE {})
                            \cup (IF IsFeature(s.pr, n) /\ InfiniteProvided(s, n) THEN {{Neg(PV(n, 0))}} ELSE {})
           requests == {RequestToClause(s, vp) : vp \in Range(s.pr.upgrade)}
           parts == {Part(vp) : vp \in Range(s.pr.upgrade)}
<1>1. EncodeUpgrade(s) = requests \cup (UNION parts)
  BY DEF EncodeUpgrade
<1>2. \A vp : c \in Part(vp) <=>
        \/ /\ LatestNeeded(s, vp.name) >= 0
           /\ \/ c = {Pos(<<"ru", vp.name, LatestNeeded(s, vp.name)>>)}
              \/ c \in AtMostOne(s, vp.name, LatestNeeded(s, vp.name))
        \/ IsFeature(s.pr, vp.name) /\ InfiniteProvided(s, vp.name) /\ c = {Neg(PV(vp.name, 0))}
  OBVIOUS
<1> HIDE DEF Part
<1> QED  BY <1>1, <1>2

LEMMA UpgradesSound ==
  ASSUME NEW s, NEW m, NEW C, NEW a, ModelOf(s, m, C, a)
  PROVE  UpgradesMet(s, Chosen(s, a))
<1>1. WellPosed(s, m) /\ Follows(s, m, a, C) /\ AllSatisfied(a, EncodeProvides(s)) /\ Encodable(s, m)
  BY WrittenParts DEF ModelOf, WellPosed
<1>2. \A c \in EncodeUpgrade(s) : Satisfied(a, c) /\ c \subseteq UNION C
  BY WrittenParts DEF AllSatisfied
<1> SUFFICES ASSUME NEW vp \in Range(s.pr.upgrade)
             PROVE  /\ LatestNeeded(s, vp.name) >= 0 =>
                         \E v \in Versions(s, vp.name) :
                           /\ v >= LatestNeeded(s, vp.name)
                           /\ InstalledVersions(s, Chosen(s, a), vp.name) = {v}
                    /\ NeededFeature(s, vp.name) => 0 \notin InstalledVersions(s, Chosen(s, a), vp.name)
  BY DEF UpgradesMet
<1> DEFINE n == vp.name
           latest == LatestNeeded(s, n)
           V == InstalledVersions(s, Chosen(s, a), n)
<1>3. ~ Infinite(s, a, n)
  <2>1. m \in Nat
    BY <1>1 DEF Follows
  <2>2. InfiniteProvided(s, n) => {Neg(PV(n, 0))} \in EncodeUpgrade(s)
    BY <1>1, <2>1, VersionsBounded, UpgradeClauses
  <2>3. InfiniteProvided(s, n) => Satisfied(a, {Neg(PV(n, 0))})
    BY <1>2, <2>2
  <2> QED  BY <2>3, ClauseHolds, LiteralHolds DEF Infinite
<1>4. /\ \A y \in V : y \in Versions(s, n) /\ PV(n, y) \in a
      /\ \A y \in Versions(s, n) : PV(n, y) \in a => y \in V
      /\ NeededFeature(s, n) => 0 \notin V
  BY <1>1, <1>3, InstalledTrue DEF Follows
<1>5. ASSUME latest >= 0
      PROVE  \E v \in Versions(s, n) : v >= latest /\ V = {v}
  <2>1. {Pos(<<"ru", n, latest>>)} \in EncodeUpgrade(s) /\ AtMostOne(s, n, latest) \subseteq EncodeUpgrade(s)
    BY <1>5, UpgradeClauses
  <2> HIDE DEF latest, V
  <2>2. Pos(<<"ru", n, latest>>) \in UNION C /\ Holds(a, Pos(<<"ru", n, latest>>))
    <3>1. Satisfied(a, {Pos(<<"ru", n, latest>>)}) /\ {Pos(<<"ru", n, latest>>)} \subseteq UNION C
      BY <1>2, <2>1
    <3> QED  BY <3>1, ClauseHolds
  <2>3. latest \in 0 .. m
    <3>1. latest \in Intervals(C, "ru", n)
      BY <2>2, Occurs
    <3> QED  BY <1>1, <3>1 DEF Follows, Bounded, KindsOfInterval
  <2>4. SomeFrom(s, a, n, latest)
    <3>1. Meaning(s, a, "ru", n, latest)
      BY <1>1, <2>2, IntervalHolds DEF KindsOfInterval
    <3> QED  BY <3>1 DEF Meaning
  <2>5. PICK v \in Versions(s, n) : v >= latest /\ PV(n, v) \in a
    BY <1>3, <2>4 DEF SomeFrom
  <2>6. Versions(s, n) \subseteq Nat /\ latest \in Nat
    <3>1. Versions(s, n) \subseteq 0 .. m
      BY <1>1, VersionsBounded DEF Follows
    <3> QED  BY <1>1, <2>3, <3>1 DEF Follows
  <2>7. ASSUME NEW y \in Versions(s, n), PV(n, y) \in a PROVE y = v
    <3>1. y >= latest
      <4>1. y < latest => {Neg(PV(n, y))} \in AtMostOne(s, n, latest)
        BY DEF AtMostOne
      <4>2. y < latest => Satisfied(a, {Neg(PV(n, y))})
        BY <1>2, <2>1, <4>1
      <4>3. ~ (y < latest)
        BY <2>7, <4>2, ClauseHolds, LiteralHolds
      <4> QED  BY <2>6, <4>3
    <3>2. ASSUME NEW u \in Versions(s, n), NEW t \in Versions(s, n), u >= latest, u < t,
                 PV(n, u) \in a, PV(n, t) \in a
          PROVE  FALSE
      <4>1. latest <= u /\ <<u, t>> \in Versions(s, n) \X Versions(s, n) /\ <<u, t>>[1] = u /\ <<u, t>>[2] = t
        BY <2>6, <3>2
      <4>2. {Neg(PV(n, u)), Neg(PV(n, t))} \in AtMostOne(s, n, latest)
        BY <3>2, <4>1 DEF AtMostOne
      <4>3. Satisfied(a, {Neg(PV(n, u)), Neg(PV(n, t))})
        BY <1>2, <2>1, <4>2
      <4> QED  BY <3>2, <4>3, PairHolds
    <3>3. ~ (y < v) /\ ~ (v < y)
      BY <2>5, <2>7, <3>1, <3>2
    <3> QED  BY <2>6, <3>3
  <2>8. V = {v}
    BY <1>4, <2>5, <2>7
  <2> QED  BY <2>5, <2>8
<1> QED  BY <1>4, <1>5

(***************************************************************************)
(* The encoding is sound: whatever units a model of these clauses chooses  *)
(* are an installation that meets all dependencies, breaks no conflict,    *)
(* meets the request, and has exactly one version of what is upgraded, not *)
(* below the latest one installed.  The clauses of the criteria and those  *)
(* for packages that are not removed are not needed for that.              *)
(***************************************************************************)
THEOREM EncodingSound ==
  ASSUME NEW s, NEW m, NEW C, NEW a, ModelOf(s, m, C, a)
  PROVE  Met(s, Chosen(s, a))
BY DependsSound, ConflictsSound, RequestMetSound, UpgradesSound DEF Met

-----------------------------------------------------------------------------
(* The other direction: what the request and the packages ask for passes *)

\* features are true that are provided, and intervals what they stand for
Natural(s, a, C) ==
  /\ AllSatisfied(a, EncodeProvides(s))
  /\ \A kind \in KindsOfInterval : \A n : \A v \in Intervals(C, kind, n) :
       <<kind, n, v>> \in a <=> Meaning(s, a, kind, n, v)

LEMMA NaturalHolds ==
  ASSUME NEW s, NEW a, NEW C, Natural(s, a, C), NEW kind \in KindsOfInterval, NEW n, NEW v,
         Pos(<<kind, n, v>>) \in UNION C, Meaning(s, a, kind, n, v)
  PROVE  Holds(a, Pos(<<kind, n, v>>))
<1>1. v \in Intervals(C, kind, n)
  BY Occurs
<1>2. <<kind, n, v>> \in a
  BY <1>1 DEF Natural
<1> QED  BY <1>2, LiteralHolds

LEMMA AnswersNeeded ==
  ASSUME NEW s, NEW m, WellPosed(s, m), NEW i \in s.needed, NEW vp, Answers(s, i, vp)
  PROVE  i \in NeedVersions(s.pr, vp)
<1>1. i \in Units(s.pr)
  BY DEF WellPosed, Encodable
<1>2. CASE Unit(s, i).name = vp.name /\ Evaluate(Unit(s, i).version, vp.op, vp.version)
  <2>1. ~ IsFeature(s.pr, vp.name)
    BY <1>2 DEF WellPosed
  <2> QED  BY <1>1, <1>2, <2>1 DEF NeedVersions, NeedPackages, ReadUnits, Unit
<1>3. CASE \E f \in Provided(s.pr, i) : f[1] = vp.name /\ (f[2] = 0 \/ Evaluate(f[2], vp.op, vp.version))
  <2>1. PICK f \in Provided(s.pr, i) : f[1] = vp.name /\ (f[2] = 0 \/ Evaluate(f[2], vp.op, vp.version))
    BY <1>3
  <2>2. f = <<vp.name, f[2]>>
    BY <2>1 DEF Provided, FeatureOf
  <2>3. f \in AllProvided(s.pr)
    BY <1>1 DEF AllProvided
  <2>4. IsFeature(s.pr, vp.name) /\ f[2] \in FeatureVersions(s.pr, vp.name)
    BY <2>1, <2>3 DEF IsFeature, FeatureVersions
  <2>5. i \in FeatureUnits(s.pr, <<vp.name, f[2]>>)
    BY <1>1, <2>2 DEF FeatureUnits
  <2> QED  BY <2>1, <2>4, <2>5 DEF NeedVersions, NeedFeatures
<1> QED  BY <1>2, <1>3 DEF Answers

LEMMA RequirePartComplete ==
  ASSUME NEW s, NEW m \in Nat, Encodable(s, m), NEW a, NEW C, Natural(s, a, C), NEW n, NEW p,
         PartOf(p, Versions(s, n)), RequirePart(n, p) \subseteq UNION C, NEW x \in p[2], PV(n, x) \in a
  PROVE  \E l \in RequirePart(n, p) : Holds(a, l)
<1>1. Versions(s, n) \subseteq 0 .. m /\ p[2] \subseteq 0 .. m /\ x \in Versions(s, n)
  BY VersionsBounded DEF PartOf
<1>2. CASE p[1] # "=" /\ Cardinality(p[2]) > Iv
  <2>1. Min(p[2]) <= x /\ x <= Max(p[2])
    BY <1>1, <1>2, PartEnds
  <2>2. CASE p[1] = "u"
    <3>1. RequirePart(n, p) = {Pos(<<"ru", n, Min(p[2])>>)}
      BY <1>2, <2>2 DEF RequirePart, Interval
    <3>2. Min(p[2]) \in p[2] /\ Min(p[2]) \in Int /\ x \in Int
      BY <1>1, <1>2, PartEnds
    <3>3. SomeFrom(s, a, n, Min(p[2]))
      BY <1>1, <2>1, <3>2 DEF SomeFrom
    <3>4. Meaning(s, a, "ru", n, Min(p[2]))
      BY <3>3 DEF Meaning
    <3> QED  BY <3>1, <3>4, NaturalHolds DEF KindsOfInterval
  <2>3. CASE p[1] = "d"
    <3>1. RequirePart(n, p) = {Pos(<<"rd", n, Max(p[2])>>)}
      BY <1>2, <2>3 DEF RequirePart, Interval
    <3>2. SomeTo(s, a, n, Max(p[2]))
      BY <1>1, <2>1 DEF SomeTo
    <3>3. Meaning(s, a, "rd", n, Max(p[2]))
      BY <3>2 DEF Meaning
    <3> QED  BY <3>1, <3>3, NaturalHolds DEF KindsOfInterval
  <2> QED  BY <1>2, <2>2, <2>3 DEF PartOf
<1>3. CASE ~ (p[1] # "=" /\ Cardinality(p[2]) > Iv)
  <2>1. Pos(PV(n, x)) \in RequirePart(n, p)
    BY <1>3 DEF RequirePart
  <2> QED  BY <2>1, LiteralHolds
<1> QED  BY <1>2, <1>3

LEMMA DisablePartComplete ==
  ASSUME NEW s, NEW m \in Nat, Encodable(s, m), NEW a, NEW C, Natural(s, a, C), NEW n, NEW p,
         PartOf(p, Versions(s, n)), DisablePart(n, p) \subseteq UNION C,
         \A x \in p[2] : PV(n, x) \notin a, ~ Infinite(s, a, n)
  PROVE  \A l \in DisablePart(n, p) : Holds(a, l)
<1>1. Versions(s, n) \subseteq 0 .. m /\ p[2] \subseteq 0 .. m
  BY VersionsBounded DEF PartOf
<1>2. CASE p[1] # "=" /\ Cardinality(p[2]) > Iv
  <2>1. Min(p[2]) \in p[2] /\ Max(p[2]) \in p[2]
    BY <1>1, <1>2, PartEnds
  <2>2. CASE p[1] = "u"
    <3>1. DisablePart(n, p) = {Pos(<<"du", n, Min(p[2])>>)}
      BY <1>2, <2>2 DEF DisablePart, Interval
    <3>2. \A x \in Versions(s, n) : x >= Min(p[2]) => x \in p[2]
      BY <2>1, <2>2 DEF PartOf
    <3>3. ~ SomeFrom(s, a, n, Min(p[2]))
      BY <3>2 DEF SomeFrom
    <3>4. Meaning(s, a, "du", n, Min(p[2]))
      BY <3>3 DEF Meaning
    <3> QED  BY <3>1, <3>4, NaturalHolds DEF KindsOfInterval
  <2>3. CASE p[1] = "d"
    <3>1. DisablePart(n, p) = {Pos(<<"dd", n, Max(p[2])>>)}
      BY <1>2, <2>3 DEF DisablePart, Interval
    <3>2. \A x \in Versions(s, n) : x <= Max(p[2]) => x \in p[2]
      BY <2>1, <2>3 DEF PartOf
    <3>3. ~ SomeTo(s, a, n, Max(p[2]))
      BY <3>2 DEF SomeTo
    <3>4. Meaning(s, a, "dd", n, Max(p[2]))
      BY <3>3 DEF Meaning
    <3> QED  BY <3>1, <3>4, NaturalHolds DEF KindsOfInterval
  <2> QED  BY <1>2, <2>2, <2>3 DEF PartOf
<1>3. CASE ~ (p[1] # "=" /\ Cardinality(p[2]) > Iv)
  <2>1. DisablePart(n, p) = {Neg(PV(n, x)) : x \in p[2]}
    BY <1>3 DEF DisablePart
  <2> QED  BY <2>1, LiteralHolds
<1> QED  BY <1>2, <1>3

(* The clause of a request lets pass whatever has a chosen unit for it.    *)
LEMMA RequestComplete ==
  ASSUME NEW s, NEW m \in Nat, WellPosed(s, m), NEW a, NEW C, Natural(s, a, C),
         NEW vp, Askable(vp), RequestToClause(s, vp) \subseteq UNION C,
         NEW i \in Chosen(s, a), Answers(s, i, vp)
  PROVE  Satisfied(a, RequestToClause(s, vp))
<1> DEFINE n == vp.name
           S == Versions(s, n)
           P == Selected(S, vp.op, vp.version)
           lits == UNION {RequirePart(n, p) : p \in P}
<1>1. Encodable(s, m) /\ S \subseteq Nat /\ S \subseteq 0 .. m /\ AllSatisfied(a, EncodeProvides(s))
  <2>1. Encodable(s, m)
    BY DEF WellPosed
  <2>2. S \subseteq 0 .. m
    BY <2>1, VersionsBounded
  <2> QED  BY <2>1, <2>2 DEF Natural
<1>2. /\ \A p \in P : PartOf(p, S)
      /\ \A x \in S : Evaluate(x, vp.op, vp.version) => \E p \in P : x \in p[2]
  BY <1>1, SelectedParts
<1>3. RequestToClause(s, vp) = IF lits = {} /\ InfiniteProvided(s, n) THEN {Pos(PV(n, 0))} ELSE lits
  BY DEF RequestToClause
<1>4. PICK v \in S : /\ PV(n, v) \in a
                     /\ Evaluate(v, vp.op, vp.version) \/ (v = 0 /\ InfiniteProvided(s, n))
  <2>1. i \in NeedVersions(s.pr, vp)
    BY AnswersNeeded DEF Chosen
  <2> QED  BY <1>1, <2>1, AnsweredIfNeeded DEF Answered
<1> SUFFICES \E l \in RequestToClause(s, vp) : Holds(a, l)
  BY ClauseHolds
<1>5. ASSUME NEW p \in P, NEW x \in p[2], PV(n, x) \in a, ~ (lits = {} /\ InfiniteProvided(s, n))
      PROVE  \E l \in RequestToClause(s, vp) : Holds(a, l)
  <2>1. RequirePart(n, p) \subseteq RequestToClause(s, vp)
    BY <1>3, <1>5
  <2>2. RequirePart(n, p) \subseteq UNION C
    BY <2>1
  <2> HIDE DEF P, S, lits
  <2>3. \E l \in RequirePart(n, p) : Holds(a, l)
    BY <1>1, <1>2, <1>5, <2>2, RequirePartComplete DEF S
  <2> QED  BY <2>1, <2>3
<1>6. CASE Evaluate(v, vp.op, vp.version)
  <2>1. PICK p \in P : v \in p[2]
    BY <1>2, <1>6
  <2>2. RequirePart(n, p) # {}
    BY <2>1 DEF RequirePart
  <2>3. lits # {}
    BY <2>2
  <2> QED  BY <1>4, <1>5, <2>1, <2>3
<1>7. CASE v = 0 /\ InfiniteProvided(s, n)
  <2>1. CASE lits = {}
    BY <1>3, <1>4, <1>7, <2>1, LiteralHolds
  <2>2. CASE lits # {}
    <3>1. PICK p \in P : RequirePart(n, p) # {}
      BY <2>2
    <3>2. PICK x \in p[2] : TRUE
      <4>1. Cardinality(p[2]) > Iv => p[2] # {}
        BY FS_EmptySet DEF Iv
      <4> QED  BY <3>1, <4>1 DEF RequirePart
    <3>3. <<n, x>> \in s.features
      <4>1. x \in S
        BY <1>2 DEF PartOf
      <4>2. NeededFeature(s, n)
        <5>1. <<n, 0>>[1] = n
          OBVIOUS
        <5> QED  BY <1>7, <5>1 DEF InfiniteProvided, NeededFeature
      <4>3. PICK f \in s.features : f[1] = n /\ f[2] = x
        BY <4>1, <4>2 DEF Versions
      <4> QED  BY <1>1, <4>3, FeatureIsPair
    <3>4. PV(n, x) \in a
      BY <1>1, <1>4, <1>7, <3>3, ProvidesSound DEF Infinite
    <3> QED  BY <1>5, <2>2, <3>4
  <2> QED  BY <2>1, <2>2
<1> QED  BY <1>4, <1>6, <1>7

(* The term of what is to be absent is true if no chosen unit is meant.    *)
LEMMA DisableComplete ==
  ASSUME NEW s, NEW m \in Nat, WellPosed(s, m), NEW a, NEW C, Natural(s, a, C),
         NEW vp, Askable(vp), DisableToTerm(s, vp) \subseteq UNION C,
         Chosen(s, a) \cap NeedVersions(s.pr, vp) = {}
  PROVE  \A l \in DisableToTerm(s, vp) : Holds(a, l)
<1> DEFINE n == vp.name
           S == Versions(s, n)
           P == Selected(S, vp.op, vp.version)
           lits == UNION {DisablePart(n, p) : p \in P}
<1>1. Encodable(s, m) /\ S \subseteq Nat /\ S \subseteq 0 .. m /\ AllSatisfied(a, EncodeProvides(s))
  <2>1. Encodable(s, m)
    BY DEF WellPosed
  <2>2. S \subseteq 0 .. m
    BY <2>1, VersionsBounded
  <2> QED  BY <2>1, <2>2 DEF Natural
<1>2. \A p \in P : PartOf(p, S) /\ \A x \in p[2] : Evaluate(x, vp.op, vp.version)
  BY <1>1, SelectedParts
<1>3. DisableToTerm(s, vp) = IF lits = {} /\ InfiniteProvided(s, n) THEN {Neg(PV(n, 0))} ELSE lits
  BY DEF DisableToTerm
<1>4. ~ Answered(s, a, vp)
  <2> SUFFICES ASSUME Answered(s, a, vp) PROVE FALSE
    OBVIOUS
  <2>1. PICK i \in Chosen(s, a) : Answers(s, i, vp)
    BY <1>1, AnsweredByUnit
  <2>2. i \in NeedVersions(s.pr, vp)
    BY <2>1, AnswersNeeded DEF Chosen
  <2> QED  BY <2>2
<1>5. InfiniteProvided(s, n) => PV(n, 0) \notin a
  BY <1>1, <1>4, VersionsBounded DEF Answered
<1> SUFFICES ASSUME NEW l \in DisableToTerm(s, vp) PROVE Holds(a, l)
  OBVIOUS
<1>6. CASE lits = {} /\ InfiniteProvided(s, n)
  BY <1>3, <1>5, <1>6, LiteralHolds
<1>7. CASE ~ (lits = {} /\ InfiniteProvided(s, n))
  <2>1. PICK p \in P : l \in DisablePart(n, p)
    BY <1>3, <1>7
  <2>2. DisablePart(n, p) \subseteq UNION C
    BY <1>3, <1>7
  <2>3. \A x \in p[2] : PV(n, x) \notin a
    BY <1>2, <1>4 DEF Answered, PartOf
  <2>4. ~ Infinite(s, a, n)
    BY <1>5 DEF Infinite
  <2> HIDE DEF P, S, lits
  <2> QED  BY <1>1, <1>2, <2>1, <2>2, <2>3, <2>4, DisablePartComplete DEF S
<1> QED  BY <1>6, <1>7

(* The latest installed version is a version, or -1.                       *)
\* the installed versions the latest of which is taken, and -1
Latests(s, n) ==
  {-1} \cup (IF IsFeature(s.pr, n)
             THEN {v \in Versions(s, n) : IsInstalledFeature(s.pr, <<n, v>>)}
             ELSE {Unit(s, i).version : i \in {j \in NeededUnits(s, n) : Unit(s, j).installed}})

LEMMA LatestIs ==
  ASSUME NEW s, NEW m \in Nat, Encodable(s, m), NEW n
  PROVE  /\ Latests(s, n) \subseteq Int /\ LatestNeeded(s, n) \in Latests(s, n)
         /\ \A y \in Latests(s, n) : y <= LatestNeeded(s, n)
<1> DEFINE T == Latests(s, n)
<1>1. LatestNeeded(s, n) = Max(T)
  BY DEF LatestNeeded, Latests
<1>2. \A x \in T : x = -1 \/ x \in 0 .. m
  <2>1. \A i \in NeededUnits(s, n) : Unit(s, i).version \in 0 .. m
    BY DEF Encodable, NeededUnits
  <2>2. Versions(s, n) \subseteq 0 .. m
    BY VersionsBounded
  <2> QED  BY <2>1, <2>2 DEF Latests
<1>3. -1 \in T
  BY DEF Latests
<1> HIDE DEF T
<1> DEFINE U == {x + 1 : x \in T}
<1>4. U \subseteq 0 .. m + 1 /\ U # {} /\ m + 1 \in Nat
  <2>1. \A x \in T : x + 1 \in 0 .. m + 1
    BY <1>2
  <2> QED  BY <1>3, <2>1
<1>5. Max(U) \in U /\ \A u \in U : u <= Max(U)
  <2> HIDE DEF U
  <2> QED  BY <1>4, GreatestOf
<1>6. PICK x \in T : Max(U) = x + 1
  BY <1>5
<1>7. \A y \in T : x >= y
  <2>1. \A y \in T : y + 1 <= x + 1
    BY <1>5, <1>6
  <2>2. \A y \in T : y \in Int
    BY <1>2
  <2> QED  BY <2>1, <2>2
<1>8. \E z \in T : \A y \in T : z >= y
  BY <1>7
<1>9. Max(T) \in T /\ \A y \in T : Max(T) >= y
  BY <1>8 DEF Max
<1>10. T \subseteq Int
  BY <1>2
<1> QED  BY <1>1, <1>9, <1>10 DEF T

LEMMA LatestBounded ==
  ASSUME NEW s, NEW m \in Nat, Encodable(s, m), NEW n
  PROVE  LatestNeeded(s, n) \in Int
BY LatestIs

(* A clause with a chosen unit and a true literal is true.                 *)
LEMMA ConditionHolds ==
  ASSUME NEW a, NEW x, NEW l, x \in a => Holds(a, l)
  PROVE  Satisfied(a, {Neg(x), l})
BY ClauseHolds, LiteralHolds

LEMMA FeatureConflictComplete ==
  ASSUME NEW s, NEW m, WellPosed(s, m), NEW a, NEW i \in s.needed, NEW vp,
         NEW f \in Provided(s.pr, i), f[1] = vp.name,
         i \in Chosen(s, a) => Chosen(s, a) \cap NeedVersions(s.pr, vp) \subseteq {i}
  PROVE  AllSatisfied(a, FeatureSelfConflict(s, i, vp))
<1> DEFINE n == vp.name
<1>1. Encodable(s, m) /\ i \in Units(s.pr)
  BY DEF WellPosed, Encodable
<1>2. IsFeature(s.pr, n)
  BY <1>1 DEF IsFeature, AllProvided
<1> SUFFICES ASSUME NEW j \in ConflictProviders(s, vp), j # i
             PROVE  Satisfied(a, {Neg(UnitVar(s, i)), Neg(UnitVar(s, j))})
  BY DEF FeatureSelfConflict, AllSatisfied
<1>3. PICK v : /\ v = 0 \/ (v \in Versions(s, n) /\ Evaluate(v, vp.op, vp.version))
               /\ j \in FeatureUnits(s.pr, <<n, v>>) /\ j \in s.needed
  BY DEF ConflictProviders
<1>4. v = 0 \/ (v \in FeatureVersions(s.pr, n) /\ Evaluate(v, vp.op, vp.version))
  <2>1. <<n, v>> \in AllProvided(s.pr) /\ <<n, v>>[1] = n /\ <<n, v>>[2] = v
    BY <1>3 DEF FeatureUnits, AllProvided
  <2> QED  BY <1>3, <2>1 DEF FeatureVersions
<1>5. j \in NeedVersions(s.pr, vp)
  BY <1>2, <1>3, <1>4 DEF NeedVersions, NeedFeatures
<1>6. ~ (UnitVar(s, i) \in a /\ UnitVar(s, j) \in a)
  BY <1>3, <1>5 DEF Chosen
<1> QED  BY <1>6, PairHolds

LEMMA PackageConflictComplete ==
  ASSUME NEW s, NEW m \in Nat, WellPosed(s, m), NEW a, NEW C, Natural(s, a, C), NEW i \in s.needed, NEW vp,
         vp.name = Unit(s, i).name, \A c \in PackageSelfConflict(s, i, vp) : c \subseteq UNION C,
         i \in Chosen(s, a) => Chosen(s, a) \cap NeedVersions(s.pr, vp) \subseteq {i}
  PROVE  AllSatisfied(a, PackageSelfConflict(s, i, vp))
<1> DEFINE n == vp.name
           S == UnitVersions(s, n)
           v == Unit(s, i).version
           x == UnitVar(s, i)
<1>1. Encodable(s, m)
  BY DEF WellPosed
<1>2. ~ IsFeature(s.pr, n)
  BY DEF WellPosed
<1>3. ~ NeededFeature(s, n)
  <2> SUFFICES ASSUME NEW f \in s.features, f[1] = n PROVE FALSE
    BY DEF NeededFeature
  <2>1. f \in AllProvided(s.pr)
    BY <1>1, FeatureIsPair DEF AllProvided
  <2> QED  BY <1>2, <2>1 DEF IsFeature
<1>4. S = Versions(s, n) /\ S \subseteq Nat /\ v \in Nat
  <2>1. S = Versions(s, n)
    BY <1>3 DEF Versions
  <2>2. Versions(s, n) \subseteq 0 .. m
    BY <1>1, VersionsBounded
  <2>3. v \in 0 .. m
    BY <1>1 DEF Encodable
  <2> QED  BY <2>1, <2>2, <2>3
<1>5. ASSUME NEW w \in S, w # v, Evaluate(w, vp.op, vp.version), x \in a
      PROVE  PV(n, w) \notin a
  <2> SUFFICES ASSUME PV(n, w) \in a PROVE FALSE
    OBVIOUS
  <2>1. PICK j \in s.needed : Unit(s, j).name = n /\ Unit(s, j).version = w
    BY DEF UnitVersions, NeededUnits
  <2>2. j \in Chosen(s, a) /\ j # i /\ i \in Chosen(s, a)
    BY <1>5, <2>1 DEF Chosen, UnitVar
  <2>3. j \in NeedVersions(s.pr, vp)
    BY <1>1, <1>2, <1>5, <2>1 DEF NeedVersions, NeedPackages, ReadUnits, Unit, Encodable
  <2> QED  BY <2>2, <2>3
<1>6. CASE vp.op # "none"
  <2>1. PackageSelfConflict(s, i, vp)
          = {{Neg(x), Neg(PV(n, w))} : w \in {y \in S \ {v} : Evaluate(y, vp.op, vp.version)}}
    BY <1>6 DEF PackageSelfConflict
  <2> HIDE DEF x, S, v, n
  <2>2. ASSUME NEW w \in {y \in S \ {v} : Evaluate(y, vp.op, vp.version)}
        PROVE  Satisfied(a, {Neg(x), Neg(PV(n, w))})
    BY <1>5, PairHolds
  <2> QED  BY <2>1, <2>2 DEF AllSatisfied
<1>7. CASE vp.op = "none"
  <2> DEFINE above == DisablePart(n, Up(S, v + 1))
             below == DisablePart(n, Down(S, v - 1))
  <2>1. PackageSelfConflict(s, i, vp) = {{Neg(x), l} : l \in above \cup below}
    BY <1>7 DEF PackageSelfConflict, Up, Down
  <2>2. above \subseteq UNION C /\ below \subseteq UNION C
    <3>1. \A l \in above \cup below : {Neg(x), l} \subseteq UNION C
      BY <2>1
    <3> QED  BY <3>1
  <2>3. \A w : Evaluate(w, vp.op, vp.version)
    BY <1>7 DEF Evaluate
  <2> HIDE DEF above, below, S, v, x, n
  <2>4. /\ PartOf(Up(S, v + 1), Versions(s, n)) /\ PartOf(Down(S, v - 1), Versions(s, n))
        /\ \A y \in S : (y \in Up(S, v + 1)[2] <=> y > v) /\ (y \in Down(S, v - 1)[2] <=> y < v)
    BY <1>4, AboveAndBelow
  <2>5. ~ Infinite(s, a, n)
    <3>1. <<n, 0>>[1] = n
      OBVIOUS
    <3> QED  BY <1>3, <3>1 DEF Infinite, InfiniteProvided, NeededFeature
  <2>6. ASSUME x \in a PROVE \A l \in above \cup below : Holds(a, l)
    <3>1. \A y \in Up(S, v + 1)[2] : y \in S /\ y # v
      BY <1>4, <2>4 DEF PartOf
    <3>2. \A y \in Down(S, v - 1)[2] : y \in S /\ y # v
      BY <1>4, <2>4 DEF PartOf
    <3>3. \A l \in above : Holds(a, l)
      BY <1>1, <1>5, <2>2, <2>3, <2>4, <2>5, <2>6, <3>1, DisablePartComplete DEF above
    <3>4. \A l \in below : Holds(a, l)
      BY <1>1, <1>5, <2>2, <2>3, <2>4, <2>5, <2>6, <3>2, DisablePartComplete DEF below
    <3> QED  BY <3>3, <3>4
  <2>7. \A l \in above \cup below : Satisfied(a, {Neg(x), l})
    BY <2>6, ConditionHolds
  <2> QED  BY <2>1, <2>7 DEF AllSatisfied
<1> QED  BY <1>6, <1>7

LEMMA ConflictsComplete ==
  ASSUME NEW s, NEW m \in Nat, WellPosed(s, m), NEW a, NEW C, Natural(s, a, C),
         ConflictsKept(s, Chosen(s, a)), NEW i \in s.needed, \A c \in EncodeConflicts(s, i) : c \subseteq UNION C
  PROVE  AllSatisfied(a, EncodeConflicts(s, i))
<1> SUFFICES ASSUME NEW vp \in Range(Unit(s, i).conflicts)
             PROVE  AllSatisfied(a, EncodeConflict(s, i, vp))
  BY DEF EncodeConflicts, AllSatisfied
<1>1. \A c \in EncodeConflict(s, i, vp) : c \subseteq UNION C
  BY DEF EncodeConflicts
<1>2. i \in Chosen(s, a) => Chosen(s, a) \cap NeedVersions(s.pr, vp) \subseteq {i}
  BY DEF ConflictsKept
<1>3. CASE \E f \in Provided(s.pr, i) : f[1] = vp.name
  BY <1>2, <1>3, FeatureConflictComplete DEF EncodeConflict
<1>4. CASE (~ \E f \in Provided(s.pr, i) : f[1] = vp.name) /\ vp.name = Unit(s, i).name
  <2>1. EncodeConflict(s, i, vp) = PackageSelfConflict(s, i, vp)
    BY <1>4 DEF EncodeConflict
  <2> QED  BY <1>1, <1>2, <1>4, <2>1, PackageConflictComplete
<1>5. CASE (~ \E f \in Provided(s.pr, i) : f[1] = vp.name) /\ vp.name # Unit(s, i).name
  <2>1. EncodeConflict(s, i, vp) = {{Neg(UnitVar(s, i)), l} : l \in DisableToTerm(s, vp)}
    BY <1>5 DEF EncodeConflict, NotSelfConflict
  <2>2. DisableToTerm(s, vp) \subseteq UNION C
    <3>1. \A l \in DisableToTerm(s, vp) : {Neg(UnitVar(s, i)), l} \subseteq UNION C
      BY <1>1, <2>1
    <3> QED  BY <3>1
  <2>3. Askable(vp)
    <3>1. vp \in AllRequests(s)
      BY DEF AllRequests
    <3> QED  BY <3>1 DEF WellPosed
  <2>4. ASSUME UnitVar(s, i) \in a PROVE \A l \in DisableToTerm(s, vp) : Holds(a, l)
    <3>1. i \in Chosen(s, a)
      BY <2>4 DEF Chosen
    <3>2. Chosen(s, a) \cap NeedVersions(s.pr, vp) = {}
      <4> SUFFICES ASSUME i \in NeedVersions(s.pr, vp) PROVE FALSE
        BY <1>2, <3>1
      <4>1. CASE IsFeature(s.pr, vp.name)
        <5>1. PICK w : i \in FeatureUnits(s.pr, <<vp.name, w>>)
          BY <4>1 DEF NeedVersions, NeedFeatures
        <5>2. <<vp.name, w>> \in Provided(s.pr, i) /\ <<vp.name, w>>[1] = vp.name
          BY <5>1 DEF FeatureUnits
        <5> QED  BY <1>5, <5>2
      <4>2. CASE ~ IsFeature(s.pr, vp.name)
        BY <1>5, <4>2 DEF NeedVersions, NeedPackages, ReadUnits, Unit
      <4> QED  BY <4>1, <4>2
    <3> QED  BY <2>2, <2>3, <3>2, DisableComplete
  <2>5. \A l \in DisableToTerm(s, vp) : Satisfied(a, {Neg(UnitVar(s, i)), l})
    BY <2>4, ConditionHolds
  <2> QED  BY <2>1, <2>5 DEF AllSatisfied
<1> QED  BY <1>3, <1>4, <1>5

LEMMA UpgradesComplete ==
  ASSUME NEW s, NEW m \in Nat, WellPosed(s, m), NEW a, NEW C, Natural(s, a, C), UpgradesMet(s, Chosen(s, a)),
         \A vp \in Range(s.pr.upgrade) : Satisfied(a, RequestToClause(s, vp)),
         \A c \in EncodeUpgrade(s) : c \subseteq UNION C
  PROVE  AllSatisfied(a, EncodeUpgrade(s))
<1>1. Encodable(s, m) /\ AllSatisfied(a, EncodeProvides(s))
  BY DEF WellPosed, Natural
<1> SUFFICES ASSUME NEW c \in EncodeUpgrade(s) PROVE Satisfied(a, c)
  BY DEF AllSatisfied
<1>0. PICK vp \in Range(s.pr.upgrade) :
        \/ c = RequestToClause(s, vp)
        \/ /\ LatestNeeded(s, vp.name) >= 0
           /\ \/ c = {Pos(<<"ru", vp.name, LatestNeeded(s, vp.name)>>)}
              \/ c \in AtMostOne(s, vp.name, LatestNeeded(s, vp.name))
        \/ InfiniteProvided(s, vp.name) /\ c = {Neg(PV(vp.name, 0))}
  BY UpgradeClauses
<1> DEFINE n == vp.name
           latest == LatestNeeded(s, n)
           V == InstalledVersions(s, Chosen(s, a), n)
<1>2. /\ \A y \in V : y \in Versions(s, n) /\ PV(n, y) \in a
      /\ ~ Infinite(s, a, n) => \A y \in Versions(s, n) : PV(n, y) \in a => y \in V
      /\ Infinite(s, a, n) <=> NeededFeature(s, n) /\ 0 \in V
  BY <1>1, InstalledTrue
<1>3. /\ latest >= 0 => \E v \in Versions(s, n) : v >= latest /\ V = {v}
      /\ NeededFeature(s, n) => 0 \notin V
  BY DEF UpgradesMet
<1> HIDE DEF n, latest, V
<1>4. ~ Infinite(s, a, n)
  BY <1>2, <1>3
<1>5. CASE InfiniteProvided(s, n) /\ c = {Neg(PV(n, 0))}
  <2>1. PV(n, 0) \notin a
    BY <1>4, <1>5 DEF Infinite
  <2> QED  BY <1>5, <2>1, ClauseHolds, LiteralHolds
<1>6. CASE latest >= 0 /\ c = {Pos(<<"ru", n, latest>>)}
  <2>1. PICK v \in Versions(s, n) : v >= latest /\ V = {v}
    BY <1>3, <1>6
  <2>2. SomeFrom(s, a, n, latest)
    BY <1>2, <2>1 DEF SomeFrom
  <2>3. Meaning(s, a, "ru", n, latest)
    BY <2>2 DEF Meaning
  <2>4. Pos(<<"ru", n, latest>>) \in UNION C
    BY <1>6
  <2>5. Holds(a, Pos(<<"ru", n, latest>>))
    BY <2>3, <2>4, NaturalHolds DEF KindsOfInterval
  <2> QED  BY <1>6, <2>5, ClauseHolds
<1>7. CASE latest >= 0 /\ c \in AtMostOne(s, n, latest)
  <2>1. PICK v \in Versions(s, n) : v >= latest /\ V = {v}
    BY <1>3, <1>7
  <2>2. \A y \in Versions(s, n) : PV(n, y) \in a => y = v
    BY <1>2, <1>4, <2>1
  <2>3. Versions(s, n) \subseteq Nat
    <3>1. Versions(s, n) \subseteq 0 .. m
      BY <1>1, VersionsBounded
    <3> QED  BY <3>1
  <2>4. CASE \E w \in Versions(s, n) : w < latest /\ c = {Neg(PV(n, w))}
    <3>1. PICK w \in Versions(s, n) : w < latest /\ c = {Neg(PV(n, w))}
      BY <2>4
    <3>2. w # v
      <4>1. m \in Nat /\ latest \in Int
        BY <1>1, LatestBounded DEF latest
      <4> QED  BY <2>1, <2>3, <3>1, <4>1
    <3>3. PV(n, w) \notin a
      BY <2>2, <3>2
    <3> QED  BY <3>1, <3>3, ClauseHolds, LiteralHolds
  <2>5. CASE \E p \in Versions(s, n) \X Versions(s, n) :
               latest <= p[1] /\ p[1] < p[2] /\ c = {Neg(PV(n, p[1])), Neg(PV(n, p[2]))}
    <3>1. PICK u \in Versions(s, n), w \in Versions(s, n) : u < w /\ c = {Neg(PV(n, u)), Neg(PV(n, w))}
      BY <2>5
    <3>2. ~ (PV(n, u) \in a /\ PV(n, w) \in a)
      BY <2>2, <2>3, <3>1
    <3>3. Satisfied(a, {Neg(PV(n, u)), Neg(PV(n, w))})
      BY <3>2, PairHolds
    <3> QED  BY <3>1, <3>3
  <2>6. \/ \E w \in {y \in Versions(s, n) : y < latest} : c = {Neg(PV(n, w))}
        \/ \E p \in {q \in Versions(s, n) \X Versions(s, n) : latest <= q[1] /\ q[1] < q[2]} :
             c = {Neg(PV(n, p[1])), Neg(PV(n, p[2]))}
    BY <1>7, Zenon DEF AtMostOne
  <2> QED  BY <2>4, <2>5, <2>6
<1> QED  BY <1>0, <1>5, <1>6, <1>7 DEF n, latest

\* the assignment in which the units I are chosen
FeatureTrue(s, I, f) == \E i \in I : f \in Provided(s.pr, i) \/ <<f[1], 0>> \in Provided(s.pr, i)
Versioned(s, I) ==
  {UnitVar(s, i) : i \in I} \cup {PV(f[1], f[2]) : f \in {g \in s.features : FeatureTrue(s, I, g)}}
Assignment(s, I, C) ==
  Versioned(s, I)
    \cup UNION {{<<kind, n, v>> : v \in {w \in Intervals(C, kind, n) :
                                           Meaning(s, Versioned(s, I), kind, n, w)}} :
                  kind \in KindsOfInterval, n \in IntervalNames(C)}

LEMMA VersionedUnits ==
  ASSUME NEW s, NEW m \in Nat, WellPosed(s, m), NEW I, I \subseteq s.needed
  PROVE  /\ \A i \in s.needed : UnitVar(s, i) \in Versioned(s, I) <=> i \in I
         /\ \A f \in s.features : PV(f[1], f[2]) \in Versioned(s, I) <=> FeatureTrue(s, I, f)
<1>1. \A n1, v1, n2, v2 : PV(n1, v1) = PV(n2, v2) => n1 = n2 /\ v1 = v2
  BY DEF PV
<1>2. \A f \in s.features : f = <<f[1], f[2]>> /\ f \in AllProvided(s.pr)
  BY FeatureIsPair DEF WellPosed, AllProvided
<1>3. \A i \in s.needed : \A f \in s.features : UnitVar(s, i) # PV(f[1], f[2])
  BY <1>1, <1>2 DEF UnitVar, WellPosed, IsFeature
<1>4. \A i, j \in s.needed : UnitVar(s, i) = UnitVar(s, j) => i = j
  BY DEF WellPosed
<1>5. \A x : x \in Versioned(s, I) <=>
        \/ \E i \in I : x = UnitVar(s, i)
        \/ \E f \in s.features : FeatureTrue(s, I, f) /\ x = PV(f[1], f[2])
  BY DEF Versioned
<1>6. ASSUME NEW i \in s.needed PROVE UnitVar(s, i) \in Versioned(s, I) <=> i \in I
  BY <1>3, <1>4, <1>5
<1>7. ASSUME NEW f \in s.features PROVE PV(f[1], f[2]) \in Versioned(s, I) <=> FeatureTrue(s, I, f)
  BY <1>1, <1>2, <1>3, <1>5
<1> QED  BY <1>6, <1>7

LEMMA VersionedProvides ==
  ASSUME NEW s, NEW m \in Nat, WellPosed(s, m), NEW I, I \subseteq s.needed
  PROVE  AllSatisfied(Versioned(s, I), EncodeProvides(s))
<1> DEFINE a == Versioned(s, I)
<1> SUFFICES ASSUME NEW f \in s.features
             PROVE  PV(f[1], f[2]) \in a <=> \E y \in Providers(s, f) : y \in a
  BY ProvidesHold
<1> HIDE DEF a
<1>1. /\ \A i \in s.needed : UnitVar(s, i) \in a <=> i \in I
      /\ \A g \in s.features : PV(g[1], g[2]) \in a <=> FeatureTrue(s, I, g)
  BY VersionedUnits DEF a
<1>2. \A i \in s.needed : \A h : i \in FeatureUnits(s.pr, h) <=> h \in Provided(s.pr, i)
  BY DEF FeatureUnits, WellPosed, Encodable
<1>3. (\E y \in Providers(s, f) : y \in a) <=>
        \/ f[2] # 0 /\ InfiniteProvided(s, f[1]) /\ PV(f[1], 0) \in a
        \/ \E i \in I : f \in Provided(s.pr, i)
  <2>1. \A y : y \in Providers(s, f) <=>
          \/ f[2] # 0 /\ InfiniteProvided(s, f[1]) /\ y = PV(f[1], 0)
          \/ \E i \in s.needed : i \in FeatureUnits(s.pr, f) /\ y = UnitVar(s, i)
    BY DEF Providers
  <2> QED  BY <1>1, <1>2, <2>1
<1>4. \A i \in I : <<f[1], 0>> \in Provided(s.pr, i) => InfiniteProvided(s, f[1])
  BY DEF InfiniteProvided, WellPosed, Encodable
<1>5. InfiniteProvided(s, f[1]) => (PV(f[1], 0) \in a <=> \E i \in I : <<f[1], 0>> \in Provided(s.pr, i))
  <2> SUFFICES ASSUME InfiniteProvided(s, f[1])
               PROVE  PV(f[1], 0) \in a <=> \E i \in I : <<f[1], 0>> \in Provided(s.pr, i)
    OBVIOUS
  <2> DEFINE g == <<f[1], 0>>
  <2>1. g \in s.features /\ g[1] = f[1] /\ g[2] = 0
    BY DEF InfiniteProvided
  <2>2. <<g[1], 0>> = g
    BY <2>1
  <2> HIDE DEF g
  <2>3. PV(f[1], 0) \in a <=> FeatureTrue(s, I, g)
    BY <1>1, <2>1
  <2>4. FeatureTrue(s, I, g) <=> \E i \in I : g \in Provided(s.pr, i)
    BY <2>2 DEF FeatureTrue
  <2> QED  BY <2>3, <2>4 DEF g
<1>6. f[2] = 0 => f = <<f[1], 0>>
  BY FeatureIsPair DEF WellPosed
<1>7. FeatureTrue(s, I, f) <=>
        \/ \E i \in I : f \in Provided(s.pr, i)
        \/ \E i \in I : <<f[1], 0>> \in Provided(s.pr, i)
  BY DEF FeatureTrue
<1>8. PV(f[1], f[2]) \in a <=> FeatureTrue(s, I, f)
  BY <1>1
<1> QED  BY <1>3, <1>4, <1>5, <1>6, <1>7, <1>8

LEMMA AssignmentAgrees ==
  ASSUME NEW s, NEW I, NEW C
  PROVE  LET a == Assignment(s, I, C) IN
         /\ \A n, v : PV(n, v) \in a <=> PV(n, v) \in Versioned(s, I)
         /\ \A kind \in KindsOfInterval : \A n : \A v \in Intervals(C, kind, n) :
              <<kind, n, v>> \in a <=> Meaning(s, Versioned(s, I), kind, n, v)
         /\ \A kind \in KindsOfInterval : \A n, v :
              Meaning(s, a, kind, n, v) <=> Meaning(s, Versioned(s, I), kind, n, v)
<1> DEFINE a == Assignment(s, I, C)
           b == Versioned(s, I)
           Of(kind, n) == {<<kind, n, v>> : v \in {w \in Intervals(C, kind, n) : Meaning(s, b, kind, n, w)}}
           rest == UNION {Of(kind, n) : kind \in KindsOfInterval, n \in IntervalNames(C)}
<1>1. a = b \cup rest
  BY DEF Assignment
<1>2. \A x \in b : x[1] = "pv"
  BY DEF Versioned, UnitVar, PV
<1>3. \A kind, n : \A x : x \in Of(kind, n) <=>
        \E v \in Intervals(C, kind, n) : Meaning(s, b, kind, n, v) /\ x = <<kind, n, v>>
  OBVIOUS
<1>4. \A n, v : PV(n, v)[1] = "pv"
  BY DEF PV
<1> HIDE DEF a, b, Of
<1>5. \A x : x \in rest <=> \E kind \in KindsOfInterval : \E n \in IntervalNames(C) : x \in Of(kind, n)
  OBVIOUS
<1> HIDE DEF rest
<1>6. \A kind, n, v : <<kind, n, v>>[1] = kind /\ <<kind, n, v>>[2] = n /\ <<kind, n, v>>[3] = v
  OBVIOUS
<1>7. \A n, v : PV(n, v) \in a <=> PV(n, v) \in b
  <2>1. \A x \in rest : x[1] # "pv"
    BY <1>3, <1>5, <1>6 DEF KindsOfInterval
  <2> QED  BY <1>1, <1>4, <2>1
<1>8. ASSUME NEW kind \in KindsOfInterval, NEW n, NEW v \in Intervals(C, kind, n)
      PROVE  <<kind, n, v>> \in a <=> Meaning(s, b, kind, n, v)
  <2>1. <<kind, n, v>> \notin b
    BY <1>2, <1>6 DEF KindsOfInterval
  <2>2. n \in IntervalNames(C)
    <3>1. PICK l \in UNION C : l[1][1] = kind /\ l[1][2] = n
      BY DEF Intervals
    <3> QED  BY <3>1 DEF IntervalNames
  <2>3. <<kind, n, v>> \in rest <=> Meaning(s, b, kind, n, v)
    <3>1. \A k, q, w : <<kind, n, v>> = <<k, q, w>> => k = kind /\ q = n /\ w = v
      OBVIOUS
    <3> QED  BY <1>3, <1>5, <2>2, <3>1
  <2> QED  BY <1>1, <2>1, <2>3
<1>9. \A n : /\ Infinite(s, a, n) <=> Infinite(s, b, n)
             /\ \A v : SomeFrom(s, a, n, v) <=> SomeFrom(s, b, n, v)
             /\ \A v : SomeTo(s, a, n, v) <=> SomeTo(s, b, n, v)
  BY <1>7 DEF Infinite, SomeFrom, SomeTo
<1>10. \A kind \in KindsOfInterval : \A n, v : Meaning(s, a, kind, n, v) <=> Meaning(s, b, kind, n, v)
  BY <1>9 DEF Meaning, KindsOfInterval
<1> QED  BY <1>7, <1>8, <1>10 DEF a, b

LEMMA AssignmentNatural ==
  ASSUME NEW s, NEW m \in Nat, WellPosed(s, m), NEW I, I \subseteq s.needed, NEW C
  PROVE  Natural(s, Assignment(s, I, C), C) /\ Chosen(s, Assignment(s, I, C)) = I
<1> DEFINE a == Assignment(s, I, C)
           b == Versioned(s, I)
<1>1. /\ \A n, v : PV(n, v) \in a <=> PV(n, v) \in b
      /\ \A kind \in KindsOfInterval : \A n : \A v \in Intervals(C, kind, n) :
           <<kind, n, v>> \in a <=> Meaning(s, a, kind, n, v)
  BY AssignmentAgrees
<1>2. /\ \A i \in s.needed : UnitVar(s, i) \in b <=> i \in I
      /\ AllSatisfied(b, EncodeProvides(s))
  BY VersionedUnits, VersionedProvides
<1> HIDE DEF a, b
<1>3. \A f : \A y \in Providers(s, f) : y \in a <=> y \in b
  BY <1>1 DEF Providers, UnitVar
<1>4. AllSatisfied(a, EncodeProvides(s))
  <2>1. \A f \in s.features : PV(f[1], f[2]) \in b <=> \E y \in Providers(s, f) : y \in b
    BY <1>2, ProvidesHold
  <2>2. \A f \in s.features : PV(f[1], f[2]) \in a <=> \E y \in Providers(s, f) : y \in a
    BY <1>1, <1>3, <2>1
  <2> QED  BY <2>2, ProvidesHold
<1>5. Chosen(s, a) = I
  BY <1>1, <1>2 DEF Chosen, UnitVar
<1> QED  BY <1>1, <1>4, <1>5 DEF Natural, a

LEMMA DependsComplete ==
  ASSUME NEW s, NEW m \in Nat, WellPosed(s, m), NEW a, NEW C, Natural(s, a, C), DependsMet(s, Chosen(s, a)),
         NEW i \in s.needed, \A c \in EncodeDepends(s, i) : c \subseteq UNION C
  PROVE  AllSatisfied(a, EncodeDepends(s, i))
<1> DEFINE D == Unit(s, i).depends
<1> SUFFICES ASSUME NEW k \in DOMAIN D
             PROVE  Satisfied(a, {Neg(UnitVar(s, i))} \cup RequestsToClause(s, D[k]))
  BY DEF EncodeDepends, Implications, Range, AllSatisfied
<1> DEFINE c == {Neg(UnitVar(s, i))} \cup RequestsToClause(s, D[k])
<1>1. c \in EncodeDepends(s, i)
  BY DEF EncodeDepends, Implications, Range
<1>2. CASE UnitVar(s, i) \notin a
  BY <1>2, ClauseHolds, LiteralHolds
<1>3. CASE UnitVar(s, i) \in a
  <2>1. i \in Chosen(s, a)
    BY <1>3 DEF Chosen
  <2>2. PICK vp \in Range(D[k]) : \E j \in Chosen(s, a) : Answers(s, j, vp)
    BY <2>1 DEF DependsMet
  <2>3. RequestToClause(s, vp) \subseteq c
    BY DEF RequestsToClause
  <2>4. Askable(vp)
    <3>1. vp \in AllRequests(s)
      BY <2>2 DEF AllRequests
    <3> QED  BY <3>1 DEF WellPosed
  <2> HIDE DEF c, D
  <2>5. RequestToClause(s, vp) \subseteq UNION C
    BY <1>1, <2>3
  <2>6. Satisfied(a, RequestToClause(s, vp))
    BY <2>2, <2>4, <2>5, RequestComplete
  <2>7. Satisfied(a, c)
    BY <2>3, <2>6 DEF Satisfied
  <2> QED  BY <2>7 DEF c
<1> QED  BY <1>2, <1>3

(* An assignment that is natural and chooses what is asked for passes.     *)
LEMMA DemandsComplete ==
  ASSUME NEW s, NEW m \in Nat, WellPosed(s, m), NEW C, Demanded(s) \subseteq C, Bounded(C, m),
         NEW a, Natural(s, a, C), Met(s, Chosen(s, a))
  PROVE  AllSatisfied(a, Demanded(s) \cup ProcessIntervalVariables(s, C))
<1>1. Encodable(s, m)
  BY DEF WellPosed
<1>2. /\ DependsMet(s, Chosen(s, a)) /\ ConflictsKept(s, Chosen(s, a))
      /\ RequestMet(s, Chosen(s, a)) /\ UpgradesMet(s, Chosen(s, a))
  BY DEF Met
<1>3. \A c \in Demanded(s) : c \subseteq UNION C
  OBVIOUS
<1>4. AllSatisfied(a, ProcessIntervalVariables(s, C))
  BY <1>1, IntervalsComplete DEF Natural
<1>5. \A i \in s.needed : AllSatisfied(a, EncodeUnit(s, i))
  <2> SUFFICES ASSUME NEW i \in s.needed PROVE AllSatisfied(a, EncodeUnit(s, i))
    OBVIOUS
  <2>1. \A c \in EncodeDepends(s, i) \cup EncodeConflicts(s, i) : c \subseteq UNION C
    BY <1>3, DemandedParts
  <2>2. AllSatisfied(a, EncodeDepends(s, i)) /\ AllSatisfied(a, EncodeConflicts(s, i))
    BY <1>2, <2>1, DependsComplete, ConflictsComplete
  <2> QED  BY <2>2 DEF EncodeUnit, AllSatisfied
<1>6. \A vp \in s.pr.install \cup Range(s.pr.upgrade) \cup Range(s.pr.remove) : Askable(vp)
  BY DEF WellPosed, AllRequests
<1>7. ASSUME NEW vp \in s.pr.install \cup Range(s.pr.upgrade)
      PROVE  Satisfied(a, RequestToClause(s, vp))
  <2>1. RequestToClause(s, vp) \in Demanded(s)
    BY DEF Demanded, EncodeInstall, EncodeUpgrade
  <2>2. RequestToClause(s, vp) \subseteq UNION C /\ Askable(vp)
    BY <1>3, <1>6, <2>1
  <2>3. PICK i \in Chosen(s, a) : Answers(s, i, vp)
    BY <1>2 DEF RequestMet
  <2> QED  BY <2>2, <2>3, RequestComplete
<1>8. AllSatisfied(a, EncodeInstall(s))
  BY <1>7 DEF EncodeInstall, AllSatisfied
<1>9. AllSatisfied(a, EncodeUpgrade(s))
  BY <1>2, <1>3, <1>7, DemandedParts, UpgradesComplete
<1>10. AllSatisfied(a, EncodeRequestRemove(s))
  <2> SUFFICES ASSUME NEW vp \in Range(s.pr.remove), NEW l \in DisableToTerm(s, vp)
               PROVE  Satisfied(a, {l})
    BY DEF EncodeRequestRemove, AllSatisfied
  <2>1. \A k \in DisableToTerm(s, vp) : {k} \in EncodeRequestRemove(s)
    BY DEF EncodeRequestRemove
  <2>2. \A k \in DisableToTerm(s, vp) : {k} \subseteq UNION C
    BY <1>3, <2>1, DemandedParts
  <2>3. DisableToTerm(s, vp) \subseteq UNION C
    BY <2>2
  <2>4. Chosen(s, a) \cap NeedVersions(s.pr, vp) = {}
    BY <1>2 DEF RequestMet
  <2>5. Holds(a, l)
    BY <1>6, <2>3, <2>4, DisableComplete
  <2> QED  BY <2>5, ClauseHolds
<1>11. AllSatisfied(a, EncodeProvides(s))
  BY DEF Natural
<1>12. AllSatisfied(a, Demanded(s))
  BY <1>5, <1>8, <1>9, <1>10, <1>11 DEF Demanded, AllSatisfied
<1> QED  BY <1>4, <1>12 DEF AllSatisfied

(***************************************************************************)
(* The encoding is exact: the installations that models of these clauses   *)
(* and of the intervals choose are exactly those that meet what is asked   *)
(* for.  No link between intervals, no edge and no clause that defines a   *)
(* feature excludes one.                                                   *)
(***************************************************************************)
THEOREM DemandsExact ==
  ASSUME NEW s, NEW m \in Nat, WellPosed(s, m), NEW C, Demanded(s) \subseteq C, Bounded(C, m),
         NEW I, I \subseteq s.needed
  PROVE  Met(s, I) <=> \E a : /\ Chosen(s, a) = I
                              /\ AllSatisfied(a, Demanded(s) \cup ProcessIntervalVariables(s, C))
<1>1. Encodable(s, m)
  BY DEF WellPosed
<1>2. ASSUME NEW a, Chosen(s, a) = I, AllSatisfied(a, Demanded(s) \cup ProcessIntervalVariables(s, C))
      PROVE  Met(s, I)
  <2>1. AllSatisfied(a, Demanded(s)) /\ AllSatisfied(a, ProcessIntervalVariables(s, C))
    BY <1>2 DEF AllSatisfied
  <2>2. ModelOf(s, m, C, a)
    BY <1>1, <2>1 DEF ModelOf, Follows
  <2> QED  BY <1>2, <2>2, EncodingSound
<1>3. ASSUME Met(s, I)
      PROVE  \E a : /\ Chosen(s, a) = I
                    /\ AllSatisfied(a, Demanded(s) \cup ProcessIntervalVariables(s, C))
  <2> DEFINE a == Assignment(s, I, C)
  <2>1. Natural(s, a, C) /\ Chosen(s, a) = I
    BY AssignmentNatural
  <2> HIDE DEF a
  <2>2. Met(s, Chosen(s, a))
    BY <1>3, <2>1
  <2> QED  BY <2>1, <2>2, DemandsComplete
<1> QED  BY <1>2, <1>3

-----------------------------------------------------------------------------
(* Iterations *)

\* f goes from x by the steps H, of the set D into itself
StepsOf(H, D) == H \in [Nat -> [D -> D]]
Chain(f, n, D, x, H) == f \in [0 .. n -> D] /\ f[0] = x /\ \A k \in 1 .. n : f[k] = H[k][f[k-1]]

(***************************************************************************)
(* A function that is defined by recursion over 0 .. n exists: from a      *)
(* least n for which there is none, the one before extends to it.          *)
(***************************************************************************)
LEMMA Iteration ==
  ASSUME NEW n \in Nat, NEW D, NEW x \in D, NEW H, StepsOf(H, D)
  PROVE  \E f : Chain(f, n, D, x, H)
<1> DEFINE B == {k \in Nat : ~ \E f : Chain(f, k, D, x, H)}
<1>1. SUFFICES ASSUME B # {} PROVE FALSE
  OBVIOUS
<1>2. PICK b \in B : \A k \in B : b <= k
  <2> HIDE DEF B
  <2>1. B \subseteq Nat
    BY DEF B
  <2> QED  BY <1>1, <2>1, LeastOf
<1>3. b # 0
  <2> SUFFICES ASSUME b = 0 PROVE FALSE
    OBVIOUS
  <2> DEFINE f == [k \in 0 .. 0 |-> x]
  <2>1. Chain(f, 0, D, x, H)
    BY DEF Chain
  <2> QED  BY <2>1
<1>4. PICK g : Chain(g, b-1, D, x, H)
  <2>1. b-1 \in Nat /\ b \in Nat
    BY <1>2, <1>3
  <2>2. b-1 \notin B
    <3> HIDE DEF B
    <3> QED  BY <1>2, <2>1
  <2> QED  BY <2>1, <2>2
<1> DEFINE f == [k \in 0 .. b |-> IF k = b THEN H[b][g[b-1]] ELSE g[k]]
<1>5. b-1 \in Nat /\ b \in Nat /\ b-1 \in 0 .. b-1
  BY <1>3
<1>6. g[b-1] \in D /\ H[b] \in [D -> D]
  BY <1>4, <1>5 DEF Chain, StepsOf
<1>7. f \in [0 .. b -> D]
  <2> SUFFICES ASSUME NEW k \in 0 .. b PROVE f[k] \in D
    OBVIOUS
  <2>1. CASE k = b
    BY <1>6, <2>1
  <2>2. CASE k # b
    <3>1. k \in 0 .. b-1
      BY <1>5, <2>2
    <3> QED  BY <1>4, <2>2, <3>1 DEF Chain
  <2> QED  BY <2>1, <2>2
<1>8. f[0] = x
  BY <1>3, <1>4, <1>5 DEF Chain
<1>9. ASSUME NEW j \in 1 .. b PROVE f[j] = H[j][f[j-1]]
  <2>1. j-1 \in 0 .. b /\ j-1 # b /\ f[j-1] = g[j-1]
    BY <1>5
  <2>2. CASE j = b
    BY <2>1, <2>2
  <2>3. CASE j # b
    <3>1. j \in 1 .. b-1 /\ j \in 0 .. b
      BY <1>5, <2>3
    <3> QED  BY <1>4, <2>1, <2>3, <3>1 DEF Chain
  <2> QED  BY <2>2, <2>3
<1>10. Chain(f, b, D, x, H)
  <2> HIDE DEF f
  <2> QED  BY <1>7, <1>8, <1>9 DEF Chain
<1> QED  BY <1>10

(***************************************************************************)
(* Where every step adds to a set, the elements of which are no more than  *)
(* the steps, the last one adds nothing.                                   *)
(***************************************************************************)
Adds(H, U) == \A k \in Nat : H[k] = H[0] /\ \A T \in SUBSET U : T \subseteq H[k][T]

LEMMA Saturation ==
  ASSUME NEW n \in Nat, NEW U, IsFiniteSet(U), Cardinality(U) <= n, NEW H, StepsOf(H, SUBSET U),
         Adds(H, U), NEW x, NEW f, Chain(f, n, SUBSET U, x, H)
  PROVE  H[0][f[n]] = f[n] /\ x \subseteq f[n]
<1> DEFINE h == H[0]
           B == {k \in 0 .. n : ~ (x \subseteq f[k] /\ (h[f[k]] = f[k] \/ Cardinality(f[k]) >= k))}
<1>0. \A T \in SUBSET U : IsFiniteSet(T) /\ Cardinality(T) \in Nat
  BY FS_Subset, FS_CardinalityType
<1>1. h \in [SUBSET U -> SUBSET U] /\ \A T \in SUBSET U : T \subseteq h[T]
  BY DEF StepsOf, Adds
<1>2. /\ f \in [0 .. n -> SUBSET U] /\ f[0] = x
      /\ \A k \in 1 .. n : f[k] = h[f[k-1]]
  <2>1. \A k \in 1 .. n : H[k] = h
    BY DEF Adds
  <2> HIDE DEF h
  <2> QED  BY <2>1 DEF Chain
<1> HIDE DEF h
<1>3. B = {}
  <2> SUFFICES ASSUME B # {} PROVE FALSE
    OBVIOUS
  <2>1. PICK b \in B : \A k \in B : b <= k
    <3>1. B \subseteq Nat
      OBVIOUS
    <3> HIDE DEF B
    <3> QED  BY <3>1, LeastOf
  <2>2. b # 0
    BY <1>0, <1>2
  <2>3. b-1 \in 0 .. n /\ b-1 \notin B /\ b \in 1 .. n
    BY <2>1, <2>2
  <2>4. f[b] = h[f[b-1]] /\ f[b-1] \in SUBSET U /\ f[b] \in SUBSET U
    BY <1>2, <2>3
  <2>5. f[b-1] \subseteq f[b] /\ x \subseteq f[b]
    BY <1>1, <2>3, <2>4
  <2>6. CASE h[f[b-1]] = f[b-1]
    BY <2>4, <2>5, <2>6
  <2>7. CASE h[f[b-1]] # f[b-1]
    <3>1. Cardinality(f[b-1]) >= b-1
      BY <2>3, <2>7
    <3>2. f[b-1] \in SUBSET f[b] /\ f[b-1] # f[b]
      BY <2>4, <2>5, <2>7
    <3>3. Cardinality(f[b-1]) <= Cardinality(f[b]) /\ Cardinality(f[b-1]) # Cardinality(f[b])
      BY <1>0, <2>4, <3>2, FS_Subset
    <3>4. Cardinality(f[b]) >= b
      BY <1>0, <2>3, <2>4, <3>1, <3>3
    <3> QED  BY <2>1, <2>5, <3>4
  <2> QED  BY <2>6, <2>7
<1>4. n \in 0 .. n /\ f[n] \in SUBSET U
  BY <1>2
<1>5. CASE Cardinality(f[n]) >= n
  <2>1. Cardinality(f[n]) <= Cardinality(U) /\ Cardinality(U) \in Nat /\ Cardinality(f[n]) \in Nat
    BY <1>0, <1>4, FS_Subset, FS_CardinalityType
  <2>2. Cardinality(U) = Cardinality(f[n])
    BY <1>5, <2>1
  <2>3. U = f[n]
    BY <1>4, <2>2, FS_Subset
  <2>4. h[f[n]] \in SUBSET U /\ f[n] \subseteq h[f[n]]
    BY <1>1, <1>4
  <2> QED  BY <1>3, <1>4, <2>3, <2>4 DEF h
<1> QED  BY <1>3, <1>4, <1>5 DEF h

(***************************************************************************)
(* What goes by the same steps wherever it is in the set is the chain.     *)
(***************************************************************************)
Goes(g, n, D, x, H) == g[0] = x /\ \A k \in 1 .. n : g[k-1] \in D => g[k] = H[k][g[k-1]]

LEMMA OneChain ==
  ASSUME NEW n \in Nat, NEW D, NEW x \in D, NEW H, StepsOf(H, D), NEW f, Chain(f, n, D, x, H),
         NEW g, Goes(g, n, D, x, H)
  PROVE  \A k \in 0 .. n : g[k] = f[k]
<1> DEFINE B == {k \in 0 .. n : g[k] # f[k]}
<1> SUFFICES ASSUME B # {} PROVE FALSE
  OBVIOUS
<1>1. PICK b \in B : \A k \in B : b <= k
  <2>1. B \subseteq Nat
    OBVIOUS
  <2> HIDE DEF B
  <2> QED  BY <2>1, LeastOf
<1>2. b # 0
  BY DEF Chain, Goes
<1>3. b-1 \in 0 .. n /\ b-1 \notin B /\ b \in 1 .. n
  BY <1>1, <1>2
<1>4. g[b-1] = f[b-1] /\ f[b-1] \in D
  BY <1>3 DEF Chain
<1> QED  BY <1>1, <1>3, <1>4 DEF Chain, Goes

\* the units that were read are a sequence
UnitsListed(p) == Len(p.units) \in Nat /\ Units(p) = 1 .. Len(p.units)

-----------------------------------------------------------------------------
(* Folds, and the models of clauses *)

(***************************************************************************)
(* Folds.  The community modules fold over the subsets T of a finite set:  *)
(* an element ch[T] is taken, and the step H[T] is applied to what the     *)
(* rest gives.  D[T] is where what T gives has to be.                      *)
(***************************************************************************)
FoldSteps(U, D, ch, H) ==
  \A T \in SUBSET U : T # {} => ch[T] \in T /\ \A q \in D[T \ {ch[T]}] : H[T][q] \in D[T]

FoldGoes(g, U, D, x, ch, H) ==
  /\ g[{}] = x
  /\ \A T \in SUBSET U : T # {} /\ g[T \ {ch[T]}] \in D[T \ {ch[T]}] => g[T] = H[T][g[T \ {ch[T]}]]

\* what a fold gives for the sets of at most n elements
Folded(g, U, n, D, x, ch, H) ==
  /\ DOMAIN g = {T \in SUBSET U : Cardinality(T) <= n}
  /\ \A T \in DOMAIN g : g[T] \in D[T] /\ g[T] = IF T = {} THEN x ELSE H[T][g[T \ {ch[T]}]]

LEMMA SmallerSet ==
  ASSUME NEW U, IsFiniteSet(U), NEW T \in SUBSET U, NEW c \in T
  PROVE  /\ T \ {c} \in SUBSET U /\ Cardinality(T) \in Nat /\ Cardinality(T \ {c}) = Cardinality(T) - 1
         /\ Cardinality(T \ {c}) \in Nat
<1>1. IsFiniteSet(T)
  BY FS_Subset
<1> QED  BY <1>1, FS_CardinalityType, FS_RemoveElement

LEMMA FoldStays ==
  ASSUME NEW U, IsFiniteSet(U), NEW D, NEW ch, NEW H, FoldSteps(U, D, ch, H), NEW x \in D[{}],
         NEW g, FoldGoes(g, U, D, x, ch, H), NEW S \in SUBSET U
  PROVE  g[S] \in D[S]
<1> DEFINE B == {n \in Nat : \E T \in SUBSET U : Cardinality(T) = n /\ g[T] \notin D[T]}
<1>1. B = {}
  <2> SUFFICES ASSUME B # {} PROVE FALSE
    OBVIOUS
  <2>1. PICK n \in B : \A k \in B : n <= k
    <3>1. B \subseteq Nat
      OBVIOUS
    <3> HIDE DEF B
    <3> QED  BY <3>1, LeastOf
  <2>2. PICK T \in SUBSET U : Cardinality(T) = n /\ g[T] \notin D[T]
    BY <2>1
  <2>3. T # {}
    BY <2>2 DEF FoldGoes
  <2>4. ch[T] \in T /\ \A q \in D[T \ {ch[T]}] : H[T][q] \in D[T]
    BY <2>3 DEF FoldSteps
  <2>5. T \ {ch[T]} \in SUBSET U /\ Cardinality(T \ {ch[T]}) = n - 1 /\ n - 1 \in Nat /\ n \in Nat
    <3>1. T \in SUBSET U /\ ch[T] \in T
      BY <2>4
    <3>2. /\ T \ {ch[T]} \in SUBSET U /\ Cardinality(T) \in Nat
          /\ Cardinality(T \ {ch[T]}) = Cardinality(T) - 1 /\ Cardinality(T \ {ch[T]}) \in Nat
      BY <3>1, SmallerSet
    <3> QED  BY <2>2, <3>2
  <2>6. n - 1 \notin B
    BY <2>1, <2>5
  <2>7. g[T \ {ch[T]}] \in D[T \ {ch[T]}]
    BY <2>5, <2>6
  <2>8. g[T] = H[T][g[T \ {ch[T]}]]
    BY <2>3, <2>7 DEF FoldGoes
  <2> QED  BY <2>2, <2>4, <2>7, <2>8
<1>2. Cardinality(S) \in Nat
  BY FS_Subset, FS_CardinalityType
<1> QED  BY <1>1, <1>2

LEMMA FoldBounded ==
  ASSUME NEW U, IsFiniteSet(U), NEW D, NEW ch, NEW H, FoldSteps(U, D, ch, H), NEW x \in D[{}],
         NEW n \in Nat
  PROVE  \E f : Folded(f, U, n, D, x, ch, H)
<1> DEFINE B == {k \in Nat : ~ \E f : Folded(f, U, k, D, x, ch, H)}
<1> SUFFICES ASSUME B # {} PROVE FALSE
  OBVIOUS
<1>1. PICK b \in B : \A k \in B : b <= k
  <2>1. B \subseteq Nat
    OBVIOUS
  <2> HIDE DEF B
  <2> QED  BY <2>1, LeastOf
<1>2. \A T \in SUBSET U : Cardinality(T) \in Nat /\ (Cardinality(T) = 0 <=> T = {})
  BY FS_Subset, FS_CardinalityType, FS_EmptySet
<1>3. b # 0
  <2> SUFFICES ASSUME b = 0 PROVE FALSE
    OBVIOUS
  <2> DEFINE f == [T \in {{}} |-> x]
  <2>1. {T \in SUBSET U : Cardinality(T) <= 0} = {{}}
    BY <1>2
  <2>2. Folded(f, U, 0, D, x, ch, H)
    BY <2>1 DEF Folded
  <2> QED  BY <1>1, <2>2
<1>4. b \in Nat /\ b - 1 \in Nat
  BY <1>1, <1>3
<1>5. b - 1 \notin B
  BY <1>1, <1>4
<1>6. PICK g : Folded(g, U, b - 1, D, x, ch, H)
  BY <1>4, <1>5
<1> DEFINE f == [T \in {R \in SUBSET U : Cardinality(R) <= b} |->
                   IF T = {} THEN x ELSE H[T][g[T \ {ch[T]}]]]
<1>7. ASSUME NEW T \in SUBSET U, Cardinality(T) <= b
      PROVE  /\ f[T] \in D[T]
             /\ T # {} => f[T \ {ch[T]}] = g[T \ {ch[T]}]
             /\ T # {} => T \ {ch[T]} \in DOMAIN f
  <2>1. CASE T = {}
    BY <1>7, <2>1
  <2>2. CASE T # {}
    <3> DEFINE R == T \ {ch[T]}
    <3>1. ch[T] \in T /\ \A q \in D[R] : H[T][q] \in D[T]
      BY <2>2 DEF FoldSteps
    <3>2. R \in SUBSET U /\ Cardinality(R) \in Nat /\ Cardinality(R) <= b - 1
      BY <1>4, <1>7, <3>1, SmallerSet
    <3> HIDE DEF R
    <3>3. g[R] \in D[R] /\ g[R] = IF R = {} THEN x ELSE H[R][g[R \ {ch[R]}]]
      BY <1>6, <3>2 DEF Folded
    <3>4. R \in DOMAIN f /\ f[R] = IF R = {} THEN x ELSE H[R][g[R \ {ch[R]}]]
      BY <1>4, <3>2
    <3>5. f[T] = H[T][g[R]]
      BY <1>7, <2>2 DEF R
    <3> HIDE DEF f
    <3> QED  BY <3>1, <3>3, <3>4, <3>5 DEF R
  <2> QED  BY <2>1, <2>2
<1>8. Folded(f, U, b, D, x, ch, H)
  <2>1. DOMAIN f = {R \in SUBSET U : Cardinality(R) <= b}
    OBVIOUS
  <2>2. \A T \in DOMAIN f : f[T] = IF T = {} THEN x ELSE H[T][g[T \ {ch[T]}]]
    OBVIOUS
  <2> HIDE DEF f
  <2> QED  BY <1>7, <2>1, <2>2 DEF Folded
<1> QED  BY <1>1, <1>8

\* what a fold gives for all subsets
FoldIs(f, U, D, x, ch, H) ==
  /\ f = [T \in SUBSET U |-> f[T]] /\ \A T \in SUBSET U : f[T] \in D[T]
  /\ \A T \in SUBSET U : f[T] = IF T = {} THEN x ELSE H[T][f[T \ {ch[T]}]]

LEMMA FoldExists ==
  ASSUME NEW U, IsFiniteSet(U), NEW D, NEW ch, NEW H, FoldSteps(U, D, ch, H), NEW x \in D[{}]
  PROVE  \E f : FoldIs(f, U, D, x, ch, H)
<1>1. Cardinality(U) \in Nat /\ \A T \in SUBSET U : Cardinality(T) \in Nat /\ Cardinality(T) <= Cardinality(U)
  BY FS_Subset, FS_CardinalityType
<1>2. PICK f : Folded(f, U, Cardinality(U), D, x, ch, H)
  BY <1>1, FoldBounded
<1>3. {T \in SUBSET U : Cardinality(T) <= Cardinality(U)} = SUBSET U
  BY <1>1
<1> DEFINE g == [T \in SUBSET U |-> f[T]]
<1>4. ASSUME NEW T \in SUBSET U
      PROVE  g[T] \in D[T] /\ g[T] = IF T = {} THEN x ELSE H[T][g[T \ {ch[T]}]]
  <2>1. f[T] \in D[T] /\ f[T] = IF T = {} THEN x ELSE H[T][f[T \ {ch[T]}]]
    BY <1>2, <1>3 DEF Folded
  <2>2. \A R \in SUBSET U : g[R] = f[R]
    OBVIOUS
  <2> HIDE DEF g
  <2>3. T \ {ch[T]} \in SUBSET U
    OBVIOUS
  <2> QED  BY <2>1, <2>2, <2>3
<1>5. g = [T \in SUBSET U |-> g[T]]
  OBVIOUS
<1> HIDE DEF g
<1>6. FoldIs(g, U, D, x, ch, H)
  BY <1>4, <1>5 DEF FoldIs
<1> QED  BY <1>6

\* the elements of S, each of them once
Lists(q, S) == q \in Seq(S) /\ Range(q) = S /\ \A i, j \in DOMAIN q : q[i] = q[j] => i = j

LEMMA ListedOnce == ASSUME NEW S, IsFiniteSet(S) PROVE Lists(Listed(S), S)
<1> DEFINE some(T) == CHOOSE y \in T : TRUE
           E(f) == f = [T \in SUBSET S |-> IF T = {} THEN << >> ELSE Append(f[T \ {some(T)}], some(T))]
           iter == CHOOSE f : E(f)
           ch == [T \in SUBSET S |-> some(T)]
           D == [T \in SUBSET S |-> {q \in Seq(T) : Lists(q, T)}]
           H == [T \in SUBSET S |-> [q \in D[T \ {ch[T]}] |-> Append(q, ch[T])]]
<1>1. Listed(S) = iter[S]
  BY DEF Listed, FoldSet, MapThenFoldSet
<1>2. \A T \in SUBSET S : D[T] = {q \in Seq(T) : Lists(q, T)}
  OBVIOUS
<1>3. \A T \in SUBSET S : ch[T] = some(T)
  OBVIOUS
<1>4. \A T \in SUBSET S : T # {} => ch[T] \in T
  BY <1>3
<1>5. \A T \in SUBSET S : \A q \in D[T \ {ch[T]}] : H[T][q] = Append(q, ch[T])
  OBVIOUS
<1>6. << >> \in D[{}]
  BY <1>2 DEF Lists, Range
<1> HIDE DEF D, ch, H, some
<1>7. FoldSteps(S, D, ch, H)
  <2> SUFFICES ASSUME NEW T \in SUBSET S, T # {}, NEW q \in D[T \ {ch[T]}] PROVE H[T][q] \in D[T]
    BY <1>4 DEF FoldSteps
  <2>1. ch[T] \in T /\ q \in Seq(T \ {ch[T]}) /\ Lists(q, T \ {ch[T]})
    BY <1>2, <1>4
  <2> DEFINE y == ch[T]
             r == Append(q, y)
  <2> HIDE DEF y
  <2>2. /\ r \in Seq(T) /\ Len(r) = Len(q) + 1 /\ r[Len(q) + 1] = y /\ Len(q) \in Nat
        /\ \A i \in 1 .. Len(q) : r[i] = q[i]
    BY <2>1 DEF y
  <2>3. DOMAIN r = 1 .. Len(q) + 1 /\ DOMAIN q = 1 .. Len(q)
    BY <2>1, <2>2
  <2> HIDE DEF r
  <2>4. \A i \in 1 .. Len(q) : q[i] \in T \ {y}
    BY <2>1, <2>3 DEF Lists, Range, y
  <2>5. \A i \in DOMAIN r : (i = Len(q) + 1 /\ r[i] = y) \/ (i \in 1 .. Len(q) /\ r[i] = q[i] /\ r[i] # y)
    BY <2>2, <2>3, <2>4
  <2>6. \A i, j \in DOMAIN r : r[i] = r[j] => i = j
    BY <2>1, <2>3, <2>5 DEF Lists
  <2>7. Range(r) = T
    <3>1. Range(q) = T \ {y} /\ y \in T
      BY <2>1 DEF Lists, y
    <3>2. \A i \in 1 .. Len(q) : i \in DOMAIN r /\ r[i] = q[i]
      BY <2>2, <2>3
    <3>3. Len(q) + 1 \in DOMAIN r
      BY <2>2, <2>3
    <3> QED  BY <2>2, <2>3, <2>5, <3>1, <3>2, <3>3 DEF Range
  <2>8. r \in D[T]
    BY <1>2, <2>2, <2>6, <2>7 DEF Lists
  <2> QED  BY <1>5, <2>8 DEF r, y
<1>8. PICK f : FoldIs(f, S, D, << >>, ch, H)
  BY <1>6, <1>7, FoldExists
<1>9. E(f)
  <2>1. ASSUME NEW T \in SUBSET S
        PROVE  f[T] = IF T = {} THEN << >> ELSE Append(f[T \ {some(T)}], some(T))
    <3>1. T \ {ch[T]} \in SUBSET S
      OBVIOUS
    <3>2. f[T] = (IF T = {} THEN << >> ELSE H[T][f[T \ {ch[T]}]]) /\ f[T \ {ch[T]}] \in D[T \ {ch[T]}]
      BY <1>8, <3>1 DEF FoldIs
    <3> QED  BY <1>3, <1>5, <3>2
  <2>2. f = [T \in SUBSET S |-> f[T]]
    BY <1>8 DEF FoldIs
  <2> QED  BY <2>1, <2>2
<1> HIDE DEF E
<1>10. E(iter)
  BY <1>9
<1> HIDE DEF iter
<1>11. FoldGoes(iter, S, D, << >>, ch, H)
  <2>1. ASSUME NEW T \in SUBSET S
        PROVE  iter[T] = IF T = {} THEN << >> ELSE Append(iter[T \ {some(T)}], some(T))
    BY <1>10 DEF E
  <2>2. iter[{}] = << >>
    BY <2>1
  <2>3. ASSUME NEW T \in SUBSET S, T # {}, iter[T \ {ch[T]}] \in D[T \ {ch[T]}]
        PROVE  iter[T] = H[T][iter[T \ {ch[T]}]]
    <3>1. H[T][iter[T \ {ch[T]}]] = Append(iter[T \ {ch[T]}], ch[T])
      BY <1>5, <2>3
    <3>2. iter[T] = Append(iter[T \ {some(T)}], some(T)) /\ ch[T] = some(T)
      BY <1>3, <2>1, <2>3
    <3> QED  BY <3>1, <3>2
  <2> QED  BY <2>2, <2>3 DEF FoldGoes
<1>12. iter[S] \in D[S]
  BY <1>6, <1>7, <1>11, FoldStays
<1> QED  BY <1>1, <1>2, <1>12

\* where the variables are in the list, and where the last one of a clause is
Placed(xs, X, place) == place \in [X -> DOMAIN xs] /\ \A x \in X : xs[place[x]] = x
LastPlaces(xs, clauses, place, last) ==
  \A c \in clauses : /\ last[c] \in 0 .. Len(xs) /\ (last[c] = 0 => c = {})
                     /\ \A l \in c : place[l[1]] <= last[c]

\* the assignments of the variables at T that satisfy the clauses that end there
PartModels(xs, clauses, last, T) ==
  {a \in SUBSET {xs[i] : i \in T} : \A c \in clauses : last[c] \in T => Satisfied(a, c)}

\* what Extend makes of the assignments A for the variable x at k
Extended(A, x, k, clauses, last) ==
  {a \in A \cup {b \cup {x} : b \in A} : \A c \in clauses : last[c] = k => Satisfied(a, c)}

LEMMA ExtendModels ==
  ASSUME NEW X, NEW xs, Lists(xs, X), NEW clauses, NEW place, Placed(xs, X, place),
         NEW last, LastPlaces(xs, clauses, place, last), \A c \in clauses : \A l \in c : l[1] \in X,
         NEW T \in SUBSET DOMAIN xs, NEW k \in T, \A j \in T : j <= k, NEW R, R = T \ {k},
         NEW x, x = xs[k], NEW A, A = PartModels(xs, clauses, last, R)
  PROVE  Extended(A, x, k, clauses, last) = PartModels(xs, clauses, last, T)
<1>1. Len(xs) \in Nat /\ DOMAIN xs = 1 .. Len(xs) /\ x \in X /\ place[x] = k /\ k \in 1 .. Len(xs)
  <2>1. Len(xs) \in Nat /\ DOMAIN xs = 1 .. Len(xs) /\ x \in X /\ k \in DOMAIN xs
    BY DEF Lists
  <2>2. place[x] \in DOMAIN xs /\ xs[place[x]] = xs[k]
    BY <2>1 DEF Placed
  <2> QED  BY <2>1, <2>2 DEF Lists
<1>2. ASSUME NEW c \in clauses, last[c] \in R
      PROVE  /\ \A b : Satisfied(b \cup {x}, c) <=> Satisfied(b, c)
             /\ \A b : Satisfied(b \ {x}, c) <=> Satisfied(b, c)
  <2>1. last[c] < k
    BY <1>1, <1>2
  <2>2. \A l \in c : l[1] # x
    <3> SUFFICES ASSUME NEW l \in c, l[1] = x PROVE FALSE
      OBVIOUS
    <3>1. place[x] <= last[c]
      BY DEF LastPlaces
    <3> QED  BY <1>1, <1>2, <2>1, <3>1
  <2> QED  BY <2>2 DEF Satisfied
<1> DEFINE V == {xs[i] : i \in T}
           W == {xs[i] : i \in R}
<1>3. V = W \cup {x}
  OBVIOUS
<1>4. \A a : a \in A <=> a \subseteq W /\ \A c \in clauses : last[c] \in R => Satisfied(a, c)
  BY DEF PartModels
<1>5. \A a : a \in PartModels(xs, clauses, last, T) <=>
               a \subseteq V /\ \A c \in clauses : last[c] \in T => Satisfied(a, c)
  BY DEF PartModels
<1>6. \A c \in clauses : last[c] \in T <=> last[c] \in R \/ last[c] = k
  OBVIOUS
<1> HIDE DEF V, W
<1>7. ASSUME NEW a \in PartModels(xs, clauses, last, T)
      PROVE  /\ a \in A \/ \E b \in A : a = b \cup {x}
             /\ \A c \in clauses : last[c] = k => Satisfied(a, c)
  <2>1. CASE x \in a
    <3> DEFINE b == a \ {x}
    <3>1. b \subseteq W /\ a = b \cup {x}
      BY <1>3, <1>5, <2>1
    <3>2. \A c \in clauses : last[c] \in R => Satisfied(b, c)
      BY <1>2, <1>5, <1>6
    <3>3. b \in A
      BY <1>4, <3>1, <3>2
    <3> QED  BY <1>5, <1>6, <3>1, <3>3
  <2>2. CASE x \notin a
    <3>1. a \subseteq W
      BY <1>3, <1>5, <2>2
    <3> QED  BY <1>4, <1>5, <1>6, <3>1
  <2> QED  BY <2>1, <2>2
<1>8. ASSUME NEW a, a \in A \/ \E b \in A : a = b \cup {x},
             \A c \in clauses : last[c] = k => Satisfied(a, c)
      PROVE  a \in PartModels(xs, clauses, last, T)
  <2>1. a \subseteq V
    BY <1>3, <1>4, <1>8
  <2>2. \A c \in clauses : last[c] \in R => Satisfied(a, c)
    BY <1>2, <1>4, <1>8
  <2> QED  BY <1>5, <1>6, <1>8, <2>1, <2>2
<1>9. \A a : a \in Extended(A, x, k, clauses, last) <=>
               /\ a \in A \/ \E b \in A : a = b \cup {x}
               /\ \A c \in clauses : last[c] = k => Satisfied(a, c)
  BY DEF Extended
<1>10. \A a : a \in Extended(A, x, k, clauses, last) <=> a \in PartModels(xs, clauses, last, T)
  BY <1>7, <1>8, <1>9
<1> QED  BY <1>10

(***************************************************************************)
(* ModelsOf is exact: it gives the models of the clauses over the listed   *)
(* variables, all of them and no other assignments.                        *)
(***************************************************************************)
THEOREM ModelsExact ==
  ASSUME NEW X, NEW xs, Lists(xs, X), NEW clauses, \A c \in clauses : \A l \in c : l[1] \in X
  PROVE  ModelsOf(xs, clauses) = {a \in SUBSET X : AllSatisfied(a, clauses)}
<1> DEFINE place == [x \in Range(xs) |-> CHOOSE k \in DOMAIN xs : xs[k] = x]
           last == [c \in clauses |-> Max({0} \cup {place[l[1]] : l \in c})]
           due == [k \in 0..Len(xs) |-> {c \in clauses : last[c] = k}]
           Extend(A, x) == LET d == due[place[x]]
                           IN  {a \in A \cup {b \cup {x} : b \in A} : \A c \in d : Satisfied(a, c)}
           n == Len(xs)
           U == DOMAIN xs
           E(f) == f = [T \in SUBSET U |-> IF T = {} THEN {{}} ELSE Extend(f[T \ {Max(T)}], xs[Max(T)])]
           iter == CHOOSE f : E(f)
<1>1. ModelsOf(xs, clauses) = IF due[0] # {} THEN {} ELSE iter[U]
  BY DEF ModelsOf, FoldLeft, MapThenFoldSet
<1>2. n \in Nat /\ U = 1 .. n /\ Range(xs) = X
  BY DEF Lists
<1>3. Placed(xs, X, place)
  <2>1. \A x \in X : \E k \in U : xs[k] = x
    BY <1>2 DEF Range
  <2>2. \A x \in X : place[x] \in U /\ xs[place[x]] = x
    BY <1>2, <2>1
  <2> QED  BY <1>2, <2>2 DEF Placed
<1> HIDE DEF place
<1>4. LastPlaces(xs, clauses, place, last)
  <2> SUFFICES ASSUME NEW c \in clauses
               PROVE  /\ last[c] \in 0 .. n /\ (last[c] = 0 => c = {})
                      /\ \A l \in c : place[l[1]] <= last[c]
    BY DEF LastPlaces
  <2> DEFINE P == {0} \cup {place[l[1]] : l \in c}
  <2>1. \A l \in c : place[l[1]] \in P /\ place[l[1]] \in 1 .. n
    BY <1>2, <1>3 DEF Placed
  <2>2. P \subseteq 0 .. n /\ P # {}
    BY <1>2, <2>1
  <2>3. last[c] = Max(P)
    OBVIOUS
  <2> HIDE DEF P, last
  <2>4. Max(P) \in P /\ \A y \in P : y <= Max(P)
    BY <1>2, <2>2, GreatestOf
  <2>5. last[c] \in 0 .. n /\ \A l \in c : place[l[1]] <= last[c]
    BY <2>1, <2>2, <2>3, <2>4
  <2>6. ASSUME last[c] = 0, NEW l \in c PROVE FALSE
    <3>1. place[l[1]] \in 1 .. n /\ place[l[1]] <= 0
      BY <2>1, <2>5, <2>6
    <3> QED  BY <1>2, <3>1
  <2> QED  BY <2>5, <2>6
<1>5. /\ \A c \in clauses : last[c] \in 0 .. n
      /\ \A k \in 0 .. n : due[k] = {c \in clauses : last[c] = k}
  BY <1>4 DEF LastPlaces
<1> HIDE DEF last, due
<1> DEFINE ch == [T \in SUBSET U |-> Max(T)]
           D == [T \in SUBSET U |-> {PartModels(xs, clauses, last, T)}]
           H == [T \in SUBSET U |-> [q \in D[T \ {Max(T)}] |-> Extend(q, xs[Max(T)])]]
<1>6. \A T \in SUBSET U : /\ D[T] = {PartModels(xs, clauses, last, T)} /\ ch[T] = Max(T)
                          /\ \A q \in D[T \ {Max(T)}] : H[T][q] = Extend(q, xs[Max(T)])
  OBVIOUS
<1>7. \A T \in SUBSET U : T # {} => Max(T) \in T /\ \A j \in T : j <= Max(T)
  <2>1. \A T \in SUBSET U : T \subseteq 0 .. n
    BY <1>2
  <2> QED  BY <1>2, <2>1, GreatestOf
<1>8. {{}} \in D[{}]
  <2>1. \A c \in clauses : last[c] \notin {}
    OBVIOUS
  <2>2. PartModels(xs, clauses, last, {}) = {{}}
    BY <2>1 DEF PartModels
  <2> QED  BY <1>6, <2>2
<1>9. ASSUME NEW k \in U, NEW A PROVE Extend(A, xs[k]) = Extended(A, xs[k], k, clauses, last)
  <2>1. place[xs[k]] = k
    <3>1. xs[k] \in X /\ k \in DOMAIN xs
      BY DEF Lists
    <3>2. place[xs[k]] \in DOMAIN xs /\ xs[place[xs[k]]] = xs[k]
      BY <1>3, <3>1 DEF Placed
    <3> QED  BY <3>1, <3>2 DEF Lists
  <2>2. due[place[xs[k]]] = {c \in clauses : last[c] = k}
    BY <1>2, <1>5, <2>1
  <2> QED  BY <2>2 DEF Extended
<1> HIDE DEF D, ch, H, Extend
<1>10. FoldSteps(U, D, ch, H)
  <2> SUFFICES ASSUME NEW T \in SUBSET U, T # {}
               PROVE  ch[T] \in T /\ \A q \in D[T \ {ch[T]}] : H[T][q] \in D[T]
    BY DEF FoldSteps
  <2> DEFINE k == Max(T)
  <2>1. k \in T /\ k \in U /\ \A j \in T : j <= k
    BY <1>7
  <2>2. ch[T] = k
    BY <1>6
  <2>3. T \ {k} \in SUBSET U
    OBVIOUS
  <2> HIDE DEF k
  <2>4. ASSUME NEW q \in D[T \ {k}] PROVE Extend(q, xs[k]) = PartModels(xs, clauses, last, T)
    <3>1. q = PartModels(xs, clauses, last, T \ {k})
      BY <1>6, <2>3
    <3> DEFINE R == T \ {k}
               x == xs[k]
    <3> HIDE DEF R, x
    <3>2. T \in SUBSET DOMAIN xs /\ R = T \ {k} /\ x = xs[k] /\ q = PartModels(xs, clauses, last, R)
      BY <3>1 DEF R, x
    <3>3. Extended(q, x, k, clauses, last) = PartModels(xs, clauses, last, T)
      BY <1>3, <1>4, <2>1, <3>2, ExtendModels
    <3> QED  BY <1>9, <2>1, <3>2, <3>3
  <2>5. \A q \in D[T \ {k}] : H[T][q] = Extend(q, xs[k])
    BY <1>6 DEF k
  <2> QED  BY <1>6, <2>1, <2>2, <2>4, <2>5
<1>11. IsFiniteSet(U)
  BY <1>2, FS_Interval
<1>12. PICK f : FoldIs(f, U, D, {{}}, ch, H)
  BY <1>8, <1>10, <1>11, FoldExists
<1>13. E(f)
  <2>1. ASSUME NEW T \in SUBSET U
        PROVE  f[T] = IF T = {} THEN {{}} ELSE Extend(f[T \ {Max(T)}], xs[Max(T)])
    <3>1. T \ {ch[T]} \in SUBSET U
      OBVIOUS
    <3>2. f[T] = (IF T = {} THEN {{}} ELSE H[T][f[T \ {ch[T]}]]) /\ f[T \ {ch[T]}] \in D[T \ {ch[T]}]
      BY <1>12, <3>1 DEF FoldIs
    <3> QED  BY <1>6, <3>2
  <2>2. f = [T \in SUBSET U |-> f[T]]
    BY <1>12 DEF FoldIs
  <2> QED  BY <2>1, <2>2
<1> HIDE DEF E
<1>14. E(iter)
  BY <1>13
<1> HIDE DEF iter
<1>15. FoldGoes(iter, U, D, {{}}, ch, H)
  <2>1. ASSUME NEW T \in SUBSET U
        PROVE  iter[T] = IF T = {} THEN {{}} ELSE Extend(iter[T \ {Max(T)}], xs[Max(T)])
    BY <1>14 DEF E
  <2>2. iter[{}] = {{}}
    BY <2>1
  <2>3. ASSUME NEW T \in SUBSET U, T # {}, iter[T \ {ch[T]}] \in D[T \ {ch[T]}]
        PROVE  iter[T] = H[T][iter[T \ {ch[T]}]]
    <3>1. ch[T] = Max(T)
      BY <1>6
    <3>2. H[T][iter[T \ {ch[T]}]] = Extend(iter[T \ {ch[T]}], xs[ch[T]])
      BY <1>6, <2>3, <3>1
    <3>3. iter[T] = Extend(iter[T \ {Max(T)}], xs[Max(T)])
      BY <2>1, <2>3
    <3> QED  BY <3>1, <3>2, <3>3
  <2> QED  BY <2>2, <2>3 DEF FoldGoes
<1>16. iter[U] \in D[U]
  BY <1>8, <1>10, <1>11, <1>15, FoldStays
<1>17. iter[U] = PartModels(xs, clauses, last, U)
  BY <1>6, <1>16
<1>18. {xs[i] : i \in U} = X
  BY <1>2 DEF Range
<1>19. CASE due[0] # {}
  <2>1. PICK c \in clauses : last[c] = 0
    BY <1>2, <1>5, <1>19
  <2>2. c = {}
    BY <1>4, <2>1 DEF LastPlaces
  <2> QED  BY <1>1, <1>19, <2>2 DEF AllSatisfied, Satisfied
<1>20. CASE due[0] = {}
  <2>1. \A c \in clauses : last[c] \in U
    BY <1>2, <1>5, <1>20
  <2> QED  BY <1>1, <1>17, <1>18, <1>20, <2>1 DEF PartModels, AllSatisfied
<1> QED  BY <1>19, <1>20

-----------------------------------------------------------------------------
(* The packages that are not removed *)

\* what a conjunct with one disjunct asks for is its first
DependsListed(s) ==
  \A i \in s.needed : \A k \in DOMAIN Unit(s, i).depends :
    DOMAIN Unit(s, i).depends[k] = 1 .. Len(Unit(s, i).depends[k])

\* the name is one of a feature, or the installation has a package of that name
StaysIn(s, I, n) == IsFeature(s.pr, n) \/ \E j \in I : Unit(s, j).name = n

LEMMA AnswerStays ==
  ASSUME NEW s, NEW I, I \subseteq Units(s.pr), NEW vp, \E j \in I : Answers(s, j, vp)
  PROVE  StaysIn(s, I, vp.name)
<1>1. PICK j \in I : Answers(s, j, vp)
  OBVIOUS
<1>2. \A f \in Provided(s.pr, j) : f \in AllProvided(s.pr)
  BY DEF AllProvided
<1> QED  BY <1>1, <1>2 DEF Answers, IsFeature, StaysIn

LEMMA RequiredStays ==
  ASSUME NEW s, NEW m, WellPosed(s, m), DependsListed(s), NEW I, I \subseteq s.needed, DependsMet(s, I),
         NEW n, StaysIn(s, I, n), NEW r \in RequiredNames(s, n)
  PROVE  StaysIn(s, I, r)
<1>1. PICK i \in NeededUnits(s, n) : r \in UnitRequirements(s, i)
  BY DEF RequiredNames
<1>2. ~ IsFeature(s.pr, n)
  BY <1>1 DEF NeededUnits, WellPosed
<1>3. PICK j \in I : Unit(s, j).name = n
  BY <1>2 DEF StaysIn
<1>4. j \in NeededUnits(s, n)
  BY <1>3 DEF NeededUnits
<1>5. r \in UnitRequirements(s, j)
  BY <1>4 DEF RequiredNames
<1> DEFINE depends == Unit(s, j).depends
<1>6. PICK k \in DOMAIN depends : Len(depends[k]) = 1 /\ r = depends[k][1].name
  BY <1>5 DEF UnitRequirements
<1>7. DOMAIN depends[k] = 1 .. 1
  BY <1>6 DEF DependsListed
<1>8. PICK vp \in Range(depends[k]) : \E h \in I : Answers(s, h, vp)
  BY DEF DependsMet
<1>9. vp.name = r
  BY <1>6, <1>7, <1>8 DEF Range
<1>10. I \subseteq Units(s.pr)
  BY DEF WellPosed, Encodable
<1> QED  BY <1>8, <1>9, <1>10, AnswerStays

(***************************************************************************)
(* The packages that NotRemoved takes as given are in every installation   *)
(* of the needed units that meets the request and the dependencies.        *)
(***************************************************************************)
LEMMA NotRemovedStay ==
  ASSUME NEW s, NEW m, WellPosed(s, m), UnitsListed(s.pr), DependsListed(s),
         NEW I, I \subseteq s.needed, DependsMet(s, I), RequestMet(s, I), NEW r \in NotRemovedNames(s)
  PROVE  StaysIn(s, I, r)
<1> DEFINE n == Len(s.pr.units)
           requested == {vp.name : vp \in s.pr.install \cup Range(s.pr.upgrade)}
           S == {q \in requested : ~ IsFeature(s.pr, q)}
           U == {q \in requested \cup UNION {UnitRequirements(s, i) : i \in s.needed} : StaysIn(s, I, q)}
           Reached(T) == T \cup UNION {RequiredNames(s, q) : q \in T}
           H == [k \in Nat |-> [T \in SUBSET U |-> Reached(T)]]
           F == CHOOSE f : f = [k \in 0 .. n |-> IF k = 0 THEN S ELSE Reached(f[k-1])]
<1>1. NotRemovedNames(s) = F[n]
  BY DEF NotRemovedNames
<1>2. n \in Nat
  BY DEF UnitsListed
<1>3. \A q \in requested : StaysIn(s, I, q)
  <2>1. I \subseteq Units(s.pr)
    BY DEF WellPosed, Encodable
  <2> QED  BY <2>1, AnswerStays DEF RequestMet
<1>4. S \in SUBSET U
  BY <1>3
<1>5. \A T \in SUBSET U : Reached(T) \in SUBSET U
  <2> SUFFICES ASSUME NEW T \in SUBSET U, NEW q \in T, NEW x \in RequiredNames(s, q) PROVE x \in U
    OBVIOUS
  <2>1. StaysIn(s, I, x)
    BY RequiredStays
  <2>2. PICK i \in s.needed : x \in UnitRequirements(s, i)
    BY DEF RequiredNames, NeededUnits
  <2> QED  BY <2>1, <2>2
<1>6. \A q \in U : StaysIn(s, I, q)
  OBVIOUS
<1> HIDE DEF Reached, U, n, requested, S
<1>7. StepsOf(H, SUBSET U) /\ \A k \in Nat : \A T \in SUBSET U : H[k][T] = Reached(T)
  BY <1>5 DEF StepsOf
<1> HIDE DEF H
<1>8. PICK h : Chain(h, n, SUBSET U, S, H)
  BY <1>2, <1>4, <1>7, Iteration
<1>9. h = [k \in 0 .. n |-> IF k = 0 THEN S ELSE Reached(h[k-1])]
  <2>1. ASSUME NEW k \in 0 .. n PROVE h[k] = IF k = 0 THEN S ELSE Reached(h[k-1])
    <3>1. CASE k = 0
      BY <1>8, <3>1 DEF Chain
    <3>2. CASE k # 0
      <4>1. k \in 1 .. n /\ k \in Nat /\ k-1 \in 0 .. n
        BY <1>2, <3>2
      <4>2. h[k] = H[k][h[k-1]] /\ h[k-1] \in SUBSET U
        BY <1>8, <4>1 DEF Chain
      <4> QED  BY <1>7, <3>2, <4>1, <4>2
    <3> QED  BY <3>1, <3>2
  <2>2. h \in [0 .. n -> SUBSET U]
    BY <1>8 DEF Chain
  <2> QED  BY <2>1, <2>2
<1>10. F = [k \in 0 .. n |-> IF k = 0 THEN S ELSE Reached(F[k-1])]
  <2> DEFINE P(f) == f = [k \in 0 .. n |-> IF k = 0 THEN S ELSE Reached(f[k-1])]
  <2>1. P(h)
    BY <1>9
  <2>2. F = CHOOSE f : P(f)
    OBVIOUS
  <2> HIDE DEF F, P
  <2>3. P(F)
    BY <2>1, <2>2
  <2> QED  BY <2>3 DEF P
<1> HIDE DEF F
<1>11. Goes(F, n, SUBSET U, S, H)
  <2>1. ASSUME NEW k \in 0 .. n PROVE F[k] = IF k = 0 THEN S ELSE Reached(F[k-1])
    BY <1>10
  <2>2. 0 \in 0 .. n /\ \A k \in 1 .. n : k \in 0 .. n /\ k # 0 /\ k \in Nat
    BY <1>2
  <2> QED  BY <1>7, <2>1, <2>2 DEF Goes
<1>12. F[n] = h[n] /\ h[n] \in SUBSET U
  <2>1. n \in Nat /\ StepsOf(H, SUBSET U)
    BY <1>2, <1>7
  <2>2. \A k \in 0 .. n : F[k] = h[k]
    <3> DEFINE V == SUBSET U
    <3>1. S \in V /\ Chain(h, n, V, S, H) /\ Goes(F, n, V, S, H) /\ StepsOf(H, V)
      BY <1>4, <1>8, <1>11, <2>1
    <3> HIDE DEF V
    <3> QED  BY <2>1, <3>1, OneChain
  <2> QED  BY <1>8, <2>1, <2>2 DEF Chain
<1> QED  BY <1>1, <1>6, <1>12

(* Its clauses exclude nothing.                                            *)
LEMMA NotRemovedComplete ==
  ASSUME NEW s, NEW m \in Nat, WellPosed(s, m), UnitsListed(s.pr), DependsListed(s),
         NEW a, NEW C, Natural(s, a, C), \A c \in AssertNotRemoved(s) : c \subseteq UNION C,
         DependsMet(s, Chosen(s, a)), RequestMet(s, Chosen(s, a))
  PROVE  AllSatisfied(a, AssertNotRemoved(s))
<1> SUFFICES ASSUME NEW n \in NotRemovedNames(s) \cap NeededNames(s) PROVE Satisfied(a, RequireAny(s, n))
  BY DEF AssertNotRemoved, AllSatisfied
<1>1. PICK i \in s.needed : Unit(s, i).name = n
  BY DEF NeededNames
<1>2. ~ IsFeature(s.pr, n)
  BY <1>1 DEF WellPosed
<1>3. PICK j \in Chosen(s, a) : Unit(s, j).name = n
  <2>1. Chosen(s, a) \subseteq s.needed
    BY DEF Chosen
  <2>2. StaysIn(s, Chosen(s, a), n)
    BY <2>1, NotRemovedStay
  <2> QED  BY <1>2, <2>2 DEF StaysIn
<1> DEFINE v == Unit(s, j).version
           p == <<"u", UnitVersions(s, n)>>
<1>4. j \in s.needed /\ PV(n, v) \in a
  BY <1>3 DEF Chosen, UnitVar
<1>5. Versions(s, n) = UnitVersions(s, n)
  <2>1. Encodable(s, m)
    BY DEF WellPosed
  <2>2. ~ NeededFeature(s, n)
    BY <1>2, <2>1 DEF NeededFeature, IsFeature, Encodable, AllProvided
  <2> QED  BY <2>2 DEF Versions
<1>6. v \in UnitVersions(s, n)
  BY <1>3, <1>4 DEF UnitVersions, NeededUnits
<1>7. p[1] = "u" /\ p[2] = UnitVersions(s, n)
  OBVIOUS
<1>8. RequireAny(s, n) = RequirePart(n, p) /\ RequireAny(s, n) \subseteq UNION C
  BY DEF RequireAny, AssertNotRemoved
<1> HIDE DEF p, v
<1>9. PartOf(p, Versions(s, n))
  BY <1>5, <1>7 DEF PartOf
<1>10. Encodable(s, m)
  BY DEF WellPosed
<1>11. \E l \in RequirePart(n, p) : Holds(a, l)
  BY <1>4, <1>6, <1>7, <1>8, <1>9, <1>10, RequirePartComplete
<1> QED  BY <1>8, <1>11, ClauseHolds

-----------------------------------------------------------------------------
(* The clauses of the criteria *)

Words == {"new", "removed", "unmet_recommends", "notuptodate", "changed"}
CriteriaListed(s) == Len(s.lex) \in Nat /\ \A k \in 1 .. Len(s.lex) : s.lex[k].word \in Words

\* what the criteria put in clauses of their own
CriteriaHard(s) == UNION {EncodeCriterion(s, s.lex[k]).hard : k \in 1 .. Len(s.lex)}

\* what the fold of the criteria gives for the sets of at most n of them
LexFolded(g, s, xs, n) ==
  /\ DOMAIN g = {T \in SUBSET DOMAIN xs : Cardinality(T) <= n}
  /\ \A T \in DOMAIN g : g[T] = IF T = {} THEN Nothing ELSE AddCriterion(s, g[T \ {Max(T)}], xs[Max(T)])

LEMMA LexFoldExists ==
  ASSUME NEW s, NEW xs, NEW l \in Nat, DOMAIN xs = 1 .. l, NEW n \in Nat
  PROVE  \E f : LexFolded(f, s, xs, n)
<1> DEFINE U == DOMAIN xs
           B == {k \in Nat : ~ \E f : LexFolded(f, s, xs, k)}
<1> SUFFICES ASSUME B # {} PROVE FALSE
  OBVIOUS
<1>1. PICK b \in B : \A k \in B : b <= k
  <2>1. B \subseteq Nat
    OBVIOUS
  <2> HIDE DEF B
  <2> QED  BY <2>1, LeastOf
<1>0. IsFiniteSet(U)
  BY FS_Interval
<1>2. \A T \in SUBSET U : Cardinality(T) \in Nat /\ (Cardinality(T) = 0 <=> T = {})
  BY <1>0, FS_Subset, FS_CardinalityType, FS_EmptySet
<1>3. b # 0
  <2> SUFFICES ASSUME b = 0 PROVE FALSE
    OBVIOUS
  <2> DEFINE f == [T \in {{}} |-> Nothing]
  <2>1. {T \in SUBSET U : Cardinality(T) <= 0} = {{}}
    BY <1>2
  <2>2. LexFolded(f, s, xs, 0)
    BY <2>1 DEF LexFolded
  <2> QED  BY <1>1, <2>2
<1>4. b \in Nat /\ b - 1 \in Nat
  BY <1>1, <1>3
<1>5. b - 1 \notin B
  BY <1>1, <1>4
<1>6. PICK g : LexFolded(g, s, xs, b - 1)
  BY <1>4, <1>5
<1> DEFINE f == [T \in {R \in SUBSET U : Cardinality(R) <= b} |->
                   IF T = {} THEN Nothing ELSE AddCriterion(s, g[T \ {Max(T)}], xs[Max(T)])]
<1>7. ASSUME NEW T \in SUBSET U, T # {}, Cardinality(T) <= b
      PROVE  f[T \ {Max(T)}] = g[T \ {Max(T)}]
  <2> DEFINE R == T \ {Max(T)}
  <2>1. Max(T) \in T
    <3>1. T \subseteq 0 .. l
      OBVIOUS
    <3> QED  BY <1>7, <3>1, GreatestOf
  <2>2. R \in SUBSET U /\ Cardinality(R) \in Nat /\ Cardinality(R) <= b - 1
    <3>1. /\ R \in SUBSET U /\ Cardinality(T) \in Nat /\ Cardinality(R) = Cardinality(T) - 1
          /\ Cardinality(R) \in Nat
      BY <1>0, <2>1, SmallerSet
    <3> QED  BY <1>4, <1>7, <3>1
  <2> HIDE DEF R
  <2>3. g[R] = IF R = {} THEN Nothing ELSE AddCriterion(s, g[R \ {Max(R)}], xs[Max(R)])
    BY <1>6, <2>2 DEF LexFolded
  <2>4. f[R] = IF R = {} THEN Nothing ELSE AddCriterion(s, g[R \ {Max(R)}], xs[Max(R)])
    BY <1>4, <2>2
  <2> HIDE DEF f
  <2>5. f[R] = g[R]
    BY <2>3, <2>4
  <2> QED  BY <2>5 DEF R
<1>8. LexFolded(f, s, xs, b)
  <2>1. DOMAIN f = {R \in SUBSET U : Cardinality(R) <= b}
    OBVIOUS
  <2>2. \A T \in DOMAIN f : f[T] = IF T = {} THEN Nothing ELSE AddCriterion(s, g[T \ {Max(T)}], xs[Max(T)])
    OBVIOUS
  <2> HIDE DEF f
  <2> QED  BY <1>7, <2>1, <2>2 DEF LexFolded
<1> QED  BY <1>1, <1>8

(* What encode_lexicographic has after k criteria, from the last one on.   *)
LexSteps(g, s) ==
  /\ g[0] = Nothing /\ g[Len(s.lex)] = EncodeLexicographic(s)
  /\ \A k \in 1 .. Len(s.lex) : g[k] = AddCriterion(s, g[k - 1], s.lex[Len(s.lex) - k + 1])

LEMMA LexicographicSteps ==
  ASSUME NEW s, Len(s.lex) \in Nat
  PROVE  \E g : LexSteps(g, s)
<1> DEFINE n == Len(s.lex)
           xs == Reverse(s.lex)
           U == DOMAIN xs
           E(f) == f = [T \in SUBSET U |-> IF T = {} THEN Nothing
                                           ELSE AddCriterion(s, f[T \ {Max(T)}], xs[Max(T)])]
           iter == CHOOSE f : E(f)
<1>1. EncodeLexicographic(s) = iter[U]
  BY DEF EncodeLexicographic, FoldLeft, MapThenFoldSet
<1>2. U = 1 .. n /\ \A k \in 1 .. n : n - k + 1 \in 1 .. n /\ xs[k] = s.lex[n - k + 1]
  BY DEF Reverse
<1> HIDE DEF xs
<1>3. IsFiniteSet(U) /\ Cardinality(U) \in Nat /\ \A T \in SUBSET U : Cardinality(T) <= Cardinality(U)
  <2>1. U = 1 .. n /\ 1 \in Int /\ n \in Int
    BY <1>2
  <2> HIDE DEF U, n
  <2>2. IsFiniteSet(1 .. n)
    BY <2>1, FS_Interval
  <2>3. IsFiniteSet(U)
    BY <2>1, <2>2
  <2>4. \A T \in SUBSET U : Cardinality(T) <= Cardinality(U)
    BY <2>3, FS_Subset
  <2> QED  BY <2>3, <2>4, FS_CardinalityType
<1>4. PICK f : LexFolded(f, s, xs, Cardinality(U))
  BY <1>2, <1>3, LexFoldExists
<1>5. {T \in SUBSET U : Cardinality(T) <= Cardinality(U)} = SUBSET U
  BY <1>3
<1> DEFINE g == [T \in SUBSET U |-> f[T]]
<1>6. E(g)
  <2>1. ASSUME NEW T \in SUBSET U
        PROVE  g[T] = IF T = {} THEN Nothing ELSE AddCriterion(s, g[T \ {Max(T)}], xs[Max(T)])
    <3>1. f[T] = IF T = {} THEN Nothing ELSE AddCriterion(s, f[T \ {Max(T)}], xs[Max(T)])
      BY <1>4, <1>5 DEF LexFolded
    <3>2. \A R \in SUBSET U : g[R] = f[R]
      OBVIOUS
    <3> HIDE DEF g
    <3>3. T \ {Max(T)} \in SUBSET U
      OBVIOUS
    <3> QED  BY <3>1, <3>2, <3>3
  <2>2. g = [T \in SUBSET U |-> g[T]]
    OBVIOUS
  <2> HIDE DEF g
  <2> QED  BY <2>1, <2>2
<1> HIDE DEF E, g
<1>7. E(iter)
  BY <1>6
<1> HIDE DEF iter
<1>8. ASSUME NEW T \in SUBSET U
      PROVE  iter[T] = IF T = {} THEN Nothing ELSE AddCriterion(s, iter[T \ {Max(T)}], xs[Max(T)])
  BY <1>7 DEF E
<1> DEFINE h == [k \in 0 .. n |-> iter[1 .. k]]
<1>9. h[0] = Nothing
  <2>1. 1 .. 0 = {} /\ {} \in SUBSET U
    OBVIOUS
  <2>2. iter[{}] = Nothing
    BY <1>8, <2>1
  <2> QED  BY <2>1, <2>2
<1>10. h[n] = EncodeLexicographic(s)
  BY <1>1, <1>2
<1>11. ASSUME NEW k \in 1 .. n PROVE h[k] = AddCriterion(s, h[k - 1], s.lex[n - k + 1])
  <2> DEFINE T == 1 .. k
  <2>1. T \in SUBSET U /\ T # {} /\ Max(T) = k /\ T \ {k} = 1 .. k - 1 /\ k - 1 \in 0 .. n /\ k \in 0 .. n
    <3>1. k \in Nat /\ k # 0 /\ k <= n
      OBVIOUS
    <3>2. T # {} /\ Max(T) = k /\ T \ {k} = 1 .. k - 1 /\ k - 1 \in Nat
      BY <3>1, Initials
    <3> QED  BY <1>2, <3>1, <3>2
  <2>2. iter[T] = AddCriterion(s, iter[T \ {Max(T)}], xs[Max(T)])
    BY <1>8, <2>1
  <2>3. h[k] = iter[T] /\ h[k - 1] = iter[1 .. k - 1]
    BY <2>1
  <2> HIDE DEF T, h
  <2> QED  BY <1>2, <2>1, <2>2, <2>3
<1>12. LexSteps(h, s)
  <2> HIDE DEF h
  <2> QED  BY <1>9, <1>10, <1>11 DEF LexSteps
<1> QED  BY <1>12

(* The objectives add no clauses but those of the criteria.                *)
LEMMA LexicographicHard ==
  ASSUME NEW s, Len(s.lex) \in Nat
  PROVE  EncodeLexicographic(s).hard \subseteq CriteriaHard(s)
<1> DEFINE n == Len(s.lex)
<1>1. PICK g : LexSteps(g, s)
  BY LexicographicSteps
<1> DEFINE S == {k \in 0 .. n : g[k].hard \subseteq CriteriaHard(s)}
<1>2. 0 \in S
  BY <1>1 DEF LexSteps, Nothing
<1>3. ASSUME NEW k \in 1 .. n, k - 1 \in S PROVE k \in S
  <2>1. n - k + 1 \in 1 .. n /\ k \in 0 .. n
    OBVIOUS
  <2>2. g[k] = AddCriterion(s, g[k - 1], s.lex[n - k + 1])
    BY <1>1 DEF LexSteps
  <2>3. \A acc, c : AddCriterion(s, acc, c).hard = acc.hard \cup EncodeCriterion(s, c).hard
    BY DEF AddCriterion
  <2>4. EncodeCriterion(s, s.lex[n - k + 1]).hard \subseteq CriteriaHard(s)
    BY <2>1 DEF CriteriaHard
  <2> QED  BY <1>3, <2>1, <2>2, <2>3, <2>4
<1>4. n \in S
  <2>1. n \in Nat
    OBVIOUS
  <2> HIDE DEF n, S
  <2>2. \A k \in 1 .. n : k - 1 \in S => k \in S
    BY <1>3
  <2>3. 0 .. n \subseteq S
    BY <1>2, <2>1, <2>2, UpTo
  <2> QED  BY <2>1, <2>3
<1> QED  BY <1>1, <1>4 DEF LexSteps

InstalledKnown(s) == \A i \in s.needed : Unit(s, i).installed \in BOOLEAN

\* the variables of the criteria have the values they are defined to have,
\* and no recommendation is counted as broken
Completes(s, b) ==
  /\ \A n \in NeededNames(s) :
       /\ <<"any", n, 0>> \in b <=> \E v \in UnitVersions(s, n) : PV(n, v) \in b
       /\ <<"out", n, 0>> \in b <=> <<"any", n, 0>> \in b /\ NewestNeeded(s, n) \notin b
       /\ <<"unchanged", n, 0>> \in b <=>
            \A i \in NeededUnits(s, n) : UnitVar(s, i) \in b <=> Unit(s, i).installed
  /\ \A x \in b : x[1] \notin {"broken", "point"}

LEMMA OutOfDateHolds ==
  ASSUME NEW s, NEW b, Completes(s, b), NEW n \in NeededNames(s)
  PROVE  AllSatisfied(b, OutOfDate(s, n))
<1> DEFINE any == <<"any", n, 0>>
           out == <<"out", n, 0>>
           X == {PV(n, v) : v \in UnitVersions(s, n)}
           newest == NewestNeeded(s, n)
<1>1. OutOfDate(s, n) = {{Pos(any), Neg(x)} : x \in X}
        \cup {{Neg(any)} \cup {Pos(x) : x \in X},
              {Pos(out), Neg(any), Pos(newest)}, {Neg(out), Pos(any)}, {Neg(out), Neg(newest)}}
  BY DEF OutOfDate
<1>2. /\ any \in b <=> \E x \in X : x \in b
      /\ out \in b <=> any \in b /\ newest \notin b
  BY DEF Completes
<1> HIDE DEF any, out, X, newest
<1>3. \A x \in X : Satisfied(b, {Pos(any), Neg(x)})
  BY <1>2, ClauseHolds, LiteralHolds
<1>4. Satisfied(b, {Neg(any)} \cup {Pos(x) : x \in X})
  BY <1>2, ImplicationHolds
<1>5. Satisfied(b, {Pos(out), Neg(any), Pos(newest)})
  BY <1>2, ClauseHolds, LiteralHolds
<1>6. Satisfied(b, {Neg(out), Pos(any)}) /\ Satisfied(b, {Neg(out), Neg(newest)})
  BY <1>2, PairHolds
<1> SUFFICES ASSUME NEW c \in OutOfDate(s, n) PROVE Satisfied(b, c)
  BY DEF AllSatisfied
<1>7. CASE c \in {{Pos(any), Neg(x)} : x \in X}
  BY <1>3, <1>7
<1>8. CASE c \in {{Neg(any)} \cup {Pos(x) : x \in X},
                  {Pos(out), Neg(any), Pos(newest)}, {Neg(out), Pos(any)}, {Neg(out), Neg(newest)}}
  <2>1. \/ c = {Neg(any)} \cup {Pos(x) : x \in X} \/ c = {Pos(out), Neg(any), Pos(newest)}
        \/ c = {Neg(out), Pos(any)} \/ c = {Neg(out), Neg(newest)}
    BY <1>8, Zenon
  <2> QED  BY <1>4, <1>5, <1>6, <2>1, Zenon
<1> QED  BY <1>1, <1>7, <1>8

LEMMA UnchangedHolds ==
  ASSUME NEW s, InstalledKnown(s), NEW b, Completes(s, b), NEW n \in NeededNames(s)
  PROVE  AllSatisfied(b, Unchanged(s, n))
<1> DEFINE x == <<"unchanged", n, 0>>
           N == NeededUnits(s, n)
           L(i) == <<UnitVar(s, i), ~ Unit(s, i).installed>>
<1>1. Unchanged(s, n) = {{Neg(x), Not(L(i))} : i \in N} \cup {{Pos(x)} \cup {L(i) : i \in N}}
  BY DEF Unchanged
<1>2. x \in b <=> \A i \in N : UnitVar(s, i) \in b <=> Unit(s, i).installed
  BY DEF Completes
<1>3. \A i \in N : /\ Holds(b, L(i)) <=> ~ (UnitVar(s, i) \in b <=> Unit(s, i).installed)
                   /\ Holds(b, Not(L(i))) <=> (UnitVar(s, i) \in b <=> Unit(s, i).installed)
  <2> SUFFICES ASSUME NEW i \in N
               PROVE  /\ Holds(b, L(i)) <=> ~ (UnitVar(s, i) \in b <=> Unit(s, i).installed)
                      /\ Holds(b, Not(L(i))) <=> (UnitVar(s, i) \in b <=> Unit(s, i).installed)
    OBVIOUS
  <2> DEFINE y == UnitVar(s, i)
  <2>1. Unit(s, i).installed \in BOOLEAN
    BY DEF InstalledKnown, NeededUnits
  <2>2. CASE Unit(s, i).installed = TRUE
    <3>1. L(i) = Neg(y) /\ Not(L(i)) = Pos(y)
      BY <2>2 DEF Neg, Pos, Not
    <3> HIDE DEF L, y
    <3>2. /\ Holds(b, L(i)) <=> y \notin b
          /\ Holds(b, Not(L(i))) <=> y \in b
      BY <3>1, LiteralHolds
    <3> QED  BY <2>2, <3>2 DEF y
  <2>3. CASE Unit(s, i).installed = FALSE
    <3>1. L(i) = Pos(y) /\ Not(L(i)) = Neg(y)
      BY <2>3 DEF Neg, Pos, Not
    <3> HIDE DEF L, y
    <3>2. /\ Holds(b, L(i)) <=> y \in b
          /\ Holds(b, Not(L(i))) <=> y \notin b
      BY <3>1, LiteralHolds
    <3> QED  BY <2>3, <3>2 DEF y
  <2> QED  BY <2>1, <2>2, <2>3
<1> HIDE DEF x, N, L
<1>4. \A i \in N : Satisfied(b, {Neg(x), Not(L(i))})
  BY <1>2, <1>3, ClauseHolds, LiteralHolds
<1>5. Satisfied(b, {Pos(x)} \cup {L(i) : i \in N})
  BY <1>2, <1>3, ClauseHolds, LiteralHolds
<1> QED  BY <1>1, <1>4, <1>5 DEF AllSatisfied

LEMMA BrokenHolds ==
  ASSUME NEW s, NEW b, Completes(s, b), NEW r
  PROVE  AllSatisfied(b, Broken(s, r).hard)
<1> DEFINE x == <<"broken", Unit(s, r[1]).name, r>>
           point == <<"point", Unit(s, r[1]).name, r>>
           terms == UNION {DisableToTerm(s, vp) : vp \in Range(Unit(s, r[1]).recommends[r[2]])}
<1>1. Broken(s, r).hard = {{Neg(x), l} : l \in terms} \cup {{Neg(point), Pos(x)}, {Neg(point), Pos(UnitVar(s, r[1]))}}
  BY DEF Broken
<1>2. x[1] = "broken" /\ point[1] = "point"
  OBVIOUS
<1> HIDE DEF x, point, terms
<1>3. x \notin b /\ point \notin b
  BY <1>2 DEF Completes
<1>4. \A l : Satisfied(b, {Neg(x), l})
  BY <1>3, ClauseHolds, LiteralHolds
<1>5. \A l : Satisfied(b, {Neg(point), l})
  BY <1>3, ClauseHolds, LiteralHolds
<1> QED  BY <1>1, <1>4, <1>5 DEF AllSatisfied

(* The clauses of the criteria only define variables of their own.         *)
LEMMA CriteriaHold ==
  ASSUME NEW s, InstalledKnown(s), CriteriaListed(s), NEW b, Completes(s, b)
  PROVE  AllSatisfied(b, CriteriaHard(s))
<1> SUFFICES ASSUME NEW k \in 1 .. Len(s.lex), NEW q, q = s.lex[k]
             PROVE  AllSatisfied(b, EncodeCriterion(s, q).hard)
  BY DEF CriteriaHard, AllSatisfied
<1>1. q.word \in Words
  BY DEF CriteriaListed
<1>2. CASE q.word = "new"
  <2>1. EncodeCriterion(s, q) = EncodeNew(s, q.max)
    BY <1>2 DEF EncodeCriterion
  <2> QED  BY <2>1 DEF EncodeNew, AllSatisfied
<1>3. CASE q.word = "removed"
  <2>1. EncodeCriterion(s, q) = EncodeRemoved(s, q.max)
    BY <1>3 DEF EncodeCriterion
  <2> QED  BY <2>1 DEF EncodeRemoved, AllSatisfied
<1>4. CASE q.word = "unmet_recommends"
  <2>1. EncodeCriterion(s, q) = EncodeUnmetRecommends(s, q.max)
    BY <1>4 DEF EncodeCriterion
  <2>2. CASE q.max
    <3>1. EncodeCriterion(s, q).hard = UNION {Broken(s, r).hard : r \in Recommendations(s)}
      BY <2>1, <2>2 DEF EncodeUnmetRecommends
    <3> QED  BY <3>1, BrokenHolds DEF AllSatisfied
  <2>3. CASE ~ q.max
    BY <2>1, <2>3 DEF EncodeUnmetRecommends, AllSatisfied
  <2> QED  BY <2>2, <2>3
<1>5. CASE q.word = "notuptodate"
  <2>1. EncodeCriterion(s, q) = EncodeNotUpToDate(s, q.max)
    BY <1>5 DEF EncodeCriterion
  <2>2. \A c \in EncodeCriterion(s, q).hard : \E n \in NeededNames(s) : c \in OutOfDate(s, n)
    BY <2>1 DEF EncodeNotUpToDate
  <2> QED  BY <2>2, OutOfDateHolds DEF AllSatisfied
<1>6. CASE q.word = "changed"
  <2>1. EncodeCriterion(s, q) = EncodeChanged(s, q.max)
    BY <1>6 DEF EncodeCriterion
  <2>2. \A c \in EncodeCriterion(s, q).hard : \E n \in NeededNames(s) : c \in Unchanged(s, n)
    BY <2>1 DEF EncodeChanged
  <2> QED  BY <2>2, UnchangedHolds DEF AllSatisfied
<1> QED  BY <1>1, <1>2, <1>3, <1>4, <1>5, <1>6 DEF Words

\* the kinds of the variables that an installation gives a value
Given == {"pv"} \cup KindsOfInterval

LEMMA NaturalExtended ==
  ASSUME NEW s, NEW a, NEW C, Natural(s, a, C), NEW b, \A x : x[1] \in Given => (x \in b <=> x \in a)
  PROVE  Natural(s, b, C) /\ Chosen(s, b) = Chosen(s, a)
<1>1. \A n, v : PV(n, v) \in b <=> PV(n, v) \in a
  <2>1. \A n, v : PV(n, v)[1] \in Given
    BY DEF PV, Given
  <2> QED  BY <2>1
<1>2. \A kind \in KindsOfInterval : \A n, v : <<kind, n, v>> \in b <=> <<kind, n, v>> \in a
  <2>1. \A kind \in KindsOfInterval : \A n, v : <<kind, n, v>>[1] \in Given
    BY DEF Given
  <2> QED  BY <2>1
<1>3. \A kind \in KindsOfInterval : \A n, v : Meaning(s, b, kind, n, v) <=> Meaning(s, a, kind, n, v)
  <2>1. \A n : /\ Infinite(s, b, n) <=> Infinite(s, a, n)
               /\ \A v : SomeFrom(s, b, n, v) <=> SomeFrom(s, a, n, v)
               /\ \A v : SomeTo(s, b, n, v) <=> SomeTo(s, a, n, v)
    BY <1>1 DEF Infinite, SomeFrom, SomeTo
  <2> QED  BY <2>1 DEF Meaning, KindsOfInterval
<1>4. \A kind \in KindsOfInterval : \A n : \A v \in Intervals(C, kind, n) :
        <<kind, n, v>> \in b <=> Meaning(s, b, kind, n, v)
  BY <1>2, <1>3 DEF Natural
<1>5. AllSatisfied(b, EncodeProvides(s))
  <2>1. \A f \in s.features : PV(f[1], f[2]) \in a <=> \E y \in Providers(s, f) : y \in a
    BY ProvidesHold DEF Natural
  <2>2. \A f : \A y \in Providers(s, f) : y \in b <=> y \in a
    BY <1>1 DEF Providers, UnitVar
  <2>3. \A f \in s.features : PV(f[1], f[2]) \in b <=> \E y \in Providers(s, f) : y \in b
    BY <1>1, <2>1, <2>2
  <2> QED  BY <2>3, ProvidesHold
<1>6. Chosen(s, b) = Chosen(s, a)
  BY <1>1 DEF Chosen, UnitVar
<1> QED  BY <1>4, <1>5, <1>6 DEF Natural

LEMMA AssignmentGiven ==
  ASSUME NEW s, NEW I, NEW C
  PROVE  \A x \in Assignment(s, I, C) : x[1] \in Given
<1> DEFINE b == Versioned(s, I)
           Of(kind, n) == {<<kind, n, v>> : v \in {w \in Intervals(C, kind, n) : Meaning(s, b, kind, n, w)}}
<1>1. \A x \in b : x[1] \in Given
  BY DEF Versioned, UnitVar, PV, Given
<1>2. \A kind \in KindsOfInterval : \A n : \A x \in Of(kind, n) : x[1] \in Given
  BY DEF Given
<1>3. Assignment(s, I, C) = b \cup UNION {Of(kind, n) : kind \in KindsOfInterval, n \in IntervalNames(C)}
  BY DEF Assignment
<1> HIDE DEF b, Of
<1> QED  BY <1>1, <1>2, <1>3

(* The variables of the criteria can be added to any installation.         *)
LEMMA Completion ==
  ASSUME NEW s, NEW m \in Nat, WellPosed(s, m), NEW I, I \subseteq s.needed, NEW C
  PROVE  \E b : Natural(s, b, C) /\ Chosen(s, b) = I /\ Completes(s, b)
<1> DEFINE a == Assignment(s, I, C)
           N == NeededNames(s)
           some(n) == \E v \in UnitVersions(s, n) : PV(n, v) \in a
           same(n) == \A i \in NeededUnits(s, n) : UnitVar(s, i) \in a <=> Unit(s, i).installed
           Anys == {<<"any", n, 0>> : n \in {q \in N : some(q)}}
           Outs == {<<"out", n, 0>> : n \in {q \in N : some(q) /\ NewestNeeded(s, q) \notin a}}
           Kept == {<<"unchanged", n, 0>> : n \in {q \in N : same(q)}}
           b == a \cup Anys \cup Outs \cup Kept
<1>1. Natural(s, a, C) /\ Chosen(s, a) = I /\ \A x \in a : x[1] \in Given
  BY AssignmentNatural, AssignmentGiven
<1> HIDE DEF a
<1>2. /\ \A x : x \in Anys <=> \E n \in N : some(n) /\ x = <<"any", n, 0>>
      /\ \A x : x \in Outs <=> \E n \in N : some(n) /\ NewestNeeded(s, n) \notin a /\ x = <<"out", n, 0>>
      /\ \A x : x \in Kept <=> \E n \in N : same(n) /\ x = <<"unchanged", n, 0>>
  OBVIOUS
<1>3. \A x : x \in b <=> x \in a \/ x \in Anys \/ x \in Outs \/ x \in Kept
  OBVIOUS
<1>4. \A n, v : PV(n, v)[1] = "pv"
  BY DEF PV
<1> HIDE DEF Anys, Outs, Kept, b, some, same
<1>5. /\ \A x \in Anys : x[1] = "any" /\ \E n : x = <<"any", n, 0>>
      /\ \A x \in Outs : x[1] = "out" /\ \E n : x = <<"out", n, 0>>
      /\ \A x \in Kept : x[1] = "unchanged" /\ \E n : x = <<"unchanged", n, 0>>
  BY <1>2
<1>6. \A x : x[1] \in Given => (x \in b <=> x \in a)
  BY <1>3, <1>5 DEF Given, KindsOfInterval
<1>7. Natural(s, b, C) /\ Chosen(s, b) = I
  BY <1>1, <1>6, NaturalExtended
<1>8. \A n, v : PV(n, v) \in b <=> PV(n, v) \in a
  BY <1>4, <1>6 DEF Given
<1>9. ASSUME NEW n \in N
      PROVE  /\ <<"any", n, 0>> \in b <=> some(n)
             /\ <<"out", n, 0>> \in b <=> some(n) /\ NewestNeeded(s, n) \notin a
             /\ <<"unchanged", n, 0>> \in b <=> same(n)
  <2>1. /\ <<"any", n, 0>>[1] = "any" /\ <<"out", n, 0>>[1] = "out" /\ <<"unchanged", n, 0>>[1] = "unchanged"
        /\ <<"any", n, 0>>[2] = n /\ <<"out", n, 0>>[2] = n /\ <<"unchanged", n, 0>>[2] = n
    OBVIOUS
  <2>2. <<"any", n, 0>> \notin a /\ <<"out", n, 0>> \notin a /\ <<"unchanged", n, 0>> \notin a
    BY <1>1, <2>1 DEF Given, KindsOfInterval
  <2>3. <<"any", n, 0>> \in Anys <=> some(n)
    BY <1>2
  <2>4. <<"out", n, 0>> \in Outs <=> some(n) /\ NewestNeeded(s, n) \notin a
    BY <1>2
  <2>5. <<"unchanged", n, 0>> \in Kept <=> same(n)
    BY <1>2
  <2>6. /\ <<"any", n, 0>> \notin Outs /\ <<"any", n, 0>> \notin Kept
        /\ <<"out", n, 0>> \notin Anys /\ <<"out", n, 0>> \notin Kept
        /\ <<"unchanged", n, 0>> \notin Anys /\ <<"unchanged", n, 0>> \notin Outs
    BY <1>5, <2>1
  <2> QED  BY <1>3, <2>2, <2>3, <2>4, <2>5, <2>6
<1>10. \A x \in b : x[1] \notin {"broken", "point"}
  BY <1>1, <1>3, <1>5 DEF Given, KindsOfInterval
<1>11. ASSUME NEW n \in N
       PROVE  /\ some(n) <=> \E v \in UnitVersions(s, n) : PV(n, v) \in b
              /\ NewestNeeded(s, n) \notin a <=> NewestNeeded(s, n) \notin b
              /\ same(n) <=> \A i \in NeededUnits(s, n) : UnitVar(s, i) \in b <=> Unit(s, i).installed
  BY <1>8 DEF some, same, NewestNeeded, UnitVar
<1>12. Completes(s, b)
  BY <1>9, <1>10, <1>11 DEF Completes
<1> QED  BY <1>7, <1>12

-----------------------------------------------------------------------------
(* All that is written *)

\* all that is written before the intervals, and the soft clauses
Input(s) ==
  LET pref == EncodeLexicographic(s)
  IN  Written(s, pref) \cup {pref.soft[k][1] : k \in DOMAIN pref.soft}

LEMMA DemandedInput ==
  ASSUME NEW s
  PROVE  Demanded(s) \subseteq Written(s, EncodeLexicographic(s)) /\ Demanded(s) \subseteq Input(s)
BY DEF Demanded, Written, Input

\* no soft clause reaches the weight that makes a clause a hard one
NoneHeavy(s) ==
  LET soft == EncodeLexicographic(s).soft
  IN  \A k \in DOMAIN soft : ~ (Weight(soft, soft[k][1]) >= Top(s))

\* a document without the known issues, of which every field was read
Readable(s, m) ==
  /\ WellPosed(s, m) /\ Bounded(Input(s), m)
  /\ UnitsListed(s.pr) /\ DependsListed(s) /\ InstalledKnown(s) /\ CriteriaListed(s)

EncodingOf(s) ==
  Encoding(s, EncodeLexicographic(s), Written(s, EncodeLexicographic(s)), ProcessIntervalVariables(s, Input(s)), Top(s))

LEMMA EncodingParts ==
  ASSUME NEW s, NEW en, en = EncodingOf(s)
  PROVE  /\ Written(s, EncodeLexicographic(s)) \cup ProcessIntervalVariables(s, Input(s)) \subseteq en.hard
         /\ NoneHeavy(s) => en.hard = Written(s, EncodeLexicographic(s)) \cup ProcessIntervalVariables(s, Input(s))
         /\ \A c \in en.hard : \A l \in c : l[1] \in en.vars
         /\ \A i \in s.needed : UnitVar(s, i) \in en.vars
<1> DEFINE pref == EncodeLexicographic(s)
           written == Written(s, pref)
           intervals == ProcessIntervalVariables(s, Input(s))
           softs == {pref.soft[k][1] : k \in DOMAIN pref.soft}
           all == written \cup intervals \cup softs
           Heavy(c) == Weight(pref.soft, c) >= Top(s)
<1>1. /\ en.hard = {c \in all : c \in written \/ c \in intervals \/ Heavy(c)}
      /\ en.vars = {l[1] : l \in UNION all} \cup {UnitVar(s, i) : i \in s.needed}
  BY DEF EncodingOf, Encoding
<1>2. NoneHeavy(s) => \A c \in softs : ~ Heavy(c)
  BY DEF NoneHeavy
<1> HIDE DEF pref, written, intervals, softs, Heavy
<1>3. written \cup intervals \subseteq en.hard /\ (NoneHeavy(s) => en.hard = written \cup intervals)
  BY <1>1, <1>2
<1>4. \A c \in en.hard : \A l \in c : l[1] \in en.vars
  BY <1>1
<1>5. \A i \in s.needed : UnitVar(s, i) \in en.vars
  BY <1>1
<1> QED  BY <1>3, <1>4, <1>5 DEF pref, written, intervals

\* variables that the clauses do not have make no difference
LEMMA SatisfiedWithin ==
  ASSUME NEW X, NEW a, NEW C, \A c \in C : \A l \in c : l[1] \in X, AllSatisfied(a, C)
  PROVE  AllSatisfied(a \cap X, C)
BY DEF AllSatisfied, Satisfied

LEMMA ChosenWithin ==
  ASSUME NEW s, NEW X, NEW a, \A i \in s.needed : UnitVar(s, i) \in X
  PROVE  Chosen(s, a \cap X) = Chosen(s, a)
BY DEF Chosen

(***************************************************************************)
(* The whole encoding, with the criteria and the packages that are not     *)
(* removed, excludes nothing: for all units that meet what is asked for    *)
(* there is an assignment to its variables that satisfies the hard clauses.*)
(***************************************************************************)
LEMMA EncodingComplete ==
  ASSUME NEW s, NEW m \in Nat, Readable(s, m), NoneHeavy(s), NEW en, en = EncodingOf(s),
         NEW I, I \subseteq s.needed, Met(s, I)
  PROVE  \E a \in SUBSET en.vars : Chosen(s, a) = I /\ AllSatisfied(a, en.hard)
<1> DEFINE pref == EncodeLexicographic(s)
           written == Written(s, pref)
           C == Input(s)
<1>1. PICK b : Natural(s, b, C) /\ Chosen(s, b) = I /\ Completes(s, b)
  BY Completion DEF Readable
<1>2. AllSatisfied(b, Demanded(s) \cup ProcessIntervalVariables(s, C))
  BY <1>1, DemandedInput, DemandsComplete DEF Readable
<1>3. AllSatisfied(b, pref.hard)
  <2>1. pref.hard \subseteq CriteriaHard(s)
    BY LexicographicHard DEF Readable, CriteriaListed
  <2>2. AllSatisfied(b, CriteriaHard(s))
    BY <1>1, CriteriaHold DEF Readable
  <2> QED  BY <2>1, <2>2 DEF AllSatisfied
<1>4. AllSatisfied(b, AssertNotRemoved(s))
  <2>1. AssertNotRemoved(s) \subseteq C
    BY DEF Input, Written
  <2>2. \A c \in AssertNotRemoved(s) : c \subseteq UNION C
    BY <2>1
  <2>3. DependsMet(s, Chosen(s, b)) /\ RequestMet(s, Chosen(s, b))
    BY <1>1 DEF Met
  <2> QED  BY <1>1, <2>2, <2>3, NotRemovedComplete DEF Readable
<1>5. written = Demanded(s) \cup pref.hard \cup AssertNotRemoved(s)
  BY DEF Written, Demanded
<1>6. /\ en.hard = written \cup ProcessIntervalVariables(s, C)
      /\ \A c \in en.hard : \A l \in c : l[1] \in en.vars
      /\ \A i \in s.needed : UnitVar(s, i) \in en.vars
  BY EncodingParts
<1> HIDE DEF pref, written, C
<1>7. AllSatisfied(b, en.hard)
  BY <1>2, <1>3, <1>4, <1>5, <1>6 DEF AllSatisfied
<1>8. AllSatisfied(b \cap en.vars, en.hard) /\ Chosen(s, b \cap en.vars) = I
  BY <1>1, <1>6, <1>7, SatisfiedWithin, ChosenWithin
<1> QED  BY <1>8

LEMMA ListsJoined ==
  ASSUME NEW A, NEW B, A \cap B = {}, NEW q, Lists(q, A), NEW r, Lists(r, B)
  PROVE  Lists(q \o r, A \cup B)
<1> DEFINE t == q \o r
<1>1. /\ Len(q) \in Nat /\ DOMAIN q = 1 .. Len(q) /\ Len(r) \in Nat /\ DOMAIN r = 1 .. Len(r)
      /\ q \in Seq(A \cup B) /\ r \in Seq(A \cup B)
  BY DEF Lists
<1>2. /\ t \in Seq(A \cup B) /\ DOMAIN t = 1 .. Len(q) + Len(r)
      /\ \A i \in 1 .. Len(q) : t[i] = q[i]
      /\ \A i \in 1 .. Len(r) : t[Len(q) + i] = r[i]
  BY <1>1
<1> HIDE DEF t
<1>3. /\ \A i \in 1 .. Len(q) : q[i] \in A
      /\ \A i \in 1 .. Len(r) : r[i] \in B
  BY <1>1 DEF Lists
<1>4. \A i \in DOMAIN t : \/ i \in 1 .. Len(q) /\ t[i] = q[i] /\ t[i] \in A
                          \/ /\ i \notin 1 .. Len(q) /\ i - Len(q) \in 1 .. Len(r)
                             /\ t[i] = r[i - Len(q)] /\ t[i] \in B
  <2> SUFFICES ASSUME NEW i \in DOMAIN t
               PROVE  \/ i \in 1 .. Len(q) /\ t[i] = q[i] /\ t[i] \in A
                      \/ /\ i \notin 1 .. Len(q) /\ i - Len(q) \in 1 .. Len(r)
                         /\ t[i] = r[i - Len(q)] /\ t[i] \in B
    OBVIOUS
  <2>1. CASE i \in 1 .. Len(q)
    BY <1>2, <1>3, <2>1
  <2>2. CASE i \notin 1 .. Len(q)
    <3> DEFINE j == i - Len(q)
    <3>1. j \in 1 .. Len(r) /\ i = Len(q) + j
      BY <1>1, <1>2, <2>2
    <3> HIDE DEF j
    <3>2. t[i] = r[j] /\ r[j] \in B
      BY <1>2, <1>3, <3>1
    <3> QED  BY <2>2, <3>1, <3>2 DEF j
  <2> QED  BY <2>1, <2>2
<1>5. ASSUME NEW i \in DOMAIN t, NEW j \in DOMAIN t, t[i] = t[j] PROVE i = j
  <2>1. CASE i \in 1 .. Len(q)
    <3>1. t[i] \in A /\ t[i] = q[i]
      BY <1>3, <1>2, <2>1
    <3>2. t[j] \notin B
      BY <1>5, <3>1
    <3>3. j \in 1 .. Len(q) /\ t[j] = q[j]
      BY <1>4, <3>2
    <3> QED  BY <1>1, <1>5, <2>1, <3>1, <3>3 DEF Lists
  <2>2. CASE i \notin 1 .. Len(q)
    <3>1. t[i] \in B /\ t[i] = r[i - Len(q)] /\ i - Len(q) \in DOMAIN r
      BY <1>1, <1>4, <2>2
    <3>2. t[j] \notin A
      BY <1>5, <3>1
    <3>3. t[j] = r[j - Len(q)] /\ j - Len(q) \in DOMAIN r
      BY <1>1, <1>4, <3>2
    <3>4. i - Len(q) = j - Len(q)
      BY <1>5, <3>1, <3>3 DEF Lists
    <3> QED  BY <1>1, <1>2, <3>4
  <2> QED  BY <2>1, <2>2
<1>6. Range(t) = A \cup B
  <2>1. Range(t) \subseteq A \cup B
    BY <1>4 DEF Range
  <2>2. \A x \in A : \E i \in 1 .. Len(q) : q[i] = x
    BY <1>1 DEF Lists, Range
  <2>3. \A x \in B : \E i \in 1 .. Len(r) : r[i] = x
    BY <1>1 DEF Lists, Range
  <2>4. \A i \in 1 .. Len(q) : i \in DOMAIN t
    BY <1>1, <1>2
  <2>5. \A i \in 1 .. Len(r) : Len(q) + i \in DOMAIN t
    BY <1>1, <1>2
  <2>6. \A x \in A : x \in Range(t)
    BY <1>2, <2>2, <2>4 DEF Range
  <2>7. \A x \in B : x \in Range(t)
    BY <1>2, <2>3, <2>5 DEF Range
  <2> QED  BY <2>1, <2>6, <2>7
<1> QED  BY <1>2, <1>5, <1>6 DEF Lists, t

LEMMA OrderLists == ASSUME NEW X, IsFiniteSet(X) PROVE Lists(Order(X), X)
<1> DEFINE A == {x \in X : x[1] = "pv"}
           B == {x \in X : x[1] # "pv"}
<1>1. A \cap B = {} /\ A \cup B = X /\ A \subseteq X /\ B \subseteq X
  OBVIOUS
<1>2. Order(X) = Listed(A) \o Listed(B)
  BY DEF Order
<1> HIDE DEF A, B
<1>3. Lists(Listed(A), A) /\ Lists(Listed(B), B)
  BY <1>1, FS_Subset, ListedOnce
<1>4. Lists(Listed(A) \o Listed(B), A \cup B)
  BY <1>1, <1>3, ListsJoined
<1> QED  BY <1>1, <1>2, <1>4

-----------------------------------------------------------------------------
(* The variables that occur *)

Tags == {"pv", "ru", "rd", "du", "dd", "any", "out", "unchanged"}

\* V has every variable that the encoder may make for s
Room(s, V) ==
  /\ \A x \in V : x = <<x[1], x[2], x[3]>>
  /\ \A n : \A v \in Versions(s, n) \cup UnitVersions(s, n) : \A k \in Tags : <<k, n, v>> \in V
  /\ \A n \in NeededNames(s) : \A k \in Tags : <<k, n, 0>> \in V
  /\ \A r \in Recommendations(s) :
       <<"broken", Unit(s, r[1]).name, r>> \in V /\ <<"point", Unit(s, r[1]).name, r>> \in V

\* the clause c, the clauses C are over the variables V
Over(c, V) == \A l \in c : l[1] \in V
AllOver(C, V) == \A c \in C : Over(c, V)

LEMMA OverLiterals ==
  ASSUME NEW V, NEW x
  PROVE  Pos(x)[1] = x /\ Neg(x)[1] = x /\ (\A l : Not(l)[1] = l[1])
BY DEF Pos, Neg, Not

LEMMA OverUnits ==
  ASSUME NEW s, NEW V, Room(s, V)
  PROVE  /\ \A i \in s.needed : UnitVar(s, i) \in V /\ Unit(s, i).version \in UnitVersions(s, Unit(s, i).name)
         /\ \A i \in s.needed : Unit(s, i).name \in NeededNames(s)
         /\ \A n : \A v \in Versions(s, n) \cup UnitVersions(s, n) : PV(n, v) \in V
<1>1. \A i \in s.needed : Unit(s, i).version \in UnitVersions(s, Unit(s, i).name) /\ Unit(s, i).name \in NeededNames(s)
  BY DEF UnitVersions, NeededUnits, NeededNames
<1>2. \A n : \A v \in Versions(s, n) \cup UnitVersions(s, n) : PV(n, v) \in V
  BY DEF Room, Tags, PV
<1> QED  BY <1>1, <1>2 DEF UnitVar

LEMMA OverPart ==
  ASSUME NEW m \in Nat, NEW V, NEW n, NEW p, p[2] \subseteq 0 .. m,
         \A v \in p[2] : \A k \in Tags : <<k, n, v>> \in V
  PROVE  Over(RequirePart(n, p), V) /\ Over(DisablePart(n, p), V)
<1> DEFINE up == <<"ru", n, Min(p[2])>>
<1>1. ASSUME Cardinality(p[2]) > Iv, NEW k \in {"ru", "rd", "du", "dd"}
      PROVE  Interval(k, n, p) \in V
  <2>1. Min(p[2]) \in p[2] /\ Max(p[2]) \in p[2]
    BY <1>1, PartEnds
  <2>2. k \in Tags
    BY DEF Tags
  <2> QED  BY <2>1, <2>2 DEF Interval
<1>2. \A v \in p[2] : PV(n, v) \in V
  BY DEF PV, Tags
<1>3. Over(RequirePart(n, p), V)
  <2>1. CASE p[1] # "=" /\ Cardinality(p[2]) > Iv
    <3> DEFINE k == IF p[1] = "u" THEN "ru" ELSE "rd"
    <3>1. RequirePart(n, p) = {Pos(Interval(k, n, p))} /\ k \in {"ru", "rd", "du", "dd"}
      BY <2>1 DEF RequirePart
    <3> HIDE DEF k
    <3>2. Interval(k, n, p) \in V
      BY <1>1, <2>1, <3>1
    <3> QED  BY <3>1, <3>2, OverLiterals DEF Over
  <2>2. CASE ~ (p[1] # "=" /\ Cardinality(p[2]) > Iv)
    <3>1. RequirePart(n, p) = {Pos(PV(n, v)) : v \in p[2]}
      BY <2>2 DEF RequirePart
    <3> QED  BY <1>2, <3>1, OverLiterals DEF Over
  <2> QED  BY <2>1, <2>2
<1>4. Over(DisablePart(n, p), V)
  <2>1. CASE p[1] # "=" /\ Cardinality(p[2]) > Iv
    <3> DEFINE k == IF p[1] = "u" THEN "du" ELSE "dd"
    <3>1. DisablePart(n, p) = {Pos(Interval(k, n, p))} /\ k \in {"ru", "rd", "du", "dd"}
      BY <2>1 DEF DisablePart
    <3> HIDE DEF k
    <3>2. Interval(k, n, p) \in V
      BY <1>1, <2>1, <3>1
    <3> QED  BY <3>1, <3>2, OverLiterals DEF Over
  <2>2. CASE ~ (p[1] # "=" /\ Cardinality(p[2]) > Iv)
    <3>1. DisablePart(n, p) = {Neg(PV(n, v)) : v \in p[2]}
      BY <2>2 DEF DisablePart
    <3> QED  BY <1>2, <3>1, OverLiterals DEF Over
  <2> QED  BY <2>1, <2>2
<1> QED  BY <1>3, <1>4

\* requests as clauses and as terms
LEMMA OverRequest ==
  ASSUME NEW s, NEW m \in Nat, Encodable(s, m), NEW V, Room(s, V), NEW vp, Askable(vp)
  PROVE  Over(RequestToClause(s, vp), V) /\ Over(DisableToTerm(s, vp), V)
<1> DEFINE n == vp.name
           S == Versions(s, n)
           parts == Selected(S, vp.op, vp.version)
<1>1. S \subseteq 0 .. m /\ S \subseteq Nat /\ (InfiniteProvided(s, n) => 0 \in S)
  BY VersionsBounded
<1>2. \A v \in S : \A k \in Tags : <<k, n, v>> \in V
  BY DEF Room
<1>3. InfiniteProvided(s, n) => PV(n, 0) \in V
  BY <1>1, OverUnits
<1>4. ASSUME NEW p \in parts PROVE Over(RequirePart(n, p), V) /\ Over(DisablePart(n, p), V)
  <2>1. p[2] \subseteq S
    BY <1>1, SelectedParts DEF PartOf
  <2> HIDE DEF parts, S, n
  <2> QED  BY <1>1, <1>2, <2>1, OverPart
<1>5. Over(RequestToClause(s, vp), V)
  <2>1. \A l \in RequestToClause(s, vp) :
          (\E p \in parts : l \in RequirePart(n, p)) \/ (InfiniteProvided(s, n) /\ l = Pos(PV(n, 0)))
    BY DEF RequestToClause
  <2> HIDE DEF parts, S, n
  <2> QED  BY <1>3, <1>4, <2>1, OverLiterals DEF Over
<1>6. Over(DisableToTerm(s, vp), V)
  <2>1. \A l \in DisableToTerm(s, vp) :
          (\E p \in parts : l \in DisablePart(n, p)) \/ (InfiniteProvided(s, n) /\ l = Neg(PV(n, 0)))
    BY DEF DisableToTerm
  <2> HIDE DEF parts, S, n
  <2> QED  BY <1>3, <1>4, <2>1, OverLiterals DEF Over
<1> QED  BY <1>5, <1>6

LEMMA OverRequests ==
  ASSUME NEW s, NEW m \in Nat, Encodable(s, m), NEW V, Room(s, V), NEW i \in s.needed, NEW cnf,
         \A k \in DOMAIN cnf : \A vp \in Range(cnf[k]) : Askable(vp), NEW k \in DOMAIN cnf
  PROVE  Implications(s, i, cnf)[k] = {Neg(UnitVar(s, i))} \cup RequestsToClause(s, cnf[k])
         /\ Over({Neg(UnitVar(s, i))} \cup RequestsToClause(s, cnf[k]), V)
<1>1. UnitVar(s, i) \in V
  BY OverUnits
<1>2. \A vp \in Range(cnf[k]) : Over(RequestToClause(s, vp), V)
  BY OverRequest
<1>3. Over(RequestsToClause(s, cnf[k]), V)
  BY <1>2 DEF RequestsToClause, Over
<1> QED  BY <1>1, <1>3, OverLiterals DEF Implications, Over

LEMMA OverProvides ==
  ASSUME NEW s, NEW m \in Nat, Encodable(s, m), NEW V, Room(s, V)
  PROVE  AllOver(EncodeProvides(s), V)
<1> SUFFICES ASSUME NEW c \in EncodeProvides(s) PROVE Over(c, V)
  BY DEF AllOver
<1> DEFINE infinite(f) == IF f[2] # 0 /\ InfiniteProvided(s, f[1]) THEN {PV(f[1], 0)} ELSE {}
           providers(f) == {UnitVar(s, i) : i \in FeatureUnits(s.pr, f) \cap s.needed}
           Y(f) == infinite(f) \cup providers(f)
<1>1. PICK f \in s.features : \/ c \in {{Neg(y), Pos(PV(f[1], f[2]))} : y \in Y(f)}
                              \/ c = {Neg(PV(f[1], f[2]))} \cup {Pos(y) : y \in Y(f)}
  BY DEF EncodeProvides
<1>2. f[2] \in Versions(s, f[1])
  BY DEF Versions, NeededFeature
<1>3. PV(f[1], f[2]) \in V
  BY <1>2, OverUnits
<1>4. \A y \in Y(f) : y \in V
  <2>1. InfiniteProvided(s, f[1]) => PV(f[1], 0) \in V
    BY VersionsBounded, OverUnits
  <2> QED  BY <2>1, OverUnits
<1> HIDE DEF Y
<1> QED  BY <1>1, <1>3, <1>4, OverLiterals DEF Over

LEMMA OverConflict ==
  ASSUME NEW s, NEW m \in Nat, Encodable(s, m), NEW V, Room(s, V), NEW i \in s.needed, NEW vp, Askable(vp)
  PROVE  AllOver(EncodeConflict(s, i, vp), V)
<1> DEFINE x == UnitVar(s, i)
           n == vp.name
           S == UnitVersions(s, n)
           v == Unit(s, i).version
           above == DisablePart(n, <<"u", {w \in S : w >= v + 1}>>)
           below == DisablePart(n, <<"d", {w \in S : w <= v - 1}>>)
<1>1. x \in V
  BY OverUnits
<1>2. \A T : Over(T, V) => AllOver({{Neg(x), l} : l \in T}, V)
  BY <1>1, OverLiterals DEF AllOver, Over
<1>3. AllOver(FeatureSelfConflict(s, i, vp), V)
  <2>1. \A j \in ConflictProviders(s, vp) : j \in s.needed
    BY DEF ConflictProviders
  <2>2. \A j \in ConflictProviders(s, vp) : UnitVar(s, j) \in V
    BY <2>1, OverUnits
  <2> QED  BY <1>1, <2>2, OverLiterals DEF FeatureSelfConflict, AllOver, Over
<1>4. AllOver(NotSelfConflict(s, i, vp), V)
  <2>1. NotSelfConflict(s, i, vp) = {{Neg(x), l} : l \in DisableToTerm(s, vp)}
    BY DEF NotSelfConflict
  <2> HIDE DEF x
  <2> QED  BY <1>2, <2>1, OverRequest
<1>5. S \subseteq 0 .. m /\ \A w \in S : \A k \in Tags : <<k, n, w>> \in V
  BY DEF Room, UnitVersions, NeededUnits, Encodable
<1>6. AllOver(PackageSelfConflict(s, i, vp), V)
  <2>1. CASE vp.op = "none"
    <3>1. PackageSelfConflict(s, i, vp) = {{Neg(x), l} : l \in above \cup below}
      BY <2>1 DEF PackageSelfConflict
    <3> DEFINE p == <<"u", {w \in S : w >= v + 1}>>
               q == <<"d", {w \in S : w <= v - 1}>>
    <3>2. p[2] \subseteq S /\ q[2] \subseteq S
      OBVIOUS
    <3>3. Over(DisablePart(n, p), V) /\ Over(DisablePart(n, q), V)
      <4> HIDE DEF p, q, n, S
      <4> QED  BY <1>5, <3>2, OverPart
    <3>4. Over(above \cup below, V)
      BY <3>3 DEF Over
    <3> HIDE DEF x, above, below
    <3> QED  BY <1>2, <3>1, <3>4
  <2>2. CASE vp.op # "none"
    <3>1. PackageSelfConflict(s, i, vp) = {{Neg(x), Neg(PV(n, w))} : w \in {y \in S \ {v} : Evaluate(y, vp.op, vp.version)}}
      BY <2>2 DEF PackageSelfConflict
    <3>2. \A w \in S : PV(n, w) \in V
      BY OverUnits
    <3> HIDE DEF x, n, S, v
    <3> QED  BY <1>1, <3>1, <3>2, OverLiterals DEF AllOver, Over
  <2> QED  BY <2>1, <2>2
<1> QED  BY <1>3, <1>4, <1>6 DEF EncodeConflict

\* the request
LEMMA OverUpgrade ==
  ASSUME NEW s, NEW m \in Nat, Encodable(s, m), NEW V, Room(s, V), \A vp \in Range(s.pr.upgrade) : Askable(vp)
  PROVE  AllOver(EncodeUpgrade(s), V)
<1> SUFFICES ASSUME NEW c \in EncodeUpgrade(s) PROVE Over(c, V)
  BY DEF AllOver
<1>1. PICK vp \in Range(s.pr.upgrade) :
        \/ c = RequestToClause(s, vp)
        \/ /\ LatestNeeded(s, vp.name) >= 0
           /\ \/ c = {Pos(<<"ru", vp.name, LatestNeeded(s, vp.name)>>)}
              \/ c \in AtMostOne(s, vp.name, LatestNeeded(s, vp.name))
        \/ IsFeature(s.pr, vp.name) /\ InfiniteProvided(s, vp.name) /\ c = {Neg(PV(vp.name, 0))}
  BY UpgradeClauses
<1> DEFINE n == vp.name
           L == LatestNeeded(s, n)
<1>2. Over(RequestToClause(s, vp), V)
  BY OverRequest
<1>3. L >= 0 => <<"ru", n, L>> \in V
  <2>1. L \in Latests(s, n)
    BY LatestIs
  <2>2. \A v \in Latests(s, n) : v = -1 \/ v \in Versions(s, n) \/ v \in UnitVersions(s, n)
    BY DEF Latests, UnitVersions
  <2>3. "ru" \in Tags
    BY DEF Tags
  <2>4. L >= 0 => L \in Versions(s, n) \cup UnitVersions(s, n)
    BY <2>1, <2>2
  <2> QED  BY <2>3, <2>4 DEF Room
<1>4. \A v \in Versions(s, n) : PV(n, v) \in V
  BY OverUnits
<1>5. AllOver(AtMostOne(s, n, L), V)
  <2> HIDE DEF n, L
  <2>1. \A d \in AtMostOne(s, n, L) : \/ \E v \in Versions(s, n) : d = {Neg(PV(n, v))}
                                      \/ \E v, w \in Versions(s, n) : d = {Neg(PV(n, v)), Neg(PV(n, w))}
    BY DEF AtMostOne
  <2> QED  BY <1>4, <2>1, OverLiterals DEF AllOver, Over
<1>6. InfiniteProvided(s, n) => PV(n, 0) \in V
  BY VersionsBounded, OverUnits
<1> HIDE DEF n, L
<1>7. \/ c = RequestToClause(s, vp)
      \/ L >= 0 /\ c = {Pos(<<"ru", n, L>>)}
      \/ c \in AtMostOne(s, n, L)
      \/ InfiniteProvided(s, n) /\ c = {Neg(PV(n, 0))}
  BY <1>1 DEF n, L
<1> QED  BY <1>2, <1>3, <1>5, <1>6, <1>7, OverLiterals DEF AllOver, Over

LEMMA OverRequestParts ==
  ASSUME NEW s, NEW m \in Nat, Encodable(s, m), NEW V, Room(s, V), \A vp \in AllRequests(s) : Askable(vp)
  PROVE  AllOver(EncodeInstall(s) \cup EncodeUpgrade(s) \cup EncodeRequestRemove(s), V)
<1>1. \A vp \in s.pr.install \cup Range(s.pr.upgrade) \cup Range(s.pr.remove) : Askable(vp)
  BY DEF AllRequests
<1>2. AllOver(EncodeInstall(s), V)
  BY <1>1, OverRequest DEF EncodeInstall, AllOver
<1>3. AllOver(EncodeUpgrade(s), V)
  BY <1>1, OverUpgrade
<1>4. AllOver(EncodeRequestRemove(s), V)
  BY <1>1, OverRequest DEF EncodeRequestRemove, AllOver, Over
<1> QED  BY <1>2, <1>3, <1>4 DEF AllOver

LEMMA OverDemanded ==
  ASSUME NEW s, NEW m \in Nat, WellPosed(s, m), NEW V, Room(s, V)
  PROVE  AllOver(Demanded(s), V)
<1>1. Encodable(s, m) /\ \A vp \in AllRequests(s) : Askable(vp)
  BY DEF WellPosed
<1>2. ASSUME NEW i \in s.needed PROVE AllOver(EncodeUnit(s, i), V)
  <2>1. AllOver(EncodeDepends(s, i), V)
    <3> DEFINE cnf == Unit(s, i).depends
    <3>1. \A k \in DOMAIN cnf : \A vp \in Range(cnf[k]) : Askable(vp)
      BY <1>1 DEF AllRequests
    <3>2. ASSUME NEW k \in DOMAIN cnf PROVE Over(Implications(s, i, cnf)[k], V)
      <4> DEFINE c == {Neg(UnitVar(s, i))} \cup RequestsToClause(s, cnf[k])
      <4>1. Implications(s, i, cnf)[k] = c /\ Over(c, V)
        <5> HIDE DEF cnf
        <5> QED  BY <1>1, <3>1, OverRequests
      <4> HIDE DEF c
      <4> QED  BY <4>1
    <3>3. DOMAIN Implications(s, i, cnf) = DOMAIN cnf /\ EncodeDepends(s, i) = Range(Implications(s, i, cnf))
      BY DEF Implications, EncodeDepends
    <3> HIDE DEF cnf
    <3> QED  BY <3>2, <3>3 DEF Range, AllOver
  <2>2. AllOver(EncodeConflicts(s, i), V)
    <3>1. \A vp \in Range(Unit(s, i).conflicts) : Askable(vp)
      BY <1>1 DEF AllRequests
    <3>2. \A vp \in Range(Unit(s, i).conflicts) : AllOver(EncodeConflict(s, i, vp), V)
      BY <1>1, <3>1, OverConflict
    <3> QED  BY <3>2 DEF EncodeConflicts, AllOver
  <2> QED  BY <2>1, <2>2 DEF EncodeUnit, AllOver
<1>3. AllOver(EncodeProvides(s), V) /\ AllOver(EncodeInstall(s) \cup EncodeUpgrade(s) \cup EncodeRequestRemove(s), V)
  BY <1>1, OverProvides, OverRequestParts
<1> QED  BY <1>2, <1>3 DEF Demanded, AllOver

\* the interval variables
LEMMA OverIntervals ==
  ASSUME NEW s, NEW m \in Nat, Encodable(s, m), NEW V, Room(s, V), NEW C, AllOver(C, V), Bounded(C, m)
  PROVE  AllOver(ProcessIntervalVariables(s, C), V)
<1>1. ASSUME NEW kind \in KindsOfInterval, NEW n, NEW v \in Intervals(C, kind, n)
      PROVE  <<kind, n, v>> \in V
  <2>1. PICK l \in UNION C : l[1][1] = kind /\ l[1][2] = n /\ l[1][3] = v
    BY DEF Intervals
  <2>2. l[1] \in V
    BY <2>1 DEF AllOver, Over
  <2>3. l[1] = <<l[1][1], l[1][2], l[1][3]>>
    BY <2>2 DEF Room
  <2> QED  BY <2>1, <2>2, <2>3
<1>2. ASSUME NEW kind \in KindsOfInterval, NEW n, NEW v \in Intervals(C, kind, n), NEW I, I = Intervals(C, kind, n)
      PROVE  AllOver(Clauses(s, kind, n, I, v), V)
  <2> DEFINE x == <<kind, n, v>>
             X == Segment(s, kind, n, I, v) \cup NextVars(kind, n, I, v) \cup InfiniteVars(s, kind, n, I, v)
  <2>1. x \in V
    BY <1>1
  <2>2. \A y \in Segment(s, kind, n, I, v) \cup InfiniteVars(s, kind, n, I, v) : y \in V
    <3>1. \A y \in Segment(s, kind, n, I, v) : \E w \in Versions(s, n) : y = PV(n, w)
      BY DEF Segment
    <3>2. \A y \in InfiniteVars(s, kind, n, I, v) : y = PV(n, 0) /\ 0 \in Versions(s, n)
      BY VersionsBounded DEF InfiniteVars
    <3> QED  BY <3>1, <3>2, OverUnits
  <2>3. \A y \in NextVars(kind, n, I, v) : y \in V
    <3>1. I \subseteq 0 .. m
      BY <1>2 DEF Bounded
    <3>2. NextInterval(kind, I, v) = v \/ NextInterval(kind, I, v) \in I
      BY <1>2, <3>1, NextOf DEF Following
    <3>3. \A y \in NextVars(kind, n, I, v) : y = <<kind, n, NextInterval(kind, I, v)>> /\ NextInterval(kind, I, v) # v
      BY DEF NextVars
    <3> QED  BY <1>1, <1>2, <3>2, <3>3
  <2>4. \A y \in X : y \in V
    BY <2>2, <2>3
  <2>5. AllOver(ProcessRequire(s, kind, n, I, v), V)
    <3> DEFINE Y == Segment(s, kind, n, I, v) \cup NextVars(kind, n, I, v)
                      \cup (IF kind = "ru" THEN InfiniteVars(s, kind, n, I, v) ELSE {})
    <3>1. ProcessRequire(s, kind, n, I, v) = {{Neg(x)} \cup {Pos(y) : y \in Y}} /\ Y \subseteq X
      BY DEF ProcessRequire
    <3> HIDE DEF X, Y, x
    <3> QED  BY <2>1, <2>4, <3>1, OverLiterals DEF AllOver, Over
  <2>6. AllOver(ProcessDisable(s, kind, n, I, v), V)
    <3>1. \A c \in ProcessDisable(s, kind, n, I, v) : \E y \in X : c = {Neg(x), Neg(y)} \/ c = {Neg(x), Pos(y)}
      BY DEF ProcessDisable
    <3> HIDE DEF X, x
    <3> QED  BY <2>1, <2>4, <3>1, OverLiterals DEF AllOver, Over
  <2> QED  BY <2>5, <2>6 DEF Clauses
<1>3. ASSUME NEW n PROVE AllOver(EdgesOf(C, n), V)
  <2> DEFINE ru == Intervals(C, "ru", n)
             rd == Intervals(C, "rd", n)
             du == Intervals(C, "du", n)
             dd == Intervals(C, "dd", n)
             Above(v) == {w \in ru : w >= v}
             Below(v) == {w \in rd : w <= v}
  <2>1. ru \subseteq 0 .. m /\ rd \subseteq 0 .. m /\ ru \subseteq Nat
    BY DEF Bounded, KindsOfInterval
  <2>2. \A v : <<"ru", n, v>> \in V \/ v \notin ru
    BY <1>1 DEF KindsOfInterval
  <2>3. \A v : <<"rd", n, v>> \in V \/ v \notin rd
    BY <1>1 DEF KindsOfInterval
  <2>4. \A v : <<"du", n, v>> \in V \/ v \notin du
    BY <1>1 DEF KindsOfInterval
  <2>5. \A v : <<"dd", n, v>> \in V \/ v \notin dd
    BY <1>1 DEF KindsOfInterval
  <2>6. \A c \in EdgesOf(C, n) :
          \/ \E v \in du : Above(v) # {} /\ c = {Neg(<<"ru", n, Min(Above(v))>>), Neg(<<"du", n, v>>)}
          \/ \E v \in dd : Below(v) # {} /\ c = {Neg(<<"rd", n, Max(Below(v))>>), Neg(<<"dd", n, v>>)}
    BY DEF EdgesOf, EncodeEdges
  <2>7. ASSUME NEW v, Above(v) # {} PROVE Min(Above(v)) \in ru
    <3>1. Above(v) \subseteq Nat
      BY <2>1
    <3>2. Min(Above(v)) \in Above(v)
      <4> HIDE DEF Above
      <4> QED  BY <2>7, <3>1, LeastOf
    <3> QED  BY <3>2
  <2>8. ASSUME NEW v, Below(v) # {} PROVE Max(Below(v)) \in rd
    <3>1. Below(v) \subseteq 0 .. m
      BY <2>1
    <3>2. Max(Below(v)) \in Below(v)
      <4> HIDE DEF Below
      <4> QED  BY <2>8, <3>1, GreatestOf
    <3> QED  BY <3>2
  <2> HIDE DEF ru, rd, du, dd, Above, Below
  <2> SUFFICES ASSUME NEW c \in EdgesOf(C, n) PROVE Over(c, V)
    BY DEF AllOver
  <2>9. CASE \E v \in du : Above(v) # {} /\ c = {Neg(<<"ru", n, Min(Above(v))>>), Neg(<<"du", n, v>>)}
    BY <2>2, <2>4, <2>7, <2>9, OverLiterals DEF Over
  <2>10. CASE \E v \in dd : Below(v) # {} /\ c = {Neg(<<"rd", n, Max(Below(v))>>), Neg(<<"dd", n, v>>)}
    BY <2>3, <2>5, <2>8, <2>10, OverLiterals DEF Over
  <2> QED  BY <2>6, <2>9, <2>10
<1>4. ASSUME NEW kind \in KindsOfInterval, NEW n PROVE AllOver(OfName(s, C, kind, n), V)
  BY <1>2 DEF OfName, AllOver
<1> QED  BY <1>3, <1>4, AllIntervals DEF AllOver

LEMMA OverNotRemoved ==
  ASSUME NEW s, NEW m \in Nat, Encodable(s, m), NEW V, Room(s, V)
  PROVE  /\ \A n \in NeededNames(s) : Over(RequireAny(s, n), V)
         /\ AllOver(AssertNotRemoved(s), V)
<1>1. ASSUME NEW n \in NeededNames(s) PROVE Over(RequireAny(s, n), V)
  <2> DEFINE p == <<"u", UnitVersions(s, n)>>
  <2>1. p[2] \subseteq 0 .. m
    BY DEF UnitVersions, NeededUnits, Encodable
  <2>2. \A v \in p[2] : \A k \in Tags : <<k, n, v>> \in V
    BY DEF Room
  <2>3. RequireAny(s, n) = RequirePart(n, p)
    BY DEF RequireAny
  <2> HIDE DEF p
  <2> QED  BY <2>1, <2>2, <2>3, OverPart
<1> QED  BY <1>1 DEF AssertNotRemoved, AllOver

-----------------------------------------------------------------------------
(* The clauses of a criterion *)

LEMMA ImageOf ==
  ASSUME NEW S, IsFiniteSet(S), NEW f, DOMAIN f = S
  PROVE  IsFiniteSet({f[x] : x \in S}) /\ Cardinality({f[x] : x \in S}) <= Cardinality(S)
<1> DEFINE T == {f[x] : x \in S}
           g == [x \in S |-> f[x]]
<1>1. g \in Surjection(S, T)
  BY DEF Surjection
<1> HIDE DEF T, g
<1>2. IsFiniteSet(T) /\ Cardinality(T) <= Cardinality(S)
  BY <1>1, FS_Surjection
<1> QED  BY <1>2 DEF T

LEMMA ListedSize ==
  ASSUME NEW S, IsFiniteSet(S)
  PROVE  /\ Listed(S) \in Seq(S) /\ Range(Listed(S)) = S /\ DOMAIN Listed(S) = 1 .. Len(Listed(S))
         /\ Len(Listed(S)) = Cardinality(S) /\ Cardinality(S) \in Nat
<1> DEFINE q == Listed(S)
<1>1. q \in Seq(S) /\ Range(q) = S /\ \A i, j \in DOMAIN q : q[i] = q[j] => i = j
  BY ListedOnce DEF Lists
<1> HIDE DEF q
<1>2. DOMAIN q = 1 .. Len(q) /\ Len(q) \in Nat /\ q \in [1 .. Len(q) -> S]
  BY <1>1
<1>3. \A x \in S : \E i \in 1 .. Len(q) : q[i] = x
  BY <1>1, <1>2 DEF Range
<1>4. q \in Bijection(1 .. Len(q), S)
  BY <1>1, <1>2, <1>3 DEF Bijection, Injection, Surjection, IsInjective
<1>5. Cardinality(S) = Len(q)
  BY <1>2, <1>4, FS_CountingElements DEF ExistsBijection
<1> QED  BY <1>1, <1>2, <1>5 DEF q

\* a criterion has at most n soft clauses, all over V
Soft(q, V, n) ==
  /\ q \in Seq(Range(q)) /\ AllOver(Range(q), V)
  /\ Len(q) \in Nat /\ Len(q) <= n

LEMMA SoftSet ==
  ASSUME NEW V, NEW S, IsFiniteSet(S), AllOver(S, V), NEW n \in Nat, Cardinality(S) <= n
  PROVE  Soft(Listed(S), V, n)
<1>1. /\ Listed(S) \in Seq(S) /\ Range(Listed(S)) = S
      /\ Len(Listed(S)) = Cardinality(S) /\ Cardinality(S) \in Nat
  BY ListedSize
<1> QED  BY <1>1 DEF Soft

LEMMA SoftImage ==
  ASSUME NEW V, NEW S, IsFiniteSet(S), NEW f, DOMAIN f = S, \A x \in S : Over(f[x], V),
         NEW n \in Nat, Cardinality(S) <= n
  PROVE  Soft(Listed({f[x] : x \in S}), V, n)
<1> DEFINE T == {f[x] : x \in S}
<1>1. IsFiniteSet(T) /\ Cardinality(T) <= Cardinality(S)
  BY ImageOf
<1>2. AllOver(T, V)
  BY DEF AllOver
<1> HIDE DEF T
<1>3. Cardinality(T) \in Nat /\ Cardinality(S) \in Nat
  BY <1>1, FS_CardinalityType
<1>4. Cardinality(T) <= n
  BY <1>1, <1>3
<1>5. Soft(Listed(T), V, n)
  BY <1>1, <1>2, <1>4, SoftSet
<1> QED  BY <1>5 DEF T

(* What flattening makes of n sequences, one after the other.              *)
Joined(h, q, n, X) ==
  /\ h \in [0 .. n -> Seq(X)] /\ h[0] = << >>
  /\ \A k \in 1 .. n : q[k] \in Seq(X) /\ h[k] = h[k - 1] \o q[k]

Flattens(f, q, n, X) == Joined(f, q, n, X) /\ FlattenSeq(q) = f[n]

\* the recursion of FlattenSeq
FlatRec(f, q, n) == f = [i \in 1 .. n |-> IF i = 1 THEN q[i] ELSE f[i - 1] \o q[i]]

\* the joined sequences solve it
LEMMA FlatSolved ==
  ASSUME NEW X, NEW n \in Nat, n # 0, NEW q, NEW h, Joined(h, q, n, X)
  PROVE  \E f : FlatRec(f, q, n)
<1> DEFINE r == [i \in 1 .. n |-> h[i]]
<1>1. ASSUME NEW i \in 1 .. n PROVE r[i] = IF i = 1 THEN q[i] ELSE r[i - 1] \o q[i]
  <2>1. CASE i = 1
    <3>1. h[i] = h[i - 1] \o q[i] /\ q[i] \in Seq(X) /\ i - 1 = 0
      <4>1. h[i] = h[i - 1] \o q[i]
        BY DEF Joined
      <4>2. q[i] \in Seq(X)
        BY DEF Joined
      <4> QED  BY <2>1, <4>1, <4>2
    <3>2. h[i] = << >> \o q[i]
      BY <3>1 DEF Joined
    <3>3. h[i] = q[i]
      BY <3>1, <3>2
    <3> QED  BY <2>1, <3>3
  <2>2. CASE i # 1
    <3>1. i - 1 \in 1 .. n
      BY <2>2
    <3>2. h[i] = h[i - 1] \o q[i]
      BY DEF Joined
    <3> QED  BY <2>2, <3>1, <3>2
  <2> QED  BY <2>1, <2>2
<1>2. r = [i \in 1 .. n |-> r[i]]
  OBVIOUS
<1> HIDE DEF r
<1>3. FlatRec(r, q, n)
  BY <1>1, <1>2 DEF FlatRec
<1> QED  BY <1>3

\* and nothing else does
LEMMA FlatUnique ==
  ASSUME NEW X, NEW n \in Nat, n # 0, NEW q, NEW h, Joined(h, q, n, X),
         NEW f, FlatRec(f, q, n)
  PROVE  f[n] = h[n]
<1>1. ASSUME NEW i \in 1 .. n PROVE f[i] = IF i = 1 THEN q[i] ELSE f[i - 1] \o q[i]
  BY DEF FlatRec
<1> DEFINE S == {i \in 0 .. n : i # 0 => f[i] = h[i]}
<1>2. ASSUME NEW k \in 1 .. n, k - 1 \in S PROVE k \in S
  <2>1. CASE k = 1
    <3>1. h[k] = h[k - 1] \o q[k] /\ q[k] \in Seq(X) /\ k - 1 = 0 /\ f[k] = q[k]
      <4>1. h[k] = h[k - 1] \o q[k]
        BY DEF Joined
      <4>2. q[k] \in Seq(X)
        BY DEF Joined
      <4>3. f[k] = q[k]
        BY <1>1, <2>1
      <4> QED  BY <2>1, <4>1, <4>2, <4>3
    <3>2. h[k] = << >> \o q[k]
      BY <3>1 DEF Joined
    <3>3. h[k] = f[k]
      BY <3>1, <3>2
    <3> QED  BY <2>1, <3>3
  <2>2. CASE k # 1
    <3>1. f[k - 1] = h[k - 1] /\ k \in 0 .. n
      BY <1>2, <2>2
    <3>2. f[k] = f[k - 1] \o q[k]
      BY <1>1, <2>2
    <3>3. h[k] = h[k - 1] \o q[k]
      BY DEF Joined
    <3>4. f[k] = h[k]
      BY <3>1, <3>2, <3>3
    <3> QED  BY <3>1, <3>4
  <2> QED  BY <2>1, <2>2
<1>3. 0 \in S
  OBVIOUS
<1> HIDE DEF S
<1>4. 0 .. n \subseteq S
  BY <1>2, <1>3, UpTo
<1> QED  BY <1>4 DEF S

LEMMA Flattened ==
  ASSUME NEW X, NEW q, NEW n \in Nat, n = Len(q), \A k \in 1 .. n : q[k] \in Seq(X), n = 0 => q = << >>
  PROVE  \E f : Flattens(f, q, n, X)
<1> DEFINE D == Seq(X)
           F == CHOOSE f : FlatRec(f, q, n)
           H == [k \in Nat |-> [t \in D |-> IF k \in 1 .. n THEN t \o q[k] ELSE t]]
<1>1. FlattenSeq(q) = IF n = 0 THEN q ELSE F[n]
  BY DEF FlattenSeq, FlatRec
<1>2. \A k \in 1 .. n : \A t \in D : t \o q[k] \in D
  OBVIOUS
<1>3. << >> \in D /\ StepsOf(H, D)
  BY <1>2 DEF StepsOf
<1>4. \A k \in 1 .. n : \A t \in D : H[k][t] = t \o q[k]
  OBVIOUS
<1> HIDE DEF D, H
<1>5. PICK h : Chain(h, n, D, << >>, H)
  BY <1>3, Iteration
<1>6. Joined(h, q, n, X) /\ h[0] = << >>
  <2>1. \A k \in 1 .. n : k - 1 \in 0 .. n
    OBVIOUS
  <2>2. h \in [0 .. n -> D] /\ h[0] = << >> /\ \A k \in 1 .. n : h[k] = h[k - 1] \o q[k]
    BY <1>4, <1>5, <2>1 DEF Chain
  <2> QED  BY <2>2 DEF Joined, D
<1>7. FlattenSeq(q) = h[n]
  <2>1. CASE n = 0
    BY <1>1, <1>6, <2>1
  <2>2. CASE n # 0
    <3> HIDE DEF F
    <3>1. FlatRec(F, q, n)
      BY <1>6, <2>2, FlatSolved DEF F
    <3>2. F[n] = h[n]
      BY <1>6, <2>2, <3>1, FlatUnique
    <3> QED  BY <1>1, <2>2, <3>2
  <2> QED  BY <2>1, <2>2
<1>8. Flattens(h, q, n, X)
  BY <1>6, <1>7 DEF Flattens
<1> QED  BY <1>8


\* a list of recommendations: a sequence of disjunctions
Recommending(cnf) == cnf \in Seq(Range(cnf)) /\ \A k \in DOMAIN cnf : \A vp \in Range(cnf[k]) : Askable(vp)

Finitely(s) == IsFiniteSet(s.needed) /\ \A i \in s.needed : Recommending(Unit(s, i).recommends)

\* its recommended conjuncts
Recommended(s, i) == {i} \X DOMAIN Unit(s, i).recommends

LEMMA RecommendedSize ==
  ASSUME NEW s, Finitely(s), NEW i \in s.needed
  PROVE  /\ IsFiniteSet(Recommended(s, i)) /\ Len(Unit(s, i).recommends) \in Nat
         /\ Cardinality(Recommended(s, i)) = Len(Unit(s, i).recommends)
         /\ DOMAIN Unit(s, i).recommends = 1 .. Len(Unit(s, i).recommends)
<1> DEFINE cnf == Unit(s, i).recommends
           n == Len(cnf)
<1>1. cnf \in Seq(Range(cnf))
  BY DEF Finitely, Recommending
<1> HIDE DEF cnf
<1>2. n \in Nat /\ DOMAIN cnf = 1 .. n
  BY <1>1
<1> HIDE DEF n
<1>3. IsFiniteSet(1 .. n) /\ Cardinality(1 .. n) = n
  BY <1>2, FS_Interval
<1>4. IsFiniteSet({i}) /\ Cardinality({i}) = 1
  BY FS_Singleton
<1>5. IsFiniteSet({i} \X (1 .. n)) /\ Cardinality({i} \X (1 .. n)) = 1 * n
  BY <1>3, <1>4, FS_Product
<1>6. 1 * n = n
  BY <1>2
<1> QED  BY <1>2, <1>5, <1>6 DEF Recommended, n, cnf

\* the clauses of the recommendations of a unit
LEMMA RecommendClauses ==
  ASSUME NEW s, Finitely(s), NEW V, NEW i \in s.needed,
         \A k \in DOMAIN Unit(s, i).recommends : Over(EncodeRecommends(s, i)[k], V),
         NEW X, Range(EncodeRecommends(s, i)) \subseteq X
  PROVE  /\ EncodeRecommends(s, i) \in Seq(X)
         /\ Len(EncodeRecommends(s, i)) = Len(Unit(s, i).recommends)
         /\ \A c \in Range(EncodeRecommends(s, i)) : Over(c, V)
<1> DEFINE t == EncodeRecommends(s, i)
           l == Len(Unit(s, i).recommends)
<1>1. l \in Nat /\ DOMAIN Unit(s, i).recommends = 1 .. l
  BY RecommendedSize
<1>2. t = [k \in 1 .. l |-> t[k]]
  BY <1>1 DEF EncodeRecommends, Implications
<1>3. \A k \in 1 .. l : Over(t[k], V)
  BY <1>1
<1>4. Range(t) \subseteq X
  OBVIOUS
<1> HIDE DEF t, l
<1>5. DOMAIN t = 1 .. l
  BY <1>2
<1>6. \A k \in 1 .. l : t[k] \in X
  BY <1>4, <1>5 DEF Range
<1>7. t \in Seq(X) /\ Len(t) = l
  BY <1>1, <1>2, <1>6
<1>8. \A c \in Range(t) : Over(c, V)
  BY <1>3, <1>5 DEF Range
<1> QED  BY <1>7, <1>8 DEF t, l

\* the clauses of all recommendations, one after the other
LEMMA RecommendsListed ==
  ASSUME NEW s, Finitely(s), NEW V,
         \A i \in s.needed : \A k \in DOMAIN Unit(s, i).recommends : Over(EncodeRecommends(s, i)[k], V)
  PROVE  /\ IsFiniteSet(Recommendations(s)) /\ Cardinality(Recommendations(s)) \in Nat
         /\ LET ids == Listed(s.needed)
            IN  Soft(FlattenSeq([k \in DOMAIN ids |-> EncodeRecommends(s, ids[k])]), V, Cardinality(Recommendations(s)))
<1> DEFINE ids == Listed(s.needed)
           n == Len(ids)
           q == [k \in DOMAIN ids |-> EncodeRecommends(s, ids[k])]
           X == UNION {Range(EncodeRecommends(s, i)) : i \in s.needed}
           R(k) == UNION {Recommended(s, ids[j]) : j \in 1 .. k}
<1>1. /\ ids \in Seq(s.needed) /\ Range(ids) = s.needed /\ n \in Nat /\ DOMAIN ids = 1 .. n
      /\ \A j, k \in DOMAIN ids : ids[j] = ids[k] => j = k
  <2>1. IsFiniteSet(s.needed)
    BY DEF Finitely
  <2>2. Lists(ids, s.needed)
    BY <2>1, ListedOnce
  <2> HIDE DEF ids
  <2>3. ids \in Seq(s.needed) /\ Range(ids) = s.needed /\ \A j, k \in DOMAIN ids : ids[j] = ids[k] => j = k
    BY <2>2 DEF Lists
  <2> QED  BY <2>3
<1>2. ASSUME NEW i \in s.needed
      PROVE  /\ EncodeRecommends(s, i) \in Seq(X)
             /\ Len(EncodeRecommends(s, i)) = Len(Unit(s, i).recommends)
             /\ \A c \in Range(EncodeRecommends(s, i)) : Over(c, V)
  <2>1. Range(EncodeRecommends(s, i)) \subseteq X
    OBVIOUS
  <2> HIDE DEF X
  <2> QED  BY <2>1, RecommendClauses
<1>3. \A k \in 1 .. n : ids[k] \in s.needed
  BY <1>1
<1> HIDE DEF ids
<1>4. Len(q) = n /\ (n = 0 => q = << >>) /\ \A k \in 1 .. n : q[k] = EncodeRecommends(s, ids[k]) /\ q[k] \in Seq(X)
  <2> HIDE DEF X, n
  <2>1. DOMAIN q = 1 .. n /\ \A k \in 1 .. n : q[k] = EncodeRecommends(s, ids[k])
    BY <1>1
  <2>2. Len(q) = n /\ (n = 0 => q = << >>)
    BY <1>1
  <2> HIDE DEF q
  <2> QED  BY <1>2, <1>3, <2>1, <2>2
<1> HIDE DEF q, X
<1>5. PICK f : Flattens(f, q, n, X)
  BY <1>1, <1>4, Flattened
<1>6. ASSUME NEW k \in 1 .. n
      PROVE  R(k) = R(k - 1) \cup Recommended(s, ids[k]) /\ R(k - 1) \cap Recommended(s, ids[k]) = {}
  <2>1. n \in Nat /\ 1 .. k = (1 .. k - 1) \cup {k}
    BY <1>1
  <2>2. R(k) = R(k - 1) \cup Recommended(s, ids[k])
    BY <2>1
  <2>3. \A j \in 1 .. k - 1 : ids[j] # ids[k]
    BY <1>1
  <2>4. \A j \in 1 .. k - 1 : \A r \in Recommended(s, ids[j]) : r[1] = ids[j]
    BY DEF Recommended
  <2>5. \A r \in Recommended(s, ids[k]) : r[1] = ids[k]
    BY DEF Recommended
  <2> QED  BY <2>2, <2>3, <2>4, <2>5
<1> DEFINE S == {k \in 0 .. n : IsFiniteSet(R(k)) /\ Cardinality(R(k)) = Len(f[k])}
<1>7. 0 \in S
  <2>1. R(0) = {}
    OBVIOUS
  <2>2. f[0] = << >>
    BY <1>5 DEF Flattens, Joined
  <2> HIDE DEF R
  <2>3. IsFiniteSet(R(0)) /\ Cardinality(R(0)) = 0
    BY <2>1, FS_EmptySet
  <2>4. Len(f[0]) = 0
    BY <2>2
  <2>5. 0 \in 0 .. n
    BY <1>1
  <2> QED  BY <2>3, <2>4, <2>5
<1>8. ASSUME NEW k \in 1 .. n, k - 1 \in S PROVE k \in S
  <2> DEFINE A == R(k - 1)
             B == Recommended(s, ids[k])
  <2>1. R(k) = A \cup B /\ A \cap B = {}
    BY <1>6
  <2>2. IsFiniteSet(A) /\ Cardinality(A) = Len(f[k - 1])
    BY <1>8
  <2>3. IsFiniteSet(B) /\ Cardinality(B) = Len(q[k])
    BY <1>2, <1>3, <1>4, RecommendedSize
  <2>4. f[k] = f[k - 1] \o q[k] /\ f[k - 1] \in Seq(X) /\ q[k] \in Seq(X)
    <3>1. k - 1 \in 0 .. n
      BY <1>1
    <3>2. f[k] = f[k - 1] \o q[k]
      BY <1>5 DEF Flattens, Joined
    <3>3. f[k - 1] \in Seq(X)
      BY <1>5, <3>1 DEF Flattens, Joined
    <3> QED  BY <1>4, <3>2, <3>3
  <2>5. Len(f[k]) = Len(f[k - 1]) + Len(q[k]) /\ Len(f[k - 1]) \in Nat /\ Len(q[k]) \in Nat
    BY <2>4
  <2> HIDE DEF R, A, B
  <2>6. IsFiniteSet(A \cup B) /\ Cardinality(A \cup B) = Cardinality(A) + Cardinality(B) - Cardinality({})
    BY <2>1, <2>2, <2>3, FS_Union
  <2>7. Cardinality({}) = 0
    BY FS_EmptySet
  <2>8. k \in 0 .. n
    BY <1>1
  <2>9. IsFiniteSet(R(k))
    BY <2>1, <2>6
  <2>10. Cardinality(A \cup B) = Len(f[k])
    <3> HIDE DEF S
    <3>1. Cardinality(A \cup B) = Len(f[k - 1]) + Len(q[k]) - 0
      BY <2>2, <2>3, <2>6, <2>7
    <3>2. Len(f[k - 1]) + Len(q[k]) - 0 = Len(f[k])
      BY <2>5
    <3> QED  BY <3>1, <3>2
  <2>11. Cardinality(R(k)) = Len(f[k])
    BY <2>1, <2>10
  <2> QED  BY <2>8, <2>9, <2>11
<1>9. IsFiniteSet(R(n)) /\ Cardinality(R(n)) = Len(f[n])
  <2> HIDE DEF S
  <2>1. 0 .. n \subseteq S
    BY <1>1, <1>7, <1>8, UpTo
  <2>2. n \in S
    BY <1>1, <2>1
  <2> QED  BY <2>2 DEF S
<1>10. R(n) = Recommendations(s)
  <2>1. \A i \in s.needed : \E j \in 1 .. n : ids[j] = i
    BY <1>1 DEF Range
  <2>2. Recommendations(s) = UNION {Recommended(s, i) : i \in s.needed}
    BY DEF Recommendations, Recommended
  <2> QED  BY <1>3, <2>1, <2>2
<1>11. FlattenSeq(q) = f[n] /\ f[n] \in Seq(X)
  <2>1. n \in 0 .. n
    BY <1>1
  <2> QED  BY <1>5, <2>1 DEF Flattens, Joined
<1>12. \A c \in X : Over(c, V)
  BY <1>2 DEF X
<1> DEFINE t == FlattenSeq(q)
<1>13. Soft(t, V, Cardinality(Recommendations(s)))
  <2>1. t \in Seq(X)
    BY <1>11
  <2>2. Len(t) = Cardinality(Recommendations(s))
    BY <1>9, <1>10, <1>11
  <2> HIDE DEF t
  <2>3. t \in Seq(Range(t)) /\ Len(t) \in Nat /\ Range(t) \subseteq X
    BY <2>1 DEF Range
  <2> QED  BY <1>12, <2>2, <2>3 DEF Soft, AllOver
<1> HIDE DEF R
<1>14. Cardinality(Recommendations(s)) \in Nat
  BY <1>9, <1>10, FS_CardinalityType
<1> QED  BY <1>9, <1>10, <1>13, <1>14 DEF q, ids

LEMMA NamesCounted ==
  ASSUME NEW s, Finitely(s)
  PROVE  /\ IsFiniteSet(NeededNames(s)) /\ Cardinality(NeededNames(s)) \in Nat
         /\ \A S \in SUBSET NeededNames(s) :
              IsFiniteSet(S) /\ Cardinality(S) \in Nat /\ Cardinality(S) <= Cardinality(NeededNames(s))
<1> DEFINE f == [i \in s.needed |-> Unit(s, i).name]
<1>1. NeededNames(s) = {f[i] : i \in s.needed} /\ DOMAIN f = s.needed /\ IsFiniteSet(s.needed)
  BY DEF NeededNames, Finitely
<1> HIDE DEF f
<1>2. IsFiniteSet({f[i] : i \in s.needed})
  BY <1>1, ImageOf
<1>3. IsFiniteSet(NeededNames(s))
  BY <1>1, <1>2
<1>4. \A S \in SUBSET NeededNames(s) : IsFiniteSet(S) /\ Cardinality(S) <= Cardinality(NeededNames(s))
  BY <1>3, FS_Subset
<1> QED  BY <1>3, <1>4, FS_CardinalityType

\* a variable for each of some names
LEMMA SoftNames ==
  ASSUME NEW s, Finitely(s), NEW V, NEW S, S \subseteq NeededNames(s), NEW f, DOMAIN f = S,
         \A n \in S : Over(f[n], V)
  PROVE  Soft(Listed({f[n] : n \in S}), V, Cardinality(NeededNames(s)))
<1>1. /\ IsFiniteSet(S) /\ Cardinality(S) <= Cardinality(NeededNames(s))
      /\ Cardinality(NeededNames(s)) \in Nat
  BY NamesCounted
<1> QED  BY <1>1, SoftImage

CriterionFits(s, V, c) ==
  /\ Soft(EncodeCriterion(s, c).soft, V, CriterionTop(s, c)) /\ CriterionTop(s, c) \in Nat
  /\ AllOver(EncodeCriterion(s, c).hard, V)

LEMMA NameVariables ==
  ASSUME NEW s, NEW m \in Nat, Encodable(s, m), NEW V, Room(s, V), NEW n \in NeededNames(s)
  PROVE  /\ \A k \in Tags : <<k, n, Lowest(s, n)>> \in V /\ <<k, n, 0>> \in V
         /\ NewestNeeded(s, n) \in V
<1> DEFINE S == UnitVersions(s, n)
<1>1. S \subseteq 0 .. m /\ S \subseteq Nat /\ S # {}
  BY DEF UnitVersions, NeededUnits, NeededNames, Encodable
<1> HIDE DEF S
<1>2. Min(S) \in S /\ Max(S) \in S
  BY <1>1, LeastOf, GreatestOf
<1>3. Lowest(s, n) \in UnitVersions(s, n) /\ Max(UnitVersions(s, n)) \in UnitVersions(s, n)
  BY <1>2 DEF S, Lowest
<1>4. \A k \in Tags : <<k, n, Lowest(s, n)>> \in V /\ <<k, n, 0>> \in V
  BY <1>3 DEF Room
<1>5. NewestNeeded(s, n) \in V
  BY <1>3, OverUnits DEF NewestNeeded
<1> QED  BY <1>4, <1>5

LEMMA NewFits ==
  ASSUME NEW s, NEW m \in Nat, Encodable(s, m), NEW V, Room(s, V), Finitely(s), NEW max
  PROVE  Soft(EncodeNew(s, max).soft, V, Cardinality(NeededNames(s))) /\ AllOver(EncodeNew(s, max).hard, V)
<1> DEFINE S == NeededNames(s) \ WithInstalled(s)
           f == [n \in S |-> {Pos(<<IF max THEN "ru" ELSE "du", n, Lowest(s, n)>>)}]
<1>1. EncodeNew(s, max).soft = Listed({f[n] : n \in S}) /\ EncodeNew(s, max).hard = {}
  BY DEF EncodeNew
<1>2. ASSUME NEW n \in S PROVE Over(f[n], V)
  <2> DEFINE k == IF max THEN "ru" ELSE "du"
             x == <<k, n, Lowest(s, n)>>
  <2>1. k \in Tags
    BY DEF Tags
  <2>2. f[n] = {Pos(x)}
    OBVIOUS
  <2> HIDE DEF k, f
  <2>3. x \in V
    BY <2>1, NameVariables
  <2> HIDE DEF x
  <2> QED  BY <2>2, <2>3, OverLiterals DEF Over
<1>3. S \subseteq NeededNames(s) /\ DOMAIN f = S
  OBVIOUS
<1> HIDE DEF S, f
<1>4. Soft(Listed({f[n] : n \in S}), V, Cardinality(NeededNames(s)))
  BY <1>2, <1>3, SoftNames
<1> QED  BY <1>1, <1>4 DEF AllOver

LEMMA RemovedFits ==
  ASSUME NEW s, NEW m \in Nat, Encodable(s, m), NEW V, Room(s, V), Finitely(s), NEW max
  PROVE  Soft(EncodeRemoved(s, max).soft, V, Cardinality(NeededNames(s))) /\ AllOver(EncodeRemoved(s, max).hard, V)
<1> DEFINE S == WithInstalled(s) \ NotRemovedNames(s)
           f == [n \in S |-> IF max THEN {Pos(<<"du", n, Lowest(s, n)>>)} ELSE RequireAny(s, n)]
<1>1. EncodeRemoved(s, max).soft = Listed({f[n] : n \in S}) /\ EncodeRemoved(s, max).hard = {}
  BY DEF EncodeRemoved
<1>2. S \subseteq NeededNames(s) /\ DOMAIN f = S
  BY DEF WithInstalled
<1>3. ASSUME NEW n \in S PROVE Over(f[n], V)
  <2>1. n \in NeededNames(s)
    BY <1>2
  <2>2. <<"du", n, Lowest(s, n)>> \in V
    BY <2>1, NameVariables DEF Tags
  <2>3. Over(RequireAny(s, n), V)
    BY <2>1, OverNotRemoved
  <2>4. Over({Pos(<<"du", n, Lowest(s, n)>>)}, V)
    BY <2>2, OverLiterals DEF Over
  <2>5. f[n] = IF max THEN {Pos(<<"du", n, Lowest(s, n)>>)} ELSE RequireAny(s, n)
    OBVIOUS
  <2> HIDE DEF f
  <2> QED  BY <2>3, <2>4, <2>5
<1> HIDE DEF S, f
<1>4. Soft(Listed({f[n] : n \in S}), V, Cardinality(NeededNames(s)))
  BY <1>2, <1>3, SoftNames
<1> QED  BY <1>1, <1>4 DEF AllOver

LEMMA NotUpToDateFits ==
  ASSUME NEW s, NEW m \in Nat, Encodable(s, m), NEW V, Room(s, V), Finitely(s), NEW max
  PROVE  /\ Soft(EncodeNotUpToDate(s, max).soft, V, Cardinality(NeededNames(s)))
         /\ AllOver(EncodeNotUpToDate(s, max).hard, V)
<1> DEFINE several == {n \in NeededNames(s) : Cardinality(NeededUnits(s, n)) > 1}
           stays == several \cap NotRemovedNames(s)
           Lit(x) == IF max THEN Not(x) ELSE x
           F(n) == {Lit(Pos(NewestNeeded(s, n)))}
           G(n) == {Lit(Neg(<<"out", n, 0>>))}
           f == [n \in several |-> IF n \in stays THEN F(n) ELSE G(n)]
<1>1. {F(n) : n \in stays} \cup {G(n) : n \in several \ stays} = {f[n] : n \in several}
  <2> HIDE DEF F, G
  <2> QED  OBVIOUS
<1>2. /\ EncodeNotUpToDate(s, max).soft = Listed({f[n] : n \in several})
      /\ EncodeNotUpToDate(s, max).hard = UNION {OutOfDate(s, n) : n \in several \ stays}
  BY <1>1 DEF EncodeNotUpToDate
<1>3. several \subseteq NeededNames(s) /\ DOMAIN f = several
  OBVIOUS
<1>4. ASSUME NEW n \in several PROVE Over(f[n], V)
  <2>1. <<"out", n, 0>> \in V /\ NewestNeeded(s, n) \in V
    BY NameVariables DEF Tags
  <2>2. \A x : Lit(x)[1] = x[1]
    BY OverLiterals
  <2> HIDE DEF Lit
  <2>3. Over(F(n), V) /\ Over(G(n), V)
    BY <2>1, <2>2, OverLiterals DEF Over
  <2> HIDE DEF F, G
  <2> QED  BY <2>3
<1> HIDE DEF several, f, stays
<1>5. Soft(Listed({f[n] : n \in several}), V, Cardinality(NeededNames(s)))
  BY <1>3, <1>4, SoftNames
<1>6. ASSUME NEW n \in NeededNames(s) PROVE AllOver(OutOfDate(s, n), V)
  <2> DEFINE any == <<"any", n, 0>>
             out == <<"out", n, 0>>
             X == {PV(n, v) : v \in UnitVersions(s, n)}
             newest == NewestNeeded(s, n)
  <2>1. OutOfDate(s, n) = {{Pos(any), Neg(x)} : x \in X}
          \cup {{Neg(any)} \cup {Pos(x) : x \in X},
                {Pos(out), Neg(any), Pos(newest)}, {Neg(out), Pos(any)}, {Neg(out), Neg(newest)}}
    BY DEF OutOfDate
  <2>2. any \in V /\ out \in V /\ newest \in V
    BY NameVariables DEF Tags
  <2>3. \A x \in X : x \in V
    BY OverUnits
  <2> HIDE DEF any, out, X, newest
  <2>4. Over({Neg(any)} \cup {Pos(x) : x \in X}, V)
    BY <2>2, <2>3, OverLiterals DEF Over
  <2>5. \A x \in X : Over({Pos(any), Neg(x)}, V)
    BY <2>2, <2>3, OverLiterals DEF Over
  <2>6. Over({Pos(out), Neg(any), Pos(newest)}, V) /\ Over({Neg(out), Pos(any)}, V) /\ Over({Neg(out), Neg(newest)}, V)
    BY <2>2, OverLiterals DEF Over
  <2>7. \A c \in OutOfDate(s, n) :
          \/ \E x \in X : c = {Pos(any), Neg(x)}
          \/ c = {Neg(any)} \cup {Pos(x) : x \in X}
          \/ c = {Pos(out), Neg(any), Pos(newest)} \/ c = {Neg(out), Pos(any)} \/ c = {Neg(out), Neg(newest)}
    BY <2>1
  <2> QED  BY <2>4, <2>5, <2>6, <2>7 DEF AllOver
<1>7. AllOver(EncodeNotUpToDate(s, max).hard, V)
  <2>1. \A c \in EncodeNotUpToDate(s, max).hard : \E n \in NeededNames(s) : c \in OutOfDate(s, n)
    BY <1>2, <1>3
  <2> QED  BY <1>6, <2>1 DEF AllOver
<1> QED  BY <1>2, <1>5, <1>7

LEMMA ChangedFits ==
  ASSUME NEW s, NEW m \in Nat, Encodable(s, m), NEW V, Room(s, V), Finitely(s), NEW max
  PROVE  Soft(EncodeChanged(s, max).soft, V, Cardinality(NeededNames(s))) /\ AllOver(EncodeChanged(s, max).hard, V)
<1> DEFINE S == NeededNames(s)
           f == [n \in S |-> {<<<<"unchanged", n, 0>>, ~ max>>}]
<1>1. EncodeChanged(s, max).soft = Listed({f[n] : n \in S})
  BY DEF EncodeChanged
<1>2. ASSUME NEW n \in S PROVE Over(f[n], V)
  <2> DEFINE x == <<"unchanged", n, 0>>
  <2>1. x \in V
    BY NameVariables DEF Tags
  <2>2. f[n] = {<<x, ~ max>>}
    OBVIOUS
  <2> HIDE DEF x, f
  <2> QED  BY <2>1, <2>2 DEF Over
<1>3. S \subseteq NeededNames(s) /\ DOMAIN f = S
  OBVIOUS
<1> HIDE DEF S, f
<1>4. Soft(Listed({f[n] : n \in S}), V, Cardinality(NeededNames(s)))
  BY <1>2, <1>3, SoftNames
<1>5. ASSUME NEW n \in NeededNames(s) PROVE AllOver(Unchanged(s, n), V)
  <2> DEFINE x == <<"unchanged", n, 0>>
             U == NeededUnits(s, n)
             L(i) == <<UnitVar(s, i), ~ Unit(s, i).installed>>
  <2>1. Unchanged(s, n) = {{Neg(x), Not(L(i))} : i \in U} \cup {{Pos(x)} \cup {L(i) : i \in U}}
    BY DEF Unchanged
  <2>2. x \in V
    BY NameVariables DEF Tags
  <2>3. \A i \in U : L(i)[1] \in V
    BY OverUnits DEF NeededUnits
  <2> HIDE DEF x, U, L
  <2>4. \A i \in U : Over({Neg(x), Not(L(i))}, V)
    BY <2>2, <2>3, OverLiterals DEF Over
  <2>5. Over({Pos(x)} \cup {L(i) : i \in U}, V)
    BY <2>2, <2>3, OverLiterals DEF Over
  <2> QED  BY <2>1, <2>4, <2>5 DEF AllOver
<1>6. AllOver(EncodeChanged(s, max).hard, V)
  BY <1>5 DEF EncodeChanged, AllOver
<1> QED  BY <1>1, <1>4, <1>6

LEMMA UnmetFits ==
  ASSUME NEW s, NEW m \in Nat, Encodable(s, m), NEW V, Room(s, V), Finitely(s), NEW max
  PROVE  /\ Soft(EncodeUnmetRecommends(s, max).soft, V, Cardinality(Recommendations(s)))
         /\ AllOver(EncodeUnmetRecommends(s, max).hard, V)
         /\ Cardinality(Recommendations(s)) \in Nat
<1> DEFINE ids == Listed(s.needed)
           flat == FlattenSeq([k \in DOMAIN ids |-> EncodeRecommends(s, ids[k])])
           R == Recommendations(s)
           point(r) == <<"point", Unit(s, r[1]).name, r>>
           f == [r \in R |-> Broken(s, r).soft]
<1>1. ASSUME NEW i \in s.needed, NEW k \in DOMAIN Unit(s, i).recommends
      PROVE  Over(EncodeRecommends(s, i)[k], V)
  <2> DEFINE cnf == Unit(s, i).recommends
             c == {Neg(UnitVar(s, i))} \cup RequestsToClause(s, cnf[k])
  <2>1. \A j \in DOMAIN cnf : \A vp \in Range(cnf[j]) : Askable(vp)
    BY DEF Finitely, Recommending
  <2>2. Implications(s, i, cnf)[k] = c /\ Over(c, V)
    <3> HIDE DEF cnf
    <3>1. k \in DOMAIN cnf
      BY DEF cnf
    <3> QED  BY <2>1, <3>1, OverRequests
  <2>3. EncodeRecommends(s, i) = Implications(s, i, cnf)
    BY DEF EncodeRecommends
  <2> HIDE DEF c, cnf
  <2> QED  BY <2>2, <2>3
<1>2. IsFiniteSet(R) /\ Cardinality(R) \in Nat /\ Soft(flat, V, Cardinality(R))
  BY <1>1, RecommendsListed
<1>3. \A r \in R : r[1] \in s.needed /\ r[2] \in DOMAIN Unit(s, r[1]).recommends
  BY DEF Recommendations
<1>4. ASSUME NEW r \in R PROVE Over(Broken(s, r).soft, V) /\ AllOver(Broken(s, r).hard, V)
  <2> DEFINE x == <<"broken", Unit(s, r[1]).name, r>>
             y == point(r)
             z == UnitVar(s, r[1])
             terms == UNION {DisableToTerm(s, vp) : vp \in Range(Unit(s, r[1]).recommends[r[2]])}
  <2>1. Broken(s, r).soft = {Pos(y)}
        /\ Broken(s, r).hard = {{Neg(x), l} : l \in terms} \cup {{Neg(y), Pos(x)}, {Neg(y), Pos(z)}}
    BY DEF Broken
  <2>2. x \in V /\ y \in V
    BY DEF Room
  <2>3. z \in V
    BY <1>3, OverUnits
  <2>4. \A vp \in Range(Unit(s, r[1]).recommends[r[2]]) : Askable(vp)
    BY <1>3 DEF Finitely, Recommending
  <2>5. Over(terms, V)
    BY <2>4, OverRequest DEF Over
  <2> HIDE DEF x, y, z, terms
  <2>6. Over({Pos(y)}, V) /\ Over({Neg(y), Pos(x)}, V) /\ Over({Neg(y), Pos(z)}, V)
    BY <2>2, <2>3, OverLiterals DEF Over
  <2>7. \A l \in terms : Over({Neg(x), l}, V)
    BY <2>2, <2>5, OverLiterals DEF Over
  <2>8. \A c \in Broken(s, r).hard :
          (\E l \in terms : c = {Neg(x), l}) \/ c = {Neg(y), Pos(x)} \/ c = {Neg(y), Pos(z)}
    BY <2>1
  <2>9. AllOver(Broken(s, r).hard, V)
    BY <2>6, <2>7, <2>8 DEF AllOver
  <2>10. Over(Broken(s, r).soft, V)
    BY <2>1, <2>6
  <2> QED  BY <2>9, <2>10
<1>5. CASE max
  <2>1. EncodeUnmetRecommends(s, max).soft = Listed({f[r] : r \in R})
        /\ EncodeUnmetRecommends(s, max).hard = UNION {Broken(s, r).hard : r \in R}
    BY <1>5 DEF EncodeUnmetRecommends
  <2>2. DOMAIN f = R /\ \A r \in R : Over(f[r], V)
    BY <1>4
  <2>3. AllOver(UNION {Broken(s, r).hard : r \in R}, V)
    BY <1>4 DEF AllOver
  <2> HIDE DEF f, R
  <2>4. Cardinality(R) <= Cardinality(R)
    BY <1>2
  <2>5. Soft(Listed({f[r] : r \in R}), V, Cardinality(R))
    BY <1>2, <2>2, <2>4, SoftImage
  <2> QED  BY <1>2, <2>1, <2>3, <2>5 DEF R
<1>6. CASE ~ max
  <2>1. EncodeUnmetRecommends(s, max).soft = flat /\ EncodeUnmetRecommends(s, max).hard = {}
    BY <1>6 DEF EncodeUnmetRecommends
  <2> HIDE DEF flat
  <2> QED  BY <1>2, <2>1 DEF AllOver
<1> QED  BY <1>5, <1>6

LEMMA CriteriaFit ==
  ASSUME NEW s, NEW m \in Nat, Encodable(s, m), NEW V, Room(s, V), Finitely(s), NEW c, c.word \in Words
  PROVE  CriterionFits(s, V, c)
<1>1. CASE c.word = "unmet_recommends"
  <2>1. EncodeCriterion(s, c) = EncodeUnmetRecommends(s, c.max) /\ CriterionTop(s, c) = Cardinality(Recommendations(s))
    BY <1>1 DEF EncodeCriterion, CriterionTop
  <2> QED  BY <2>1, UnmetFits DEF CriterionFits
<1>2. CASE c.word # "unmet_recommends"
  <2>1. CriterionTop(s, c) = Cardinality(NeededNames(s))
    BY <1>2 DEF CriterionTop
  <2>2. CriterionTop(s, c) \in Nat
    BY <2>1, NamesCounted
  <2>3. CASE c.word = "new"
    <3>1. EncodeCriterion(s, c) = EncodeNew(s, c.max)
      BY <2>3 DEF EncodeCriterion
    <3> QED  BY <2>1, <2>2, <3>1, NewFits DEF CriterionFits
  <2>4. CASE c.word = "removed"
    <3>1. EncodeCriterion(s, c) = EncodeRemoved(s, c.max)
      BY <2>4 DEF EncodeCriterion
    <3> QED  BY <2>1, <2>2, <3>1, RemovedFits DEF CriterionFits
  <2>5. CASE c.word = "notuptodate"
    <3>1. EncodeCriterion(s, c) = EncodeNotUpToDate(s, c.max)
      BY <2>5 DEF EncodeCriterion
    <3> QED  BY <2>1, <2>2, <3>1, NotUpToDateFits DEF CriterionFits
  <2>6. CASE c.word = "changed"
    <3>1. EncodeCriterion(s, c) = EncodeChanged(s, c.max)
      BY <2>6 DEF EncodeCriterion
    <3> QED  BY <2>1, <2>2, <3>1, ChangedFits DEF CriterionFits
  <2> QED  BY <1>2, <2>3, <2>4, <2>5, <2>6 DEF Words
<1> QED  BY <1>1, <1>2

-----------------------------------------------------------------------------
(* The weights of the soft clauses *)

\* a fold from the left that goes from b by the steps H, of numbers
NumberFold(f, n, b, H) ==
  f = [T \in SUBSET (1 .. n) |-> IF T = {} THEN b ELSE H[Max(T)][f[T \ {Max(T)}]]]

LEMMA NumbersFolded ==
  ASSUME NEW n \in Nat, NEW b \in Nat, NEW H \in [1 .. n -> [Nat -> Nat]]
  PROVE  \E f : NumberFold(f, n, b, H) /\ \A T \in SUBSET (1 .. n) : f[T] \in Nat
<1> DEFINE U == 1 .. n
           D == [T \in SUBSET U |-> Nat]
           ch == [T \in SUBSET U |-> Max(T)]
           G == [T \in SUBSET U |-> H[Max(T)]]
<1>1. IsFiniteSet(U)
  BY FS_Interval
<1>2. \A T \in SUBSET U : T # {} => Max(T) \in T
  <2>1. \A T \in SUBSET U : T \subseteq 0 .. n
    OBVIOUS
  <2> QED  BY <2>1, GreatestOf
<1>3. FoldSteps(U, D, ch, G)
  <2> SUFFICES ASSUME NEW T \in SUBSET U, T # {}
               PROVE  ch[T] \in T /\ \A q \in D[T \ {ch[T]}] : G[T][q] \in D[T]
    BY DEF FoldSteps
  <2>1. ch[T] \in T /\ T \ {ch[T]} \in SUBSET U /\ G[T] = H[ch[T]]
    BY <1>2
  <2>2. H[ch[T]] \in [Nat -> Nat]
    BY <2>1
  <2> HIDE DEF G, ch
  <2> QED  BY <2>1, <2>2
<1>4. b \in D[{}]
  OBVIOUS
<1> HIDE DEF D, ch, G
<1>5. PICK f : FoldIs(f, U, D, b, ch, G)
  BY <1>1, <1>3, <1>4, FoldExists
<1>6. NumberFold(f, n, b, H) /\ \A T \in SUBSET U : f[T] \in Nat
  BY <1>5 DEF FoldIs, NumberFold, ch, G, D
<1> QED  BY <1>6

(* What a fold gives after k elements.                                     *)
LEMMA NumbersInTurn ==
  ASSUME NEW n \in Nat, NEW b, NEW H, NEW f, NumberFold(f, n, b, H)
  PROVE  f[1 .. 0] = b /\ \A k \in 1 .. n : f[1 .. k] = H[k][f[1 .. k - 1]]
<1>1. \A T \in SUBSET (1 .. n) : f[T] = IF T = {} THEN b ELSE H[Max(T)][f[T \ {Max(T)}]]
  BY DEF NumberFold
<1>2. f[1 .. 0] = b
  <2>1. 1 .. 0 = {} /\ {} \in SUBSET (1 .. n)
    OBVIOUS
  <2> QED  BY <1>1, <2>1
<1>3. ASSUME NEW k \in 1 .. n PROVE f[1 .. k] = H[k][f[1 .. k - 1]]
  <2> DEFINE T == 1 .. k
  <2>1. T \in SUBSET (1 .. n) /\ T # {} /\ Max(T) = k /\ T \ {k} = 1 .. k - 1
    BY Initials
  <2> HIDE DEF T
  <2>2. f[T] = H[k][f[T \ {k}]]
    BY <1>1, <2>1
  <2> QED  BY <2>1, <2>2 DEF T
<1> QED  BY <1>2, <1>3

(* The weight that makes a clause a hard one, criterion by criterion.      *)
TopSteps(g, s) ==
  /\ g[0] = 0 /\ Top(s) = 1 + g[Len(s.lex)]
  /\ \A k \in 1 .. Len(s.lex) : g[k] = g[k - 1] + (g[k - 1] + 1) * CriterionTop(s, s.lex[k])
  /\ \A k \in 0 .. Len(s.lex) : g[k] \in Nat

LEMMA TopInSteps ==
  ASSUME NEW s, Len(s.lex) \in Nat, DOMAIN s.lex = 1 .. Len(s.lex),
         \A k \in 1 .. Len(s.lex) : CriterionTop(s, s.lex[k]) \in Nat
  PROVE  \E g : TopSteps(g, s)
<1> DEFINE n == Len(s.lex)
           H == [k \in 1 .. n |-> [t \in Nat |-> t + (t + 1) * CriterionTop(s, s.lex[k])]]
           E(f) == f = [T \in SUBSET (1 .. n) |->
                          IF T = {} THEN 0
                          ELSE f[T \ {Max(T)}] + (f[T \ {Max(T)}] + 1) * CriterionTop(s, s.lex[Max(T)])]
           iter == CHOOSE f : E(f)
<1>1. Top(s) = 1 + iter[1 .. n]
  BY DEF Top, FoldLeft, MapThenFoldSet
<1>2. H \in [1 .. n -> [Nat -> Nat]]
  <2>1. \A k \in 1 .. n : \A t \in Nat : t + (t + 1) * CriterionTop(s, s.lex[k]) \in Nat
    <3> TAKE k \in 1 .. n
    <3> TAKE t \in Nat
    <3> DEFINE x == CriterionTop(s, s.lex[k])
    <3>1. x \in Nat
      OBVIOUS
    <3> HIDE DEF x
    <3> QED  BY <3>1
  <2> QED  BY <2>1
<1>3. \A T \in SUBSET (1 .. n) : T # {} => Max(T) \in 1 .. n
  <2>1. \A T \in SUBSET (1 .. n) : T \subseteq 0 .. n
    OBVIOUS
  <2> QED  BY <2>1, GreatestOf
<1>4. \A k \in 1 .. n : \A t \in Nat : H[k][t] = t + (t + 1) * CriterionTop(s, s.lex[k])
  OBVIOUS
<1> HIDE DEF H
<1>5. PICK f : NumberFold(f, n, 0, H) /\ \A T \in SUBSET (1 .. n) : f[T] \in Nat
  BY <1>2, NumbersFolded
<1>6. E(f)
  <2>1. ASSUME NEW T \in SUBSET (1 .. n)
        PROVE  f[T] = IF T = {} THEN 0
                      ELSE f[T \ {Max(T)}] + (f[T \ {Max(T)}] + 1) * CriterionTop(s, s.lex[Max(T)])
    <3>1. f[T] = IF T = {} THEN 0 ELSE H[Max(T)][f[T \ {Max(T)}]]
      BY <1>5 DEF NumberFold
    <3>2. f[T \ {Max(T)}] \in Nat
      <4>1. T \ {Max(T)} \in SUBSET (1 .. n)
        OBVIOUS
      <4> QED  BY <1>5, <4>1
    <3> QED  BY <1>3, <1>4, <3>1, <3>2
  <2>2. f = [T \in SUBSET (1 .. n) |-> f[T]]
    BY <1>5 DEF NumberFold
  <2> QED  BY <2>1, <2>2
<1> HIDE DEF E
<1>7. E(iter)
  BY <1>6
<1> HIDE DEF iter
<1> DEFINE g == [k \in 0 .. n |-> iter[1 .. k]]
<1>8. g[0] = 0
  <2>1. 1 .. 0 = {} /\ {} \in SUBSET (1 .. n)
    OBVIOUS
  <2> QED  BY <1>7, <2>1 DEF E
<1>9. ASSUME NEW k \in 1 .. n
      PROVE  g[k] = g[k - 1] + (g[k - 1] + 1) * CriterionTop(s, s.lex[k])
  <2> DEFINE T == 1 .. k
  <2>1. T \in SUBSET (1 .. n) /\ T # {} /\ Max(T) = k /\ T \ {k} = 1 .. k - 1 /\ k - 1 \in 0 .. n /\ k \in 0 .. n
    BY Initials
  <2>2. g[k] = iter[T] /\ g[k - 1] = iter[1 .. k - 1]
    BY <2>1
  <2> HIDE DEF T, g
  <2>3. iter[T] = iter[T \ {Max(T)}] + (iter[T \ {Max(T)}] + 1) * CriterionTop(s, s.lex[Max(T)])
    BY <1>7, <2>1 DEF E
  <2> QED  BY <2>1, <2>2, <2>3
<1>10. g[n] = iter[1 .. n]
  OBVIOUS
<1> HIDE DEF g
<1> DEFINE S == {k \in 0 .. n : g[k] \in Nat}
<1>11. 0 .. n \subseteq S
  <2>1. ASSUME NEW k \in 1 .. n, k - 1 \in S PROVE k \in S
    <3> DEFINE x == CriterionTop(s, s.lex[k])
    <3>1. x \in Nat /\ g[k] = g[k - 1] + (g[k - 1] + 1) * x
      BY <1>9
    <3> HIDE DEF x
    <3>2. g[k - 1] \in Nat
      BY <2>1
    <3>3. \A y \in Nat : y + (y + 1) * x \in Nat
      BY <3>1
    <3>4. g[k] \in Nat
      <4> HIDE DEF g
      <4> QED  BY <3>1, <3>2, <3>3
    <3> QED  BY <3>4
  <2>2. 0 \in S
    BY <1>8
  <2> HIDE DEF S
  <2> QED  BY <2>1, <2>2, UpTo
<1>12. TopSteps(g, s)
  BY <1>1, <1>8, <1>9, <1>10, <1>11 DEF TopSteps
<1> QED  BY <1>12

(***************************************************************************)
(* Weighted soft clauses over V whose weights add up to t: B is the sum of *)
(* the first ones.                                                         *)
(***************************************************************************)
SumsTo(B, q, V) ==
  /\ Len(q) \in Nat /\ q \in Seq(Range(q))
  /\ B \in [0 .. Len(q) -> Nat] /\ B[0] = 0
  /\ \A k \in 1 .. Len(q) : q[k][2] \in Nat /\ B[k] = B[k - 1] + q[k][2] /\ Over(q[k][1], V)
Budget(q, V, t) == \E B : SumsTo(B, q, V) /\ B[Len(q)] = t

\* a clause does not weigh more than all of them
LEMMA WeightWithin ==
  ASSUME NEW q, NEW V, NEW t, Budget(q, V, t), NEW c
  PROVE  Weight(q, c) \in Nat /\ Weight(q, c) <= t
<1> DEFINE n == Len(q)
           H == [k \in 1 .. n |-> [x \in Nat |-> IF q[k][1] = c THEN x + q[k][2] ELSE x]]
           E(f) == f = [T \in SUBSET (DOMAIN q) |->
                          IF T = {} THEN 0
                          ELSE IF q[Max(T)][1] = c THEN f[T \ {Max(T)}] + q[Max(T)][2] ELSE f[T \ {Max(T)}]]
           iter == CHOOSE f : E(f)
<1>1. Weight(q, c) = iter[DOMAIN q]
  BY DEF Weight, FoldLeft, MapThenFoldSet
<1>2. PICK B : SumsTo(B, q, V) /\ B[n] = t
  BY DEF Budget
<1>3. n \in Nat /\ DOMAIN q = 1 .. n /\ \A k \in 1 .. n : q[k][2] \in Nat
  BY <1>2 DEF SumsTo
<1>4. H \in [1 .. n -> [Nat -> Nat]]
  <2>1. \A k \in 1 .. n : \A x \in Nat : (IF q[k][1] = c THEN x + q[k][2] ELSE x) \in Nat
    BY <1>3
  <2> QED  BY <2>1
<1>5. \A T \in SUBSET (1 .. n) : T # {} => Max(T) \in 1 .. n
  <2>1. \A T \in SUBSET (1 .. n) : T \subseteq 0 .. n
    OBVIOUS
  <2> QED  BY <1>3, <2>1, GreatestOf
<1>6. \A k \in 1 .. n : \A x \in Nat : H[k][x] = IF q[k][1] = c THEN x + q[k][2] ELSE x
  OBVIOUS
<1> HIDE DEF H, n
<1>7. PICK f : NumberFold(f, n, 0, H) /\ \A T \in SUBSET (1 .. n) : f[T] \in Nat
  BY <1>3, <1>4, NumbersFolded
<1>8. E(f)
  <2>1. ASSUME NEW T \in SUBSET (1 .. n)
        PROVE  f[T] = IF T = {} THEN 0
                      ELSE IF q[Max(T)][1] = c THEN f[T \ {Max(T)}] + q[Max(T)][2] ELSE f[T \ {Max(T)}]
    <3>1. f[T] = IF T = {} THEN 0 ELSE H[Max(T)][f[T \ {Max(T)}]]
      BY <1>7 DEF NumberFold
    <3>2. f[T \ {Max(T)}] \in Nat
      <4>1. T \ {Max(T)} \in SUBSET (1 .. n)
        OBVIOUS
      <4> QED  BY <1>7, <4>1
    <3> QED  BY <1>5, <1>6, <3>1, <3>2
  <2>2. f = [T \in SUBSET (1 .. n) |-> f[T]]
    BY <1>7 DEF NumberFold
  <2> QED  BY <1>3, <2>1, <2>2
<1> HIDE DEF E
<1>9. E(iter)
  BY <1>8
<1> HIDE DEF iter
<1> DEFINE g == [k \in 0 .. n |-> iter[1 .. k]]
<1>10. g[0] = 0
  <2>1. 1 .. 0 = {} /\ {} \in SUBSET (DOMAIN q) /\ 0 \in 0 .. n
    BY <1>3
  <2>2. iter[{}] = 0
    BY <1>9, <2>1 DEF E
  <2> QED  BY <2>1, <2>2
<1>11. ASSUME NEW k \in 1 .. n
       PROVE  g[k] = IF q[k][1] = c THEN g[k - 1] + q[k][2] ELSE g[k - 1]
  <2> DEFINE T == 1 .. k
  <2>1. T \in SUBSET (DOMAIN q) /\ T # {} /\ Max(T) = k /\ T \ {k} = 1 .. k - 1 /\ k - 1 \in 0 .. n /\ k \in 0 .. n
    <3>1. k \in Nat /\ k # 0 /\ k <= n
      BY <1>3
    <3>2. T # {} /\ Max(T) = k /\ T \ {k} = 1 .. k - 1 /\ k - 1 \in Nat
      BY <3>1, Initials
    <3> QED  BY <1>3, <3>1, <3>2
  <2>2. g[k] = iter[T] /\ g[k - 1] = iter[1 .. k - 1]
    BY <2>1
  <2> HIDE DEF T, g
  <2>3. iter[T] = IF q[Max(T)][1] = c THEN iter[T \ {Max(T)}] + q[Max(T)][2] ELSE iter[T \ {Max(T)}]
    BY <1>9, <2>1 DEF E
  <2> QED  BY <2>1, <2>2, <2>3
<1>12. g[n] = Weight(q, c)
  BY <1>1, <1>3
<1> HIDE DEF g
<1> DEFINE S == {k \in 0 .. n : g[k] \in Nat /\ g[k] <= B[k]}
<1>13. 0 .. n \subseteq S
  <2>0. \A k \in 0 .. n : B[k] \in Nat
    BY <1>2 DEF SumsTo, n
  <2>1. ASSUME NEW k \in 1 .. n, k - 1 \in S PROVE k \in S
    <3>1. k \in 0 .. n /\ g[k - 1] \in Nat /\ B[k - 1] \in Nat /\ g[k - 1] <= B[k - 1] /\ q[k][2] \in Nat
      BY <1>3, <2>0, <2>1
    <3>2. B[k] = B[k - 1] + q[k][2]
      BY <1>2 DEF SumsTo, n
    <3>3. g[k] \in Nat /\ g[k] <= B[k]
      BY <1>11, <3>1, <3>2
    <3> QED  BY <3>1, <3>3
  <2>2. 0 \in S
    BY <1>2, <1>3, <1>10 DEF SumsTo
  <2> HIDE DEF S
  <2> QED  BY <1>3, <2>1, <2>2, UpTo
<1> QED  BY <1>2, <1>3, <1>12, <1>13

LEMMA OfItsRange ==
  ASSUME NEW X, NEW z \in Seq(X), NEW R, R = Range(z)
  PROVE  z \in Seq(R)
<1>1. Len(z) \in Nat /\ z \in [1 .. Len(z) -> X] /\ DOMAIN z = 1 .. Len(z)
  BY LenProperties
<1>2. \A k \in 1 .. Len(z) : z[k] \in R
  BY <1>1 DEF Range
<1>3. z \in [1 .. Len(z) -> R]
  BY <1>1, <1>2
<1>4. \A y, T, l : l \in Nat /\ y \in [1 .. l -> T] => y \in Seq(T)
  OBVIOUS
<1> QED  BY <1>1, <1>3, <1>4

\* z is q and then u
IsJoin(z, q, u) ==
  /\ z \in Seq(Range(z)) /\ Len(z) = Len(q) + Len(u) /\ DOMAIN z = 1 .. Len(q) + Len(u)
  /\ \A k \in 1 .. Len(q) : z[k] = q[k]
  /\ \A k \in 1 .. Len(u) : z[Len(q) + k] = u[k]

LEMMA TwoJoined ==
  ASSUME NEW X, NEW q \in Seq(X), NEW u \in Seq(X), NEW z, z = q \o u
  PROVE  IsJoin(z, q, u)
<1>1. /\ z \in Seq(X) /\ Len(z) = Len(q) + Len(u) /\ Len(q) \in Nat /\ Len(u) \in Nat
      /\ \A i \in 1 .. Len(q) + Len(u) : z[i] = IF i <= Len(q) THEN q[i] ELSE u[i - Len(q)]
  BY ConcatProperties, LenProperties
<1>2. DOMAIN z = 1 .. Len(z)
  BY <1>1, LenProperties
<1>3. z \in Seq(Range(z))
  BY <1>1, OfItsRange
<1>4. \A k \in 1 .. Len(q) : z[k] = q[k]
  BY <1>1
<1>5. \A k \in 1 .. Len(u) : z[Len(q) + k] = u[k]
  <2> TAKE k \in 1 .. Len(u)
  <2>1. Len(q) + k \in 1 .. Len(q) + Len(u) /\ ~ (Len(q) + k <= Len(q)) /\ (Len(q) + k) - Len(q) = k
    BY <1>1
  <2> QED  BY <1>1, <2>1
<1> QED  BY <1>1, <1>2, <1>3, <1>4, <1>5 DEF IsJoin

\* the clauses of one more criterion, all of weight w
LEMMA BudgetAdded ==
  ASSUME NEW q, NEW V, NEW t \in Nat, Budget(q, V, t), NEW n \in Nat, NEW r, Soft(r, V, n), NEW w \in Nat
  PROVE  /\ Budget(q \o [k \in DOMAIN r |-> <<r[k], w>>], V, t + w * Len(r))
         /\ Len(r) \in Nat /\ Len(r) <= n
<1> DEFINE l == Len(q)
           a == Len(r)
           u == [k \in DOMAIN r |-> <<r[k], w>>]
           z == q \o u
<1>1. PICK B : SumsTo(B, q, V) /\ B[l] = t
  BY DEF Budget
<1>2. l \in Nat /\ q \in Seq(Range(q)) /\ DOMAIN q = 1 .. l
  BY <1>1 DEF SumsTo
<1>3. a \in Nat /\ DOMAIN r = 1 .. a /\ a <= n /\ \A k \in 1 .. a : Over(r[k], V)
  BY DEF Soft, AllOver, Range
<1>4. u \in Seq(Range(u)) /\ Len(u) = a /\ \A k \in 1 .. a : u[k] = <<r[k], w>>
  BY <1>3 DEF Range
<1>5. /\ z \in Seq(Range(z)) /\ Len(z) = l + a /\ DOMAIN z = 1 .. l + a
      /\ \A k \in 1 .. l : z[k] = q[k]
      /\ \A k \in 1 .. a : z[l + k] = <<r[k], w>>
  <2> HIDE DEF u, a
  <2> DEFINE X == Range(q) \cup Range(u)
  <2>1. q \in Seq(X) /\ u \in Seq(X)
    BY <1>2, <1>4
  <2> HIDE DEF X, z
  <2>2. z = q \o u
    BY DEF z
  <2>3. IsJoin(z, q, u)
    <3> HIDE DEF l
    <3> QED  BY <2>1, <2>2, TwoJoined
  <2> QED  BY <1>4, <2>3 DEF IsJoin
<1> DEFINE C == [k \in 0 .. l + a |-> IF k <= l THEN B[k] ELSE t + w * (k - l)]
<1> HIDE DEF u, z
<1>6. C \in [0 .. l + a -> Nat] /\ C[0] = 0
  <2>1. \A k \in 0 .. l : B[k] \in Nat
    BY <1>1 DEF SumsTo
  <2>2. \A x \in Nat : t + w * x \in Nat
    OBVIOUS
  <2>3. \A k \in 0 .. l + a : k <= l \/ k - l \in Nat
    BY <1>2, <1>3
  <2>4. B[0] = 0
    BY <1>1 DEF SumsTo
  <2>5. ASSUME NEW k \in 0 .. l + a PROVE C[k] \in Nat
    <3>1. CASE k <= l
      BY <1>2, <1>3, <2>1, <3>1
    <3>2. CASE ~ (k <= l)
      <4>1. C[k] = t + w * (k - l) /\ k - l \in Nat
        BY <1>2, <1>3, <3>2
      <4> HIDE DEF C
      <4> QED  BY <2>2, <4>1
    <3> QED  BY <3>1, <3>2
  <2>6. C = [k \in 0 .. l + a |-> C[k]] /\ C[0] = 0
    BY <1>2, <1>3, <2>4
  <2> HIDE DEF C, l, a
  <2> QED  BY <2>5, <2>6
<1>7. ASSUME NEW k \in 1 .. l + a
      PROVE  z[k][2] \in Nat /\ C[k] = C[k - 1] + z[k][2] /\ Over(z[k][1], V)
  <2>1. CASE k <= l
    <3>1. k \in 1 .. l /\ C[k] = B[k] /\ C[k - 1] = B[k - 1] /\ z[k] = q[k]
      BY <1>2, <1>3, <1>5, <2>1
    <3>2. q[k][2] \in Nat /\ B[k] = B[k - 1] + q[k][2] /\ Over(q[k][1], V)
      BY <1>1, <3>1 DEF SumsTo
    <3> QED  BY <3>1, <3>2
  <2>2. CASE ~ (k <= l)
    <3> DEFINE i == k - l
    <3>1. i \in 1 .. a /\ i - 1 \in Nat /\ k = l + i /\ k - 1 \in 0 .. l + a
      BY <1>2, <1>3, <2>2
    <3> HIDE DEF i
    <3>2. z[k] = <<r[i], w>>
      BY <1>5, <3>1
    <3>3. C[k] = t + w * i
      BY <1>2, <1>3, <2>2, <3>1
    <3>4. C[k - 1] = t + w * (i - 1)
      <4>1. CASE i = 1
        <5>1. C[k - 1] = B[l]
          BY <1>2, <1>3, <3>1, <4>1
        <5>2. w * (i - 1) = 0
          BY <4>1
        <5> QED  BY <1>1, <5>1, <5>2
      <4>2. CASE i # 1
        <5>1. ~ (k - 1 <= l) /\ (k - 1) - l = i - 1
          BY <1>2, <3>1, <4>2
        <5> QED  BY <3>1, <5>1
      <4> QED  BY <4>1, <4>2
    <3>5. w * i = w * (i - 1) + w
      <4>1. \A x \in Nat : w * (x + 1) = w * x + w
        OBVIOUS
      <4> QED  BY <3>1, <4>1
    <3>6. w * i \in Nat /\ w * (i - 1) \in Nat
      BY <3>1
    <3>7. C[k] = C[k - 1] + w
      <4> HIDE DEF C
      <4> QED  BY <3>3, <3>4, <3>5, <3>6
    <3> QED  BY <1>3, <3>1, <3>2, <3>7
  <2> QED  BY <2>1, <2>2
<1>8. C[l + a] = t + w * a
  <2>1. CASE a = 0
    <3>1. C[l + a] = B[l] /\ w * a = 0
      BY <1>2, <2>1
    <3> QED  BY <1>1, <3>1
  <2>2. CASE a # 0
    BY <1>2, <1>3, <2>2
  <2> QED  BY <2>1, <2>2
<1> HIDE DEF C
<1>9. SumsTo(C, z, V)
  BY <1>2, <1>3, <1>5, <1>6, <1>7 DEF SumsTo
<1>10. Budget(z, V, t + w * a)
  BY <1>5, <1>8, <1>9 DEF Budget
<1> QED  BY <1>3, <1>10 DEF z, u

\* what is collected is over V, and its weights add up to t
InBudget(a, V, t) ==
  Budget(a.soft, V, t) /\ t \in Nat /\ a.total \in Nat /\ a.total <= t /\ AllOver(a.hard, V)

LEMMA Products ==
  ASSUME NEW a \in Nat, NEW b \in Nat, NEW c \in Nat, NEW d \in Nat, a <= b, c <= d
  PROVE  a * c <= b * d /\ a * c \in Nat /\ b * d \in Nat
<1>1. a * c <= b * c
  OBVIOUS
<1>2. b * c <= b * d
  OBVIOUS
<1>3. a * c \in Nat /\ b * c \in Nat /\ b * d \in Nat
  OBVIOUS
<1> QED  BY <1>1, <1>2, <1>3

LEMMA CriterionAdded ==
  ASSUME NEW s, NEW V, NEW a, NEW t, InBudget(a, V, t), NEW c, CriterionFits(s, V, c)
  PROVE  \E u : InBudget(AddCriterion(s, a, c), V, u) /\ u <= t + (t + 1) * CriterionTop(s, c)
<1> DEFINE q == EncodeCriterion(s, c)
           w == a.total + 1
           l == Len(q.soft)
           x == CriterionTop(s, c)
           u == t + w * l
           counted == IF c.word = "unmet_recommends" /\ c.max THEN 0 ELSE l
           z == AddCriterion(s, a, c)
<1>1. /\ z.total = a.total + w * counted /\ z.hard = a.hard \cup q.hard
      /\ z.soft = a.soft \o [k \in DOMAIN q.soft |-> <<q.soft[k], w>>]
  BY DEF AddCriterion
<1>2. w \in Nat /\ t \in Nat /\ a.total \in Nat /\ w <= t + 1 /\ Budget(a.soft, V, t)
  BY DEF InBudget
<1>3. x \in Nat /\ Soft(q.soft, V, x) /\ AllOver(q.hard, V) /\ AllOver(a.hard, V)
  BY DEF CriterionFits, InBudget
<1> DEFINE r == q.soft
<1> HIDE DEF w, x, z, q
<1>4. Budget(z.soft, V, u) /\ l \in Nat /\ l <= x
  <2>1. Soft(r, V, x)
    BY <1>3
  <2> HIDE DEF r
  <2>2. Budget(a.soft \o [k \in DOMAIN r |-> <<r[k], w>>], V, t + w * Len(r)) /\ Len(r) \in Nat /\ Len(r) <= x
    BY <1>2, <1>3, <2>1, BudgetAdded
  <2> QED  BY <1>1, <2>2 DEF r
<1> HIDE DEF l
<1>5. w * l <= (t + 1) * x /\ w * l \in Nat /\ (t + 1) * x \in Nat
  <2>1. t + 1 \in Nat
    BY <1>2
  <2> QED  BY <1>2, <1>3, <1>4, <2>1, Products
<1>6. counted = 0 \/ counted = l
  OBVIOUS
<1> HIDE DEF counted
<1>7. w * counted \in Nat /\ w * counted <= w * l
  <2>1. w * 0 = 0
    BY <1>2
  <2> QED  BY <1>5, <1>6, <2>1
<1>8. u \in Nat /\ u <= t + (t + 1) * x
  BY <1>2, <1>5
<1>9. a.total <= t
  BY DEF InBudget
<1>10. z.total \in Nat /\ z.total <= u
  <2> DEFINE y == w * counted
             v == w * l
  <2>1. y \in Nat /\ v \in Nat /\ y <= v /\ z.total = a.total + y /\ u = t + v
    BY <1>1, <1>5, <1>7
  <2> HIDE DEF y, v, u
  <2> QED  BY <1>2, <1>9, <2>1
<1>11. AllOver(z.hard, V)
  BY <1>1, <1>3 DEF AllOver
<1>12. InBudget(z, V, u)
  <2> HIDE DEF u
  <2> QED  BY <1>4, <1>8, <1>10, <1>11 DEF InBudget, u
<1> QED  BY <1>8, <1>12 DEF z, x

(***************************************************************************)
(* The weights of all soft clauses add up to less than the weight of a     *)
(* hard clause: get_top goes through the criteria from the first one, the  *)
(* encoder from the last one.                                              *)
(***************************************************************************)
LEMMA LexicographicFits ==
  ASSUME NEW s, NEW V, Len(s.lex) \in Nat, DOMAIN s.lex = 1 .. Len(s.lex),
         \A k \in 1 .. Len(s.lex) : CriterionFits(s, V, s.lex[k])
  PROVE  \E t \in Nat : InBudget(EncodeLexicographic(s), V, t) /\ t < Top(s)
<1> DEFINE n == Len(s.lex)
<1>1. PICK g : LexSteps(g, s)
  BY LexicographicSteps
<1>2. \A k \in 1 .. n : CriterionTop(s, s.lex[k]) \in Nat
  BY DEF CriterionFits
<1>3. PICK f : TopSteps(f, s)
  BY <1>2, TopInSteps
<1> DEFINE S == {k \in 0 .. n : \E t \in Nat : InBudget(g[k], V, t) /\ (t + 1) * (f[n - k] + 1) <= f[n] + 1}
<1>4. \A k \in 0 .. n : f[k] \in Nat
  BY <1>3 DEF TopSteps
<1>5. 0 \in S
  <2>1. g[0] = Nothing
    BY <1>1 DEF LexSteps
  <2>2. SumsTo([k \in {0} |-> 0], << >>, V)
    <3>1. Len(<< >>) = 0 /\ 0 .. 0 = {0} /\ 1 .. 0 = {} /\ \A T : << >> \in Seq(T)
      OBVIOUS
    <3>2. [k \in {0} |-> 0] \in [{0} -> Nat] /\ [k \in {0} |-> 0][0] = 0
      OBVIOUS
    <3> QED  BY <3>1, <3>2 DEF SumsTo
  <2>3. Budget(<< >>, V, 0)
    BY <2>2 DEF Budget
  <2>4. InBudget(Nothing, V, 0)
    BY <2>3 DEF InBudget, Nothing, AllOver
  <2>5. (0 + 1) * (f[n] + 1) <= f[n] + 1 /\ n - 0 = n
    BY <1>4
  <2> QED  BY <2>1, <2>4, <2>5
<1>6. ASSUME NEW k \in 1 .. n, k - 1 \in S PROVE k \in S
  <2> DEFINE j == n - k + 1
             c == s.lex[j]
             x == CriterionTop(s, c)
             F == f[n - k]
             G == f[n]
  <2>1. j \in 1 .. n /\ n - (k - 1) = j /\ j - 1 = n - k /\ n - k \in 0 .. n /\ k \in 0 .. n
    OBVIOUS
  <2>2. PICK t \in Nat : InBudget(g[k - 1], V, t) /\ (t + 1) * (f[j] + 1) <= G + 1
    BY <1>6, <2>1
  <2>3. x \in Nat /\ CriterionFits(s, V, c)
    BY <1>2, <2>1
  <2>4. F \in Nat /\ G \in Nat /\ f[j] = F + (F + 1) * x
    <3>1. f[j] = f[j - 1] + (f[j - 1] + 1) * x
      BY <1>3, <2>1 DEF TopSteps
    <3> QED  BY <1>4, <2>1, <3>1
  <2>5. g[k] = AddCriterion(s, g[k - 1], c)
    BY <1>1 DEF LexSteps
  <2> HIDE DEF j, x, F, G, c
  <2>6. PICK u : InBudget(g[k], V, u) /\ u <= t + (t + 1) * x
    <3> DEFINE a == g[k - 1]
    <3>1. InBudget(a, V, t)
      BY <2>2
    <3> HIDE DEF a
    <3>2. \E u : InBudget(AddCriterion(s, a, c), V, u) /\ u <= t + (t + 1) * CriterionTop(s, c)
      BY <2>3, <3>1, CriterionAdded
    <3> QED  BY <2>5, <3>2 DEF a, x
  <2>7. u \in Nat
    BY <2>6 DEF InBudget
  <2>8. (u + 1) * (F + 1) <= G + 1
    <3>1. t + (t + 1) * x + 1 = (t + 1) * (x + 1) /\ t + (t + 1) * x \in Nat
      BY <2>3
    <3>2. F + (F + 1) * x + 1 = (F + 1) * (x + 1)
      BY <2>3, <2>4
    <3>3. (t + 1) * (x + 1) \in Nat /\ u + 1 <= (t + 1) * (x + 1) /\ u + 1 \in Nat /\ F + 1 \in Nat
      <4> DEFINE y == (t + 1) * x
                 v == (t + 1) * (x + 1)
      <4>1. y + t + 1 = v /\ v \in Nat /\ y \in Nat /\ u <= t + y
        BY <2>3, <2>6, <3>1
      <4> HIDE DEF y, v
      <4> QED  BY <2>4, <2>7, <4>1 DEF v
    <3>4. (u + 1) * (F + 1) <= ((t + 1) * (x + 1)) * (F + 1)
      <4> DEFINE v == (t + 1) * (x + 1)
                 y == u + 1
                 z == F + 1
      <4>1. v \in Nat /\ y \in Nat /\ z \in Nat /\ y <= v /\ z <= z
        BY <3>3
      <4> HIDE DEF v, y, z
      <4>2. y * z <= v * z
        BY <4>1, Products
      <4> QED  BY <4>2 DEF v, y, z
    <3>5. ((t + 1) * (x + 1)) * (F + 1) = (t + 1) * ((F + 1) * (x + 1))
      <4>1. \A a, b, d \in Nat : (a * b) * d = a * (d * b)
        OBVIOUS
      <4>2. t + 1 \in Nat /\ x + 1 \in Nat /\ F + 1 \in Nat
        BY <2>3, <2>4
      <4> QED  BY <4>1, <4>2
    <3>6. (t + 1) * ((F + 1) * (x + 1)) <= G + 1
      BY <2>2, <2>4, <3>2
    <3> DEFINE y == (u + 1) * (F + 1)
               v == ((t + 1) * (x + 1)) * (F + 1)
    <3>7. y \in Nat /\ v \in Nat /\ G + 1 \in Nat
      <4>1. \A a, b, d \in Nat : (a * b) * d \in Nat /\ a * b \in Nat
        OBVIOUS
      <4>2. t + 1 \in Nat /\ x + 1 \in Nat
        BY <2>3
      <4> QED  BY <2>4, <3>3, <4>1, <4>2
    <3>8. y <= v /\ v <= G + 1
      BY <3>4, <3>5, <3>6
    <3> HIDE DEF y, v
    <3>9. y <= G + 1
      BY <3>7, <3>8
    <3> QED  BY <3>9 DEF y
  <2> QED  BY <2>1, <2>6, <2>7, <2>8 DEF F, G
<1>7. n \in S
  <2>1. n \in Nat
    OBVIOUS
  <2>2. \A k \in 1 .. n : k - 1 \in S => k \in S
    BY <1>6
  <2> HIDE DEF S, n
  <2>3. 0 .. n \subseteq S
    BY <1>5, <2>1, <2>2, UpTo
  <2> QED  BY <2>1, <2>3
<1>8. PICK t \in Nat : InBudget(g[n], V, t) /\ (t + 1) * (f[n - n] + 1) <= f[n] + 1
  BY <1>7
<1>9. n - n = 0 /\ f[0] = 0 /\ Top(s) = 1 + f[n] /\ f[n] \in Nat
  BY <1>3, <1>4 DEF TopSteps
<1>10. t < Top(s)
  BY <1>8, <1>9
<1>11. g[n] = EncodeLexicographic(s)
  BY <1>1 DEF LexSteps
<1> QED  BY <1>8, <1>10, <1>11

\* no soft clause is as heavy as a hard one, and all are over V
LEMMA NoneIsHeavy ==
  ASSUME NEW s, NEW V, Len(s.lex) \in Nat, DOMAIN s.lex = 1 .. Len(s.lex),
         \A k \in 1 .. Len(s.lex) : CriterionFits(s, V, s.lex[k])
  PROVE  /\ NoneHeavy(s) /\ AllOver(EncodeLexicographic(s).hard, V)
         /\ LET soft == EncodeLexicographic(s).soft
            IN  \A k \in DOMAIN soft : Over(soft[k][1], V)
<1> DEFINE pref == EncodeLexicographic(s)
           soft == pref.soft
<1>1. PICK t \in Nat : InBudget(pref, V, t) /\ t < Top(s)
  BY LexicographicFits
<1>2. Budget(soft, V, t) /\ AllOver(pref.hard, V)
  BY <1>1 DEF InBudget
<1>3. PICK f : TopSteps(f, s)
  BY TopInSteps DEF CriterionFits
<1>4. Top(s) \in Nat
  BY <1>3 DEF TopSteps
<1> HIDE DEF pref
<1>5. NoneHeavy(s)
  <2>1. ASSUME NEW c PROVE ~ (Weight(soft, c) >= Top(s))
    <3>1. Weight(soft, c) \in Nat /\ Weight(soft, c) <= t
      <4> HIDE DEF soft
      <4> QED  BY <1>2, WeightWithin
    <3> QED  BY <1>1, <1>4, <3>1
  <2> QED  BY <2>1 DEF NoneHeavy, pref
<1>6. \A k \in DOMAIN soft : Over(soft[k][1], V)
  <2>1. PICK B : SumsTo(B, soft, V)
    BY <1>2 DEF Budget
  <2>2. DOMAIN soft = 1 .. Len(soft)
    BY <2>1 DEF SumsTo
  <2> QED  BY <2>1, <2>2 DEF SumsTo
<1> QED  BY <1>2, <1>5, <1>6 DEF pref

-----------------------------------------------------------------------------
(* The encoding is finite *)

Named(s) == NeededNames(s) \cup {f[1] : f \in s.features}

\* variables enough for s, if versions are up to m
OfTags(s, m) == {<<k, n, v>> : k \in Tags, n \in Named(s), v \in 0 .. m}
OfPoints(s) == {<<k, Unit(s, r[1]).name, r>> : k \in {"broken", "point"}, r \in Recommendations(s)}
Space(s, m) == OfTags(s, m) \cup OfPoints(s)

LEMMA SpaceRoom ==
  ASSUME NEW s, NEW m \in Nat, Encodable(s, m)
  PROVE  Room(s, Space(s, m))
<1> DEFINE V == Space(s, m)
<1>1. \A x \in V : x = <<x[1], x[2], x[3]>>
  BY DEF Space, OfTags, OfPoints
<1>2. ASSUME NEW n, NEW v \in Versions(s, n) \cup UnitVersions(s, n), NEW k \in Tags PROVE <<k, n, v>> \in V
  <2>1. n \in Named(s)
    BY DEF Versions, UnitVersions, NeededUnits, NeededFeature, NeededNames, Named
  <2>2. v \in 0 .. m
    BY DEF Versions, UnitVersions, NeededUnits, Encodable
  <2> QED  BY <2>1, <2>2 DEF Space, OfTags
<1>3. ASSUME NEW n \in NeededNames(s), NEW k \in Tags PROVE <<k, n, 0>> \in V
  <2>1. n \in Named(s) /\ 0 \in 0 .. m
    BY DEF Named
  <2> QED  BY <2>1 DEF Space, OfTags
<1>4. ASSUME NEW r \in Recommendations(s)
      PROVE  <<"broken", Unit(s, r[1]).name, r>> \in V /\ <<"point", Unit(s, r[1]).name, r>> \in V
  BY DEF Space, OfPoints
<1> HIDE DEF V
<1> QED  BY <1>1, <1>2, <1>3, <1>4 DEF Room, V

LEMMA TagsFinite == IsFiniteSet(Tags) /\ IsFiniteSet({"broken", "point"})
<1>1. \A S, x : IsFiniteSet(S) => IsFiniteSet(S \cup {x})
  BY FS_AddElement
<1>2. IsFiniteSet({})
  BY FS_EmptySet
<1>3. IsFiniteSet({"pv", "ru"}) /\ IsFiniteSet({"broken", "point"})
  <2>1. IsFiniteSet(({} \cup {"pv"}) \cup {"ru"}) /\ IsFiniteSet(({} \cup {"broken"}) \cup {"point"})
    BY <1>1, <1>2
  <2>2. ({} \cup {"pv"}) \cup {"ru"} = {"pv", "ru"} /\ ({} \cup {"broken"}) \cup {"point"} = {"broken", "point"}
    OBVIOUS
  <2> QED  BY <2>1, <2>2
<1>4. IsFiniteSet((((({"pv", "ru"} \cup {"rd"}) \cup {"du"}) \cup {"dd"}) \cup {"any"}) \cup {"out"})
  BY <1>1, <1>3
<1>5. IsFiniteSet(((((({"pv", "ru"} \cup {"rd"}) \cup {"du"}) \cup {"dd"}) \cup {"any"}) \cup {"out"}) \cup {"unchanged"})
  BY <1>1, <1>4
<1>6. (((((({"pv", "ru"} \cup {"rd"}) \cup {"du"}) \cup {"dd"}) \cup {"any"}) \cup {"out"}) \cup {"unchanged"}) = Tags
  BY DEF Tags
<1> QED  BY <1>3, <1>5, <1>6

LEMMA RecommendationsFinite == ASSUME NEW s, Finitely(s) PROVE IsFiniteSet(Recommendations(s))
<1> DEFINE f == [i \in s.needed |-> Recommended(s, i)]
           S == {f[i] : i \in s.needed}
<1>1. IsFiniteSet(s.needed)
  BY DEF Finitely
<1>2. \A i \in s.needed : f[i] = Recommended(s, i)
  OBVIOUS
<1>3. DOMAIN f = s.needed
  OBVIOUS
<1>4. \A i \in s.needed : IsFiniteSet(Recommended(s, i))
  BY RecommendedSize
<1> HIDE DEF f
<1>5. IsFiniteSet(S) /\ \A T \in S : IsFiniteSet(T)
  BY <1>1, <1>2, <1>3, <1>4, ImageOf
<1>6. Recommendations(s) = UNION S
  BY <1>2 DEF Recommendations, Recommended
<1> HIDE DEF S
<1> QED  BY <1>5, <1>6, FS_UNION

LEMMA SpaceFinite ==
  ASSUME NEW s, NEW m \in Nat, Finitely(s), IsFiniteSet(s.features)
  PROVE  IsFiniteSet(Space(s, m))
<1>1. IsFiniteSet(Named(s))
  <2> DEFINE f == [x \in s.features |-> x[1]]
  <2>1. {f[x] : x \in s.features} = {x[1] : x \in s.features} /\ DOMAIN f = s.features
    OBVIOUS
  <2> HIDE DEF f
  <2>2. IsFiniteSet({f[x] : x \in s.features})
    BY <2>1, ImageOf
  <2>3. IsFiniteSet(NeededNames(s))
    BY NamesCounted
  <2> QED  BY <2>1, <2>2, <2>3, FS_Union DEF Named
<1>2. IsFiniteSet(0 .. m)
  <2>1. 0 \in Int /\ m \in Int
    OBVIOUS
  <2> QED  BY <2>1, FS_Interval
<1>3. IsFiniteSet(OfTags(s, m))
  <2> DEFINE Y == Named(s) \X (0 .. m)
             X == Tags \X Y
             f == [x \in X |-> <<x[1], x[2][1], x[2][2]>>]
  <2>1. IsFiniteSet(Y)
    BY <1>1, <1>2, FS_Product
  <2>2. IsFiniteSet(X)
    <3> HIDE DEF Y
    <3> QED  BY <2>1, TagsFinite, FS_Product
  <2>3. \A k \in Tags, n \in Named(s), v \in 0 .. m : <<k, <<n, v>>>> \in X /\ f[<<k, <<n, v>>>>] = <<k, n, v>>
    OBVIOUS
  <2>4. DOMAIN f = X
    OBVIOUS
  <2> HIDE DEF f, X, Y
  <2>5. OfTags(s, m) \subseteq {f[x] : x \in X}
    <3> SUFFICES ASSUME NEW y \in OfTags(s, m) PROVE \E x \in X : y = f[x]
      OBVIOUS
    <3>1. PICK k \in Tags, n \in Named(s), v \in 0 .. m : y = <<k, n, v>>
      BY DEF OfTags
    <3> QED  BY <2>3, <3>1
  <2>6. IsFiniteSet({f[x] : x \in X})
    BY <2>2, <2>4, ImageOf
  <2> QED  BY <2>5, <2>6, FS_Subset
<1>4. IsFiniteSet(OfPoints(s))
  <2> DEFINE K == {"broken", "point"}
             R == Recommendations(s)
             X == K \X R
             f == [x \in X |-> <<x[1], Unit(s, x[2][1]).name, x[2]>>]
  <2>1. IsFiniteSet(X)
    <3> HIDE DEF R, K
    <3>1. IsFiniteSet(K) /\ IsFiniteSet(R)
      BY TagsFinite, RecommendationsFinite DEF K, R
    <3> QED  BY <3>1, FS_Product
  <2>2. \A k \in K, r \in R : <<k, r>> \in X /\ f[<<k, r>>] = <<k, Unit(s, r[1]).name, r>>
    OBVIOUS
  <2>3. DOMAIN f = X
    OBVIOUS
  <2> HIDE DEF f, X
  <2>4. OfPoints(s) \subseteq {f[x] : x \in X}
    <3> SUFFICES ASSUME NEW y \in OfPoints(s) PROVE \E x \in X : y = f[x]
      OBVIOUS
    <3>1. PICK k \in K, r \in R : y = <<k, Unit(s, r[1]).name, r>>
      BY DEF OfPoints
    <3> QED  BY <2>2, <3>1
  <2>5. IsFiniteSet({f[x] : x \in X})
    BY <2>1, <2>3, ImageOf
  <2> QED  BY <2>4, <2>5, FS_Subset
<1> QED  BY <1>3, <1>4, FS_Union DEF Space

\* interval variables of the space are of versions up to m
LEMMA SpaceBounded ==
  ASSUME NEW s, NEW m \in Nat, NEW C, AllOver(C, Space(s, m))
  PROVE  Bounded(C, m)
<1> SUFFICES ASSUME NEW kind \in KindsOfInterval, NEW n, NEW v \in Intervals(C, kind, n) PROVE v \in 0 .. m
  BY DEF Bounded
<1>1. PICK l \in UNION C : l[1][1] = kind /\ l[1][2] = n /\ l[1][3] = v
  BY DEF Intervals
<1>2. l[1] \in Space(s, m)
  BY <1>1 DEF AllOver, Over
<1>3. l[1] \notin OfPoints(s)
  BY <1>1 DEF OfPoints, KindsOfInterval
<1>4. l[1] \in OfTags(s, m)
  BY <1>2, <1>3 DEF Space
<1>5. \A x \in OfTags(s, m) : x[3] \in 0 .. m
  BY DEF OfTags
<1> QED  BY <1>1, <1>4, <1>5

CriteriaKnown(s) ==
  /\ Len(s.lex) \in Nat /\ DOMAIN s.lex = 1 .. Len(s.lex)
  /\ \A k \in 1 .. Len(s.lex) : s.lex[k].word \in Words

\* the criteria fit
LEMMA CriteriaOver ==
  ASSUME NEW s, NEW m \in Nat, Encodable(s, m), NEW V, Room(s, V), Finitely(s), CriteriaKnown(s)
  PROVE  /\ NoneHeavy(s) /\ AllOver(EncodeLexicographic(s).hard, V)
         /\ LET soft == EncodeLexicographic(s).soft
            IN  \A k \in DOMAIN soft : Over(soft[k][1], V)
<1>1. \A k \in 1 .. Len(s.lex) : CriterionFits(s, V, s.lex[k])
  BY CriteriaFit DEF CriteriaKnown
<1> QED  BY <1>1, NoneIsHeavy DEF CriteriaKnown

LEMMA InputOver ==
  ASSUME NEW s, NEW m \in Nat, WellPosed(s, m), NEW V, Room(s, V), Finitely(s), CriteriaKnown(s)
  PROVE  AllOver(Input(s), V)
<1> DEFINE pref == EncodeLexicographic(s)
<1>1. Encodable(s, m)
  BY DEF WellPosed
<1>2. AllOver(pref.hard, V) /\ \A k \in DOMAIN pref.soft : Over(pref.soft[k][1], V)
  BY <1>1, CriteriaOver
<1>3. AllOver(Demanded(s), V) /\ AllOver(AssertNotRemoved(s), V)
  BY <1>1, OverDemanded, OverNotRemoved
<1> HIDE DEF pref
<1>4. Written(s, pref) = Demanded(s) \cup pref.hard \cup AssertNotRemoved(s)
  BY DEF Written, Demanded
<1>5. Input(s) = Written(s, pref) \cup {pref.soft[k][1] : k \in DOMAIN pref.soft}
  BY DEF Input, pref
<1> QED  BY <1>2, <1>3, <1>4, <1>5 DEF AllOver

(***************************************************************************)
(* The encoding of a well-posed problem has finitely many variables, no    *)
(* soft clause reaches the weight of a hard one, and intervals start and   *)
(* end at versions.                                                        *)
(***************************************************************************)
THEOREM EncodingFinite ==
  ASSUME NEW s, NEW m \in Nat, WellPosed(s, m), Finitely(s), IsFiniteSet(s.features), CriteriaKnown(s),
         NEW en, en = EncodingOf(s)
  PROVE  IsFiniteSet(en.vars) /\ NoneHeavy(s) /\ Bounded(Input(s), m)
<1> DEFINE V == Space(s, m)
           pref == EncodeLexicographic(s)
           I == ProcessIntervalVariables(s, Input(s))
           S == {pref.soft[k][1] : k \in DOMAIN pref.soft}
           W == Written(s, pref)
<1>1. Encodable(s, m) /\ Room(s, V)
  BY SpaceRoom DEF WellPosed
<1>2. NoneHeavy(s) /\ AllOver(Input(s), V)
  BY <1>1, CriteriaOver, InputOver
<1>3. Bounded(Input(s), m)
  BY <1>2, SpaceBounded
<1>4. AllOver(I, V)
  <2> HIDE DEF V
  <2> QED  BY <1>1, <1>2, <1>3, OverIntervals
<1>5. Input(s) = W \cup S
  BY DEF Input
<1>6. en.vars = {l[1] : l \in UNION (W \cup I \cup S)} \cup {UnitVar(s, i) : i \in s.needed}
  BY DEF EncodingOf, Encoding
<1>7. \A i \in s.needed : UnitVar(s, i) \in V
  BY <1>1, OverUnits
<1>8. IsFiniteSet(V)
  BY SpaceFinite
<1> HIDE DEF V, W, S, I
<1>9. en.vars \subseteq V
  BY <1>2, <1>4, <1>5, <1>6, <1>7 DEF AllOver, Over
<1>10. IsFiniteSet(en.vars)
  BY <1>8, <1>9, FS_Subset
<1> QED  BY <1>2, <1>3, <1>10

\* recommendations that are given in two fields
LEMMA BothRecommending ==
  ASSUME NEW a, Recommending(a), NEW b, Recommending(b)
  PROVE  Recommending(a \o b)
<1> DEFINE z == a \o b
           X == Range(a) \cup Range(b)
<1>1. a \in Seq(X) /\ b \in Seq(X) /\ Len(a) \in Nat /\ Len(b) \in Nat
  BY DEF Recommending
<1> HIDE DEF X
<1>2. IsJoin(z, a, b) /\ DOMAIN a = 1 .. Len(a) /\ DOMAIN b = 1 .. Len(b)
  BY <1>1, TwoJoined, LenProperties
<1> HIDE DEF z
<1>3. ASSUME NEW k \in DOMAIN z PROVE \A vp \in Range(z[k]) : Askable(vp)
  <2>1. CASE k <= Len(a)
    <3>1. k \in DOMAIN a /\ z[k] = a[k]
      BY <1>1, <1>2, <2>1 DEF IsJoin
    <3> QED  BY <3>1 DEF Recommending
  <2>2. CASE ~ (k <= Len(a))
    <3> DEFINE j == k - Len(a)
    <3>1. j \in DOMAIN b /\ k = Len(a) + j
      BY <1>1, <1>2, <2>2 DEF IsJoin
    <3>2. z[k] = b[j]
      <4> HIDE DEF j
      <4> QED  BY <1>2, <3>1 DEF IsJoin
    <3> HIDE DEF j
    <3> QED  BY <3>1, <3>2 DEF Recommending
  <2> QED  BY <2>1, <2>2
<1>4. z \in Seq(Range(z))
  BY <1>2 DEF IsJoin
<1> QED  BY <1>3, <1>4 DEF Recommending, z

-----------------------------------------------------------------------------
(* The weights of the objectives, and what a soft clause counts *)

(***************************************************************************)
(* A finite set of numbers can be sorted: the place of a number is how     *)
(* many are not smaller.                                                   *)
(***************************************************************************)
LEMMA WeightsSorted ==
  ASSUME NEW S, IsFiniteSet(S), S \subseteq Nat, NEW q, q = LargestFirst(S)
  PROVE  /\ Cardinality(S) \in Nat /\ q \in [1 .. Cardinality(S) -> S] /\ Range(q) = S
         /\ \A i, j \in 1 .. Cardinality(S) : i < j => q[i] > q[j]
<1> DEFINE n == Cardinality(S)
           Above(x) == {y \in S : y >= x}
           rank == [x \in S |-> Cardinality(Above(x))]
           Sorted(r) == \A i, j \in DOMAIN r : i < j => r[i] > r[j]
<1>1. n \in Nat
  BY FS_CardinalityType
<1>2. IsFiniteSet(1 .. n) /\ Cardinality(1 .. n) = n
  <2>1. 1 \in Int /\ n \in Int /\ (1 > n => n = 0) /\ n - 1 + 1 = n
    BY <1>1
  <2> HIDE DEF n
  <2> QED  BY <2>1, FS_Interval
<1>3. \A x \in S : Above(x) \in SUBSET S /\ x \in Above(x)
  OBVIOUS
<1>4. ASSUME NEW x \in S PROVE rank[x] \in 1 .. n
  <2> DEFINE T == Above(x)
  <2>1. T \subseteq S /\ T # {}
    BY <1>3
  <2>2. rank[x] = Cardinality(T)
    OBVIOUS
  <2> HIDE DEF T
  <2>3. IsFiniteSet(T) /\ Cardinality(T) <= Cardinality(S)
    BY <2>1, FS_Subset
  <2>4. Cardinality(T) \in Nat /\ Cardinality(T) # 0
    BY <2>1, <2>3, FS_CardinalityType, FS_EmptySet
  <2> QED  BY <1>1, <2>2, <2>3, <2>4
<1>5. ASSUME NEW x \in S, NEW y \in S, x < y PROVE rank[y] < rank[x]
  <2> DEFINE A == Above(y)
             B == Above(x)
  <2>1. A \subseteq B /\ x \in B /\ x \notin A /\ B \subseteq S
    <3>1. x \in Nat /\ y \in Nat /\ x < y
      BY <1>5
    <3>2. \A z \in S : z \in Nat /\ (z >= y => z >= x) /\ x >= x /\ ~ (x >= y)
      BY <3>1
    <3> HIDE DEF rank
    <3> QED  BY <3>2
  <2>2. rank[y] = Cardinality(A) /\ rank[x] = Cardinality(B)
    OBVIOUS
  <2> HIDE DEF A, B
  <2>3. IsFiniteSet(B)
    BY <2>1, FS_Subset
  <2>4. A \in SUBSET B /\ A # B
    BY <2>1
  <2>5. Cardinality(A) <= Cardinality(B) /\ Cardinality(A) # Cardinality(B) /\ IsFiniteSet(A)
    BY <2>3, <2>4, FS_Subset
  <2>6. Cardinality(A) \in Nat /\ Cardinality(B) \in Nat
    BY <2>3, <2>5, FS_CardinalityType
  <2> QED  BY <2>2, <2>5, <2>6
<1>6. rank \in [S -> 1 .. n]
  <2>1. rank = [x \in S |-> rank[x]]
    OBVIOUS
  <2> HIDE DEF rank
  <2> QED  BY <1>4, <2>1
<1> HIDE DEF rank, n
<1>7. \A x, y \in S : rank[x] = rank[y] => x = y
  <2> SUFFICES ASSUME NEW x \in S, NEW y \in S, rank[x] = rank[y], x # y PROVE FALSE
    OBVIOUS
  <2>1. rank[x] \in Nat /\ rank[y] \in Nat
    BY <1>4
  <2>2. x < y \/ y < x
    OBVIOUS
  <2> QED  BY <1>5, <2>1, <2>2
<1>8. rank \in Surjection(S, 1 .. n)
  <2>1. rank \in Injection(S, 1 .. n)
    BY <1>6, <1>7 DEF Injection, IsInjective
  <2>2. Cardinality(S) = Cardinality(1 .. n)
    BY <1>2 DEF n
  <2> QED  BY <1>2, <2>1, <2>2, FS_Injection
<1>9. \A k \in 1 .. n : \E x \in S : rank[x] = k
  BY <1>8 DEF Surjection
<1> DEFINE r == [k \in 1 .. n |-> CHOOSE x \in S : rank[x] = k]
<1>10. r \in [1 .. n -> S] /\ DOMAIN r = 1 .. n /\ \A k \in 1 .. n : rank[r[k]] = k
  BY <1>9
<1> HIDE DEF r
<1>11. Sorted(r)
  <2> SUFFICES ASSUME NEW i \in 1 .. n, NEW j \in 1 .. n, i < j PROVE r[i] > r[j]
    BY <1>10
  <2>1. r[i] \in S /\ r[j] \in S /\ rank[r[i]] = i /\ rank[r[j]] = j /\ i \in Nat /\ j \in Nat
    BY <1>10
  <2>2. ~ (r[i] < r[j])
    <3> SUFFICES ASSUME r[i] < r[j] PROVE FALSE
      OBVIOUS
    <3>1. rank[r[j]] < rank[r[i]]
      BY <1>5, <2>1
    <3> QED  BY <2>1, <3>1
  <2>3. r[i] # r[j]
    BY <2>1
  <2>4. r[i] \in Nat /\ r[j] \in Nat
    BY <2>1
  <2> QED  BY <2>2, <2>3, <2>4
<1>12. q \in [1 .. n -> S] /\ Sorted(q)
  <2>1. q = CHOOSE z \in [1 .. n -> S] : Sorted(z)
    BY DEF LargestFirst, n
  <2> HIDE DEF Sorted
  <2> QED  BY <1>10, <1>11, <2>1
<1>13. \A i, j \in 1 .. n : i < j => q[i] > q[j]
  BY <1>12
<1>14. Range(q) = S
  <2>1. \A i, j \in 1 .. n : q[i] = q[j] => i = j
    <3> SUFFICES ASSUME NEW i \in 1 .. n, NEW j \in 1 .. n, q[i] = q[j], i # j PROVE FALSE
      OBVIOUS
    <3>1. i < j \/ j < i
      OBVIOUS
    <3>2. q[i] \in Nat /\ q[j] \in Nat
      BY <1>12
    <3> QED  BY <1>13, <3>1, <3>2
  <2>2. q \in Injection(1 .. n, S)
    BY <1>12, <2>1 DEF Injection, IsInjective
  <2>3. q \in Surjection(1 .. n, S)
    BY <1>2, <2>2, FS_Injection DEF n
  <2> QED  BY <1>12, <2>3 DEF Surjection, Range
<1> QED  BY <1>1, <1>12, <1>13, <1>14 DEF n

\* every criterion adds one weight, more than 0
LEMMA WeightsFinite ==
  ASSUME NEW s, NEW V, Len(s.lex) \in Nat, DOMAIN s.lex = 1 .. Len(s.lex),
         \A k \in 1 .. Len(s.lex) : CriterionFits(s, V, s.lex[k])
  PROVE  IsFiniteSet(EncodeLexicographic(s).weights) /\ EncodeLexicographic(s).weights \subseteq Nat \ {0}
<1> DEFINE n == Len(s.lex)
           Fine(a) == /\ \E t : InBudget(a, V, t)
                      /\ IsFiniteSet(a.weights) /\ a.weights \subseteq Nat \ {0}
<1>1. PICK g : LexSteps(g, s)
  BY LexicographicSteps
<1> DEFINE S == {k \in 0 .. n : Fine(g[k])}
<1>2. 0 \in S
  <2>1. g[0] = Nothing
    BY <1>1 DEF LexSteps
  <2>2. SumsTo([k \in {0} |-> 0], << >>, V)
    <3>1. Len(<< >>) = 0 /\ 0 .. 0 = {0} /\ 1 .. 0 = {} /\ \A T : << >> \in Seq(T)
      OBVIOUS
    <3>2. [k \in {0} |-> 0] \in [{0} -> Nat] /\ [k \in {0} |-> 0][0] = 0
      OBVIOUS
    <3> QED  BY <3>1, <3>2 DEF SumsTo
  <2>3. InBudget(Nothing, V, 0)
    BY <2>2 DEF Budget, InBudget, Nothing, AllOver
  <2>4. IsFiniteSet(Nothing.weights) /\ Nothing.weights \subseteq Nat \ {0}
    BY FS_EmptySet DEF Nothing
  <2> QED  BY <2>1, <2>3, <2>4
<1>3. ASSUME NEW k \in 1 .. n, k - 1 \in S PROVE k \in S
  <2> DEFINE a == g[k - 1]
             c == s.lex[n - k + 1]
  <2>1. n - k + 1 \in 1 .. n /\ k \in 0 .. n
    OBVIOUS
  <2>2. g[k] = AddCriterion(s, a, c) /\ CriterionFits(s, V, c)
    BY <1>1, <2>1 DEF LexSteps
  <2>3. Fine(a)
    BY <1>3
  <2> HIDE DEF a, c
  <2>4. \E u : InBudget(g[k], V, u)
    BY <2>2, <2>3, CriterionAdded
  <2>5. g[k].weights = a.weights \cup {a.total + 1}
    BY <2>2 DEF AddCriterion
  <2>6. a.total + 1 \in Nat \ {0}
    BY <2>3 DEF InBudget
  <2>7. IsFiniteSet(a.weights \cup {a.total + 1})
    BY <2>3, FS_AddElement
  <2> QED  BY <2>1, <2>3, <2>4, <2>5, <2>6, <2>7
<1>4. n \in S
  <2>1. n \in Nat
    OBVIOUS
  <2>2. \A k \in 1 .. n : k - 1 \in S => k \in S
    BY <1>3
  <2> HIDE DEF S, n
  <2>3. 0 .. n \subseteq S
    BY <1>2, <2>1, <2>2, UpTo
  <2> QED  BY <2>1, <2>3
<1>5. g[n] = EncodeLexicographic(s)
  BY <1>1 DEF LexSteps
<1> QED  BY <1>4, <1>5

\* dividing by one weight after the other leaves numbers
LEMMA SplitCounts ==
  ASSUME NEW n \in Nat, NEW ws \in [1 .. n -> Nat \ {0}], NEW weight \in Nat
  PROVE  Split(ws, weight) \in [1 .. n -> Nat]
<1> DEFINE E(f) == f = [k \in 0 .. Len(ws) |-> IF k = 0 THEN weight ELSE f[k - 1] % ws[k]]
           rest == CHOOSE f : E(f)
           H == [k \in Nat |-> [t \in Nat |-> IF k \in 1 .. n THEN t % ws[k] ELSE t]]
<1>1. DOMAIN ws = 1 .. n /\ Len(ws) = n
  OBVIOUS
<1>2. Split(ws, weight) = [k \in DOMAIN ws |-> rest[k - 1] \div ws[k]]
  BY DEF Split
<1>3. \A a \in Nat : \A b \in Nat \ {0} : a % b \in Nat /\ a \div b \in Nat
  OBVIOUS
<1>4. StepsOf(H, Nat)
  BY <1>3 DEF StepsOf
<1>5. \A k \in 1 .. n : \A t \in Nat : H[k][t] = t % ws[k]
  OBVIOUS
<1> HIDE DEF H
<1>6. PICK f : Chain(f, n, Nat, weight, H)
  BY <1>4, Iteration
<1>7. E(f)
  <2>1. ASSUME NEW k \in 0 .. n PROVE f[k] = IF k = 0 THEN weight ELSE f[k - 1] % ws[k]
    <3>1. CASE k = 0
      BY <1>6, <3>1 DEF Chain
    <3>2. CASE k # 0
      <4>1. k \in 1 .. n /\ k - 1 \in 0 .. n
        BY <3>2
      <4>2. f[k - 1] \in Nat /\ f[k] = H[k][f[k - 1]]
        BY <1>6, <4>1 DEF Chain
      <4> QED  BY <1>5, <3>2, <4>1, <4>2
    <3> QED  BY <3>1, <3>2
  <2>2. f = [k \in 0 .. n |-> f[k]]
    BY <1>6 DEF Chain
  <2> QED  BY <1>1, <2>1, <2>2
<1> HIDE DEF E
<1>8. E(rest)
  BY <1>7
<1> HIDE DEF rest
<1>9. /\ rest[0] = weight
      /\ \A k \in 1 .. n : rest[k] = rest[k - 1] % ws[k]
  BY <1>1, <1>8 DEF E
<1> DEFINE S == {k \in 0 .. n : rest[k] \in Nat}
<1>10. 0 .. n \subseteq S
  <2>1. ASSUME NEW k \in 1 .. n, k - 1 \in S PROVE k \in S
    <3>1. rest[k - 1] \in Nat /\ ws[k] \in Nat \ {0} /\ k \in 0 .. n
      BY <2>1
    <3> QED  BY <1>3, <1>9, <3>1
  <2>2. 0 \in S
    BY <1>9
  <2> HIDE DEF S
  <2> QED  BY <2>1, <2>2, UpTo
<1>11. ASSUME NEW k \in 1 .. n PROVE rest[k - 1] \div ws[k] \in Nat
  <2>1. k - 1 \in 0 .. n
    OBVIOUS
  <2> QED  BY <1>3, <1>10, <2>1
<1> QED  BY <1>1, <1>2, <1>11

\* there are finitely many soft clauses, and their weights are numbers
LEMMA SoftCounted ==
  ASSUME NEW s, NEW V, Len(s.lex) \in Nat, DOMAIN s.lex = 1 .. Len(s.lex),
         \A k \in 1 .. Len(s.lex) : CriterionFits(s, V, s.lex[k]),
         NEW en, en = EncodingOf(s)
  PROVE  /\ IsFiniteSet(DOMAIN en.soft) /\ \A c \in DOMAIN en.soft : en.soft[c] \in Nat
         /\ en.weights = LargestFirst(EncodeLexicographic(s).weights)
<1> DEFINE pref == EncodeLexicographic(s)
           soft == pref.soft
           I == ProcessIntervalVariables(s, Input(s))
           W == Written(s, pref)
           S == {soft[k][1] : k \in DOMAIN soft}
           all == W \cup I \cup S
           Hard(c) == c \in W \/ c \in I \/ Weight(soft, c) >= Top(s)
           D == {d \in all : ~ Hard(d) /\ Weight(soft, d) > 0}
<1>1. PICK t \in Nat : InBudget(pref, V, t)
  BY LexicographicFits
<1>2. Budget(soft, V, t)
  BY <1>1 DEF InBudget
<1>3. en.soft = [c \in D |-> Weight(soft, c)] /\ en.weights = LargestFirst(pref.weights)
  BY DEF EncodingOf, Encoding
<1> HIDE DEF W, I, pref
<1>4. D \subseteq S
  OBVIOUS
<1>5. IsFiniteSet(S)
  <2> DEFINE f == [k \in DOMAIN soft |-> soft[k][1]]
             l == Len(soft)
  <2>1. PICK B : SumsTo(B, soft, V)
    BY <1>2 DEF Budget
  <2>2. l \in Nat /\ DOMAIN soft = 1 .. l /\ 1 \in Int /\ l \in Int
    BY <2>1 DEF SumsTo
  <2>3. DOMAIN f = DOMAIN soft /\ S = {f[k] : k \in DOMAIN soft}
    OBVIOUS
  <2> HIDE DEF l, f, soft
  <2>4. IsFiniteSet(DOMAIN soft)
    BY <2>2, FS_Interval
  <2> QED  BY <2>3, <2>4, ImageOf
<1>6. \A c : Weight(soft, c) \in Nat
  <2> HIDE DEF soft
  <2> QED  BY <1>2, WeightWithin
<1> HIDE DEF D, S, soft
<1>7. IsFiniteSet(D)
  BY <1>4, <1>5, FS_Subset
<1> QED  BY <1>3, <1>6, <1>7 DEF pref

Some(T) == CHOOSE y \in T : TRUE

\* the sum of h over a set, as FoldSet goes
SumFold(f, S, h) == f = [T \in SUBSET S |-> IF T = {} THEN 0 ELSE f[T \ {Some(T)}] + h[Some(T)]]

LEMMA SumFolded ==
  ASSUME NEW S, IsFiniteSet(S), NEW h, \A x \in S : h[x] \in Nat
  PROVE  /\ \E f : SumFold(f, S, h)
         /\ \A f : SumFold(f, S, h) => f[S] \in Nat
<1> DEFINE D == [T \in SUBSET S |-> Nat]
           ch == [T \in SUBSET S |-> Some(T)]
           H == [T \in SUBSET S |-> [q \in Nat |-> q + h[ch[T]]]]
<1>1. \A T \in SUBSET S : D[T] = Nat /\ ch[T] = Some(T)
  OBVIOUS
<1>2. \A T \in SUBSET S : T # {} => ch[T] \in T /\ T \ {ch[T]} \in SUBSET S
  BY DEF Some
<1>3. \A T \in SUBSET S : \A q \in Nat : H[T][q] = q + h[ch[T]]
  OBVIOUS
<1> HIDE DEF D, ch, H
<1>4. FoldSteps(S, D, ch, H)
  BY <1>1, <1>2, <1>3 DEF FoldSteps
<1>5. 0 \in D[{}]
  BY <1>1
<1>6. PICK f : FoldIs(f, S, D, 0, ch, H)
  BY <1>4, <1>5, FoldExists
<1>7. SumFold(f, S, h)
  <2>1. ASSUME NEW T \in SUBSET S PROVE f[T] = IF T = {} THEN 0 ELSE f[T \ {Some(T)}] + h[Some(T)]
    <3>1. f[T] = IF T = {} THEN 0 ELSE H[T][f[T \ {ch[T]}]]
      BY <1>6 DEF FoldIs
    <3>2. T # {} => f[T \ {ch[T]}] \in Nat
      <4> SUFFICES ASSUME T # {} PROVE f[T \ {ch[T]}] \in Nat
        OBVIOUS
      <4>1. T \ {ch[T]} \in SUBSET S
        BY <1>2
      <4> QED  BY <1>1, <1>6, <4>1 DEF FoldIs
    <3>3. ch[T] = Some(T)
      BY <1>1
    <3>4. CASE T = {}
      BY <3>1, <3>4
    <3>5. CASE T # {}
      <4>1. H[T][f[T \ {ch[T]}]] = f[T \ {ch[T]}] + h[ch[T]]
        BY <1>3, <3>2, <3>5
      <4> QED  BY <3>1, <3>3, <3>5, <4>1
    <3> QED  BY <3>4, <3>5
  <2>2. f = [T \in SUBSET S |-> f[T]]
    BY <1>6 DEF FoldIs
  <2> QED  BY <2>1, <2>2 DEF SumFold
<1>8. ASSUME NEW g, SumFold(g, S, h) PROVE g[S] \in Nat
  <2>1. \A T \in SUBSET S : g[T] = IF T = {} THEN 0 ELSE g[T \ {Some(T)}] + h[Some(T)]
    BY <1>8 DEF SumFold
  <2>2. FoldGoes(g, S, D, 0, ch, H)
    <3>1. g[{}] = 0
      BY <2>1
    <3>2. ASSUME NEW T \in SUBSET S, T # {}, g[T \ {ch[T]}] \in D[T \ {ch[T]}]
          PROVE  g[T] = H[T][g[T \ {ch[T]}]]
      <4>1. g[T \ {ch[T]}] \in Nat /\ ch[T] = Some(T)
        BY <1>1, <1>2, <3>2
      <4>2. H[T][g[T \ {ch[T]}]] = g[T \ {ch[T]}] + h[ch[T]]
        BY <1>3, <4>1
      <4> QED  BY <2>1, <3>2, <4>1, <4>2
    <3> QED  BY <3>1, <3>2 DEF FoldGoes
  <2>3. g[S] \in D[S]
    BY <1>4, <1>5, <2>2, FoldStays
  <2> QED  BY <1>1, <2>3
<1> QED  BY <1>7, <1>8

\* the elements of the sets K[i], each with its i
Pairs(T, K) == UNION {{i} \X K[i] : i \in T}

LEMMA PairsGrow ==
  ASSUME NEW T, IsFiniteSet(T), NEW K, \A i \in T : IsFiniteSet(K[i]), NEW c \in T
  PROVE  /\ IsFiniteSet(Pairs(T, K)) /\ Cardinality(Pairs(T, K)) \in Nat
         /\ Cardinality(Pairs(T, K)) = Cardinality(K[c]) + Cardinality(Pairs(T \ {c}, K))
<1> DEFINE F == [i \in T |-> {i} \X K[i]]
           A == Pairs(T \ {c}, K)
           B == {c} \X K[c]
<1>1. ASSUME NEW i \in T PROVE IsFiniteSet({i} \X K[i]) /\ Cardinality({i} \X K[i]) = Cardinality(K[i])
  <2>1. IsFiniteSet({i}) /\ Cardinality({i}) = 1 /\ IsFiniteSet(K[i])
    BY FS_Singleton
  <2>2. IsFiniteSet({i} \X K[i]) /\ Cardinality({i} \X K[i]) = 1 * Cardinality(K[i])
    BY <2>1, FS_Product
  <2>3. Cardinality(K[i]) \in Nat
    BY <2>1, FS_CardinalityType
  <2> QED  BY <2>2, <2>3
<1>2. ASSUME NEW R \in SUBSET T PROVE IsFiniteSet(Pairs(R, K))
  <2> DEFINE f == [i \in R |-> {i} \X K[i]]
             G == {{i} \X K[i] : i \in R}
  <2>1. IsFiniteSet(R)
    BY FS_Subset
  <2>2. DOMAIN f = R /\ G = {f[i] : i \in R}
    OBVIOUS
  <2>3. \A g \in G : IsFiniteSet(g)
    BY <1>1
  <2>4. Pairs(R, K) = UNION G
    BY DEF Pairs
  <2> HIDE DEF f, G
  <2>5. IsFiniteSet(G)
    BY <2>1, <2>2, ImageOf
  <2> QED  BY <2>3, <2>4, <2>5, FS_UNION
<1>3. Pairs(T, K) = B \cup A /\ B \cap A = {}
  BY DEF Pairs
<1>4. IsFiniteSet(A) /\ IsFiniteSet(B) /\ Cardinality(B) = Cardinality(K[c])
  BY <1>1, <1>2
<1> HIDE DEF A, B
<1>5. IsFiniteSet(B \cup A) /\ Cardinality(B \cup A) = Cardinality(B) + Cardinality(A) - Cardinality(B \cap A)
  BY <1>4, FS_Union
<1>6. Cardinality(B \cap A) = 0
  BY <1>3, FS_EmptySet
<1>7. Cardinality(A) \in Nat /\ Cardinality(B) \in Nat /\ Cardinality(B \cup A) \in Nat
  BY <1>4, <1>5, FS_CardinalityType
<1>8. Cardinality(B \cup A) = Cardinality(B) + Cardinality(A)
  BY <1>5, <1>6, <1>7
<1> QED  BY <1>3, <1>4, <1>5, <1>7, <1>8 DEF A

\* the sum of their sizes, as FoldSet goes
PairFold(f, S, K) ==
  f = [T \in SUBSET S |-> IF T = {} THEN 0 ELSE Cardinality(K[Some(T)]) + f[T \ {Some(T)}]]

LEMMA PairsCounted ==
  ASSUME NEW S, IsFiniteSet(S), NEW K, \A i \in S : IsFiniteSet(K[i])
  PROVE  /\ \E f : PairFold(f, S, K)
         /\ \A f : PairFold(f, S, K) => f[S] = Cardinality(Pairs(S, K))
<1> DEFINE D == [T \in SUBSET S |-> {Cardinality(Pairs(T, K))}]
           ch == [T \in SUBSET S |-> Some(T)]
           H == [T \in SUBSET S |-> [q \in Nat |-> Cardinality(K[ch[T]]) + q]]
<1>0. Pairs({}, K) = {}
  BY DEF Pairs
<1>1. \A T \in SUBSET S : D[T] = {Cardinality(Pairs(T, K))} /\ ch[T] = Some(T)
  OBVIOUS
<1>2. \A T \in SUBSET S : T # {} => ch[T] \in T /\ T \ {ch[T]} \in SUBSET S
  BY DEF Some
<1>3. \A T \in SUBSET S : \A q \in Nat : H[T][q] = Cardinality(K[ch[T]]) + q
  OBVIOUS
<1> HIDE DEF D, ch, H
<1>4. ASSUME NEW T \in SUBSET S
      PROVE  /\ Cardinality(Pairs(T, K)) \in Nat
             /\ T # {} => Cardinality(Pairs(T, K)) = Cardinality(K[ch[T]]) + Cardinality(Pairs(T \ {ch[T]}, K))
  <2>1. IsFiniteSet(T) /\ \A i \in T : IsFiniteSet(K[i])
    BY FS_Subset
  <2>2. CASE T = {}
    BY <1>0, <2>2, FS_EmptySet
  <2>3. CASE T # {}
    <3>1. ch[T] \in T
      BY <1>2, <2>3
    <3> QED  BY <2>1, <2>3, <3>1, PairsGrow
  <2> QED  BY <2>2, <2>3
<1>5. ASSUME NEW T \in SUBSET S, T # {}, NEW q \in D[T \ {ch[T]}]
      PROVE  q \in Nat /\ H[T][q] = Cardinality(K[ch[T]]) + q /\ H[T][q] \in D[T]
  <2>1. T \ {ch[T]} \in SUBSET S
    OBVIOUS
  <2>2. q = Cardinality(Pairs(T \ {ch[T]}, K)) /\ q \in Nat
    BY <1>1, <1>4, <2>1
  <2>3. H[T][q] = Cardinality(Pairs(T, K))
    BY <1>3, <1>4, <1>5, <2>2
  <2> QED  BY <1>1, <1>3, <2>2, <2>3
<1>6. FoldSteps(S, D, ch, H)
  BY <1>2, <1>5 DEF FoldSteps
<1>7. 0 \in D[{}]
  BY <1>0, <1>1, FS_EmptySet
<1>8. PICK f : FoldIs(f, S, D, 0, ch, H)
  BY <1>6, <1>7, FoldExists
<1>9. PairFold(f, S, K)
  <2>1. ASSUME NEW T \in SUBSET S
        PROVE  f[T] = IF T = {} THEN 0 ELSE Cardinality(K[Some(T)]) + f[T \ {Some(T)}]
    <3>1. f[T] = IF T = {} THEN 0 ELSE H[T][f[T \ {ch[T]}]]
      BY <1>8 DEF FoldIs
    <3>2. CASE T = {}
      BY <3>1, <3>2
    <3>3. CASE T # {}
      <4>1. f[T \ {ch[T]}] \in D[T \ {ch[T]}]
        BY <1>2, <1>8, <3>3 DEF FoldIs
      <4>2. H[T][f[T \ {ch[T]}]] = Cardinality(K[ch[T]]) + f[T \ {ch[T]}]
        BY <1>5, <3>3, <4>1
      <4> QED  BY <1>1, <3>1, <3>3, <4>2
    <3> QED  BY <3>2, <3>3
  <2>2. f = [T \in SUBSET S |-> f[T]]
    BY <1>8 DEF FoldIs
  <2> QED  BY <2>1, <2>2 DEF PairFold
<1>10. ASSUME NEW g, PairFold(g, S, K) PROVE g[S] = Cardinality(Pairs(S, K))
  <2>1. \A T \in SUBSET S : g[T] = IF T = {} THEN 0 ELSE Cardinality(K[Some(T)]) + g[T \ {Some(T)}]
    BY <1>10 DEF PairFold
  <2>2. FoldGoes(g, S, D, 0, ch, H)
    <3>1. g[{}] = 0
      BY <2>1
    <3>2. ASSUME NEW T \in SUBSET S, T # {}, g[T \ {ch[T]}] \in D[T \ {ch[T]}]
          PROVE  g[T] = H[T][g[T \ {ch[T]}]]
      <4>1. H[T][g[T \ {ch[T]}]] = Cardinality(K[ch[T]]) + g[T \ {ch[T]}]
        BY <1>5, <3>2
      <4> QED  BY <1>1, <2>1, <3>2, <4>1
    <3> QED  BY <3>1, <3>2 DEF FoldGoes
  <2>3. g[S] \in D[S]
    BY <1>6, <1>7, <2>2, FoldStays
  <2> QED  BY <1>1, <2>3
<1> QED  BY <1>9, <1>10

=============================================================================
