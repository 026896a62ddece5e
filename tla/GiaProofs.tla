----------------------------- MODULE GiaProofs -----------------------------
(***************************************************************************)
(* Proofs about Gia for every number and size of objectives, every problem *)
(* and every point at which the timeout may strike.  The first part is     *)
(* about one vector held and the clauses made from it; the invariant and   *)
(* the steps follow.                                                       *)
(***************************************************************************)
EXTENDS Gia, LeximaxProofs

(***************************************************************************)
(* What fix_previous_max and decrease_max say of a vector v, where b is    *)
(* the one held.                                                           *)
(***************************************************************************)
First(S, m) == {j \in S : Cardinality({k \in S : k < j}) < m}
Reach(b, m) == {j \in Obj : m > 0 /\ b[j] >= Maximum(b, m-1)}
Fix(b, m) == First(Reach(b, m), m)
Keep(v, b, m) == \A j \in Fix(b, m) : v[j] = b[j]
Lower(v, b, m) == \A j \in Obj \ Fix(b, m) : v[j] < Maximum(b, m)

LEMMA HeldClauses ==
  ASSUME NEW m
  PROVE  /\ Fixed(m) = Fix(best, m)
         /\ \A v : FixPrevious(v, m) <=> Keep(v, best, m)
         /\ \A v : Decrease(v, m) <=> Lower(v, best, m)
<1>1. Fixed(m) = Fix(best, m)
  BY DEF Fixed, Reaches, Fix, Reach, First
<1> QED  BY <1>1 DEF FixPrevious, Decrease, Keep, Lower

-----------------------------------------------------------------------------
(***************************************************************************)
(* The first m members of a set of objectives: there are m of them, if     *)
(* there are that many, and with a member all the smaller ones belong to   *)
(* them, which says which ones they are.                                   *)
(***************************************************************************)
LEMMA Smaller ==
  ASSUME NEW S \in SUBSET Obj, NEW j
  PROVE  {k \in S : k < j} \in SUBSET Obj /\ Cardinality({k \in S : k < j}) \in Nat
<1>1. {k \in S : k < j} \in SUBSET Obj
  OBVIOUS
<1> QED  BY <1>1, SetsOfObjectives

LEMMA FirstDown ==
  ASSUME NEW S \in SUBSET Obj, NEW m \in Nat, NEW j \in First(S, m), NEW k \in S, k < j
  PROVE  k \in First(S, m)
<1>1. j \in S /\ Cardinality({i \in S : i < j}) < m
  BY DEF First
<1>2. {i \in S : i < k} \in SUBSET {i \in S : i < j}
  <2>1. \A i \in S : i \in Int
    BY NAssumption DEF Obj
  <2>2. \A i \in S : i < k => i < j
    BY <1>1, <2>1
  <2> QED  BY <2>2
<1>3. Cardinality({i \in S : i < k}) <= Cardinality({i \in S : i < j})
  BY <1>2, Smaller, SetsOfObjectives
<1>4. Cardinality({i \in S : i < k}) \in Nat /\ Cardinality({i \in S : i < j}) \in Nat
  BY Smaller
<1> QED  BY <1>1, <1>3, <1>4 DEF First

LEMMA FirstCount ==
  ASSUME NEW S \in SUBSET Obj, NEW m \in Nat, m <= Cardinality(S)
  PROVE  Cardinality(First(S, m)) = m
<1> DEFINE F == First(S, m)
<1>1. F \in SUBSET S /\ F \in SUBSET Obj /\ Cardinality(F) \in Nat /\ S \subseteq Nat
  <2>1. F \subseteq S
    BY DEF First
  <2>2. S \subseteq Nat
    BY NAssumption DEF Obj
  <2> HIDE DEF F
  <2>3. F \in SUBSET S /\ F \in SUBSET Obj
    BY <2>1
  <2> QED  BY <2>2, <2>3, SetsOfObjectives
<1>2. Cardinality(F) <= m
  <2>1. CASE F = {}
    BY <2>1, SetsOfObjectives
  <2>2. CASE F # {}
    <3>1. PICK g \in F : \A j \in F : j <= g
      BY <1>1, <2>2, LastObjective
    <3>2. g \in S /\ Cardinality({k \in S : k < g}) < m /\ Cardinality({k \in S : k < g}) \in Nat
      BY Smaller DEF First
    <3>3. F \ {g} \in SUBSET {k \in S : k < g}
      <4>1. ASSUME NEW k \in F \ {g} PROVE k \in S /\ k < g
        <5>1. k \in Nat /\ g \in Nat /\ k <= g /\ k # g /\ k \in S
          BY <1>1, <3>1, <3>2
        <5> QED  BY <5>1
      <4> QED  BY <4>1
    <3>4. Cardinality(F \ {g}) <= Cardinality({k \in S : k < g}) /\ Cardinality(F \ {g}) \in Nat
      BY <3>3, Smaller, SetsOfObjectives
    <3>5. Cardinality(F \ {g}) = Cardinality(F) - 1
      BY <1>1, SetsOfObjectives
    <3> HIDE DEF F
    <3> QED  BY <1>1, <3>2, <3>4, <3>5
  <2> QED  BY <2>1, <2>2
<1>3. Cardinality(F) >= m
  <2>1. CASE S = F
    BY <2>1, SetsOfObjectives
  <2>2. CASE S # F
    <3>1. S \ F \subseteq Nat /\ S \ F # {}
      BY <1>1, <2>2
    <3>2. PICK d \in S \ F : \A j \in S \ F : d <= j
      <4> HIDE DEF F
      <4> QED  BY <3>1, LeastElement
    <3>3. {k \in S : k < d} \in SUBSET F
      <4>1. ASSUME NEW k \in S, k < d PROVE k \in F
        <5>1. k \in Nat /\ d \in Nat
          BY <1>1
        <5>2. ~ (d <= k)
          BY <4>1, <5>1
        <5> QED  BY <3>2, <5>2
      <4> QED  BY <4>1
    <3>4. Cardinality({k \in S : k < d}) <= Cardinality(F) /\ Cardinality({k \in S : k < d}) \in Nat
      BY <1>1, <3>3, Smaller, SetsOfObjectives
    <3>5. ~ (Cardinality({k \in S : k < d}) < m)
      BY DEF First
    <3> HIDE DEF F
    <3> QED  BY <1>1, <3>4, <3>5
  <2> QED  BY <2>1, <2>2
<1> HIDE DEF F
<1>4. Cardinality(F) = m
  BY <1>1, <1>2, <1>3
<1> QED  BY <1>4 DEF F

LEMMA FirstIs ==
  ASSUME NEW S \in SUBSET Obj, NEW H \in SUBSET S,
         \A h \in H, k \in S : k < h => k \in H
  PROVE  First(S, Cardinality(H)) = H
<1>1. H \in SUBSET Obj /\ Cardinality(H) \in Nat /\ S \subseteq Nat
  BY SetsOfObjectives, NAssumption DEF Obj
<1>2. ASSUME NEW h \in H PROVE h \in First(S, Cardinality(H))
  <2>1. {k \in S : k < h} \in SUBSET (H \ {h})
    <3>1. ASSUME NEW k \in S, k < h PROVE k \in H /\ k # h
      <4>1. k \in Nat /\ h \in Nat
        BY <1>1
      <4> QED  BY <3>1, <4>1
    <3> QED  BY <3>1
  <2>2. H \ {h} \in SUBSET Obj /\ Cardinality(H \ {h}) = Cardinality(H) - 1
    BY <1>1, SetsOfObjectives
  <2>3. Cardinality({k \in S : k < h}) <= Cardinality(H \ {h})
    BY <2>1, <2>2, SetsOfObjectives
  <2>4. Cardinality({k \in S : k < h}) < Cardinality(H)
    BY <1>1, <2>2, <2>3, Smaller
  <2> QED  BY <2>4 DEF First
<1>3. ASSUME NEW j \in S, j \notin H PROVE j \notin First(S, Cardinality(H))
  <2>1. H \in SUBSET {k \in S : k < j}
    <3>1. ASSUME NEW h \in H PROVE h < j
      <4>1. h \in Nat /\ j \in Nat /\ h # j /\ ~ (j < h)
        BY <1>1, <1>3
      <4> QED  BY <4>1
    <3> QED  BY <3>1
  <2>2. Cardinality(H) <= Cardinality({k \in S : k < j})
    BY <2>1, Smaller, SetsOfObjectives
  <2> QED  BY <1>1, <2>2, Smaller DEF First
<1>4. First(S, Cardinality(H)) \subseteq S
  BY DEF First
<1> QED  BY <1>2, <1>3, <1>4

(***************************************************************************)
(* Of m objectives that are fixed: they reach the m-th largest value, and  *)
(* there are m of them, up to the number of objectives.                    *)
(***************************************************************************)
LEMMA FixCount ==
  ASSUME NEW b \in Vector, NEW m \in 0 .. N
  PROVE  /\ Reach(b, m) \in SUBSET Obj /\ Fix(b, m) \in SUBSET Reach(b, m)
         /\ Fix(b, m) \in SUBSET Obj
         /\ Cardinality(Fix(b, m)) = m
<1>1. /\ Reach(b, m) \in SUBSET Obj /\ Fix(b, m) \in SUBSET Reach(b, m)
      /\ Fix(b, m) \in SUBSET Obj
  BY DEF Fix, First, Reach
<1>2. Cardinality(Reach(b, m)) >= m
  <2>1. CASE m = 0
    BY <1>1, <2>1, SetsOfObjectives
  <2>2. CASE m # 0
    <3>1. m-1 \in Nat /\ Maximum(b, m-1) \in Value
      BY <2>2, NAssumption, MaximumDef
    <3>2. CASE Maximum(b, m-1) = 0
      <4>1. Reach(b, m) = Obj
        BY <2>2, <3>2, SizeAssumption DEF Reach, Vector, Value
      <4>2. Cardinality(Obj) = N
        BY NAssumption, FS_Interval DEF Obj
      <4> QED  BY <4>1, <4>2, NAssumption
    <3>3. CASE Maximum(b, m-1) # 0
      <4>1. Maximum(b, m-1) - 1 \in Value
        BY <3>1, <3>3, SizeAssumption DEF Value
      <4>2. ~ (Maximum(b, m-1) <= Maximum(b, m-1) - 1)
        BY <3>1, SizeAssumption DEF Value
      <4>3. ~ AtMostAbove(b, m-1, Maximum(b, m-1) - 1)
        BY <3>1, <4>1, <4>2, MaximumDef
      <4>4. Above(b, Maximum(b, m-1) - 1) \in SUBSET Reach(b, m)
        BY <2>2, <3>1, <4>1, SizeAssumption, NAssumption DEF Above, Reach, Vector, Value
      <4>5. /\ Cardinality(Above(b, Maximum(b, m-1) - 1)) <= Cardinality(Reach(b, m))
            /\ Cardinality(Above(b, Maximum(b, m-1) - 1)) \in Nat
            /\ Cardinality(Reach(b, m)) \in Nat
        BY <1>1, <4>4, SetsOfObjectives
      <4> QED  BY <4>3, <4>5 DEF AtMostAbove
    <3> QED  BY <3>2, <3>3
  <2> QED  BY <2>1, <2>2
<1>3. Cardinality(First(Reach(b, m), m)) = m
  BY <1>1, <1>2, NAssumption, FirstCount
<1> QED  BY <1>1, <1>3 DEF Fix

(* With fewer than all objectives fixed, one is left.                      *)
LEMMA OneNotFixed ==
  ASSUME NEW b \in Vector, NEW m \in Obj
  PROVE  \E i \in Obj : i \notin Fix(b, m)
<1>1. m \in 0 .. N /\ m # N
  BY NAssumption DEF Obj
<1>2. Fix(b, m) \in SUBSET Obj /\ Cardinality(Fix(b, m)) = m
  BY <1>1, FixCount
<1>3. Cardinality(Obj) = N
  BY NAssumption, FS_Interval DEF Obj
<1>4. Fix(b, m) # Obj
  BY <1>1, <1>2, <1>3
<1> QED  BY <1>2, <1>4

LEMMA NothingFixed ==
  ASSUME NEW b
  PROVE  Reach(b, 0) = {} /\ Fix(b, 0) = {}
BY DEF Fix, First, Reach

(***************************************************************************)
(* The objectives fixed are well chosen if all that exceed the last of the *)
(* maxima they stand for are among them.  If they are not, then a vector   *)
(* that keeps them and lowers the others does so for fewer of them, and    *)
(* decreases an earlier maximum.                                           *)
(***************************************************************************)
Proper(b, m) == m > 0 => \A j \in Obj : b[j] > Maximum(b, m-1) => j \in Fix(b, m)

LEMMA EarlierFix ==
  ASSUME NEW b \in Vector, NEW m \in 0 .. N, ~ Proper(b, m)
  PROVE  \E n \in 0 .. m-1 :
           /\ Fix(b, n) \subseteq Fix(b, m)
           /\ \A j \in Fix(b, m) \ Fix(b, n) : b[j] < Maximum(b, n)
           /\ Maximum(b, m) < Maximum(b, n)
<1> DEFINE M == Maximum(b, m-1)
           P == {j \in Obj : b[j] > M /\ j \notin Fix(b, m)}
<1>1. m > 0 /\ m-1 \in Nat /\ m \in Nat /\ M \in Value /\ P # {}
  <2>1. m > 0 /\ m-1 \in Nat /\ m \in Nat
    BY NAssumption DEF Proper
  <2>2. P # {}
    BY DEF Proper
  <2> QED  BY <2>1, <2>2, MaximumDef
<1>2. /\ Reach(b, m) \in SUBSET Obj /\ Fix(b, m) \in SUBSET Reach(b, m)
      /\ Fix(b, m) \in SUBSET Obj
  BY FixCount
<1>3. PICK p \in P : \A j \in P : b[j] <= b[p]
  <2>1. {b[j] : j \in P} \subseteq Value /\ {b[j] : j \in P} # {}
    BY <1>1 DEF Vector
  <2>2. PICK c \in {b[j] : j \in P} : \A d \in {b[j] : j \in P} : d <= c
    BY <2>1, GreatestElement
  <2> QED  BY <2>2
<1>4. p \in Obj /\ b[p] \in Value /\ b[p] > M /\ p \notin Fix(b, m)
  BY DEF Vector
<1>5. \A j \in Obj : b[j] > M /\ j \notin Fix(b, m) => b[j] <= b[p]
  BY <1>3
<1>6. \A j \in Obj : b[j] \in Int /\ b[j] \in Value
  BY SizeAssumption DEF Vector, Value
<1>7. M \in Int /\ b[p] \in Int
  BY <1>1, <1>4, SizeAssumption DEF Value
<1> DEFINE c == b[p]
           G == {j \in Obj : b[j] >= c}
           H == G \cap Fix(b, m)
           n == Cardinality(H)
<1>8. /\ G \in SUBSET Obj /\ H \in SUBSET Obj /\ H \in SUBSET G /\ p \in G /\ p \notin H
      /\ G \in SUBSET Above(b, M) /\ Above(b, M) \in SUBSET Obj
  BY <1>4, <1>6, <1>7 DEF Above
<1>9. n \in Nat /\ n < Cardinality(G) /\ Cardinality(G) <= m-1 /\ Cardinality(G) \in Nat
  <2>1. H \in SUBSET (G \ {p}) /\ G \ {p} \in SUBSET Obj
    BY <1>8
  <2>2. /\ Cardinality(G \ {p}) = Cardinality(G) - 1 /\ n <= Cardinality(G \ {p})
        /\ n \in Nat /\ Cardinality(G) \in Nat
    BY <1>8, <2>1, SetsOfObjectives
  <2>3. Cardinality(G) <= Cardinality(Above(b, M)) /\ Cardinality(Above(b, M)) \in Nat
    BY <1>8, SetsOfObjectives
  <2>4. Cardinality(Above(b, M)) <= m-1
    BY <1>1, MaximumDef DEF AtMostAbove
  <2> HIDE DEF G, H
  <2> QED  BY <1>1, <2>2, <2>3, <2>4
<1>10. Above(b, c) \in SUBSET H
  <2>1. ASSUME NEW j \in Obj, b[j] > c PROVE j \in H
    <3>1. b[j] > M /\ b[j] >= c /\ ~ (b[j] <= b[p])
      BY <1>4, <1>6, <1>7, <2>1
    <3> QED  BY <1>5, <3>1
  <2> QED  BY <2>1 DEF Above
<1> HIDE DEF P, M
<1>11. Maximum(b, n) = c
  <2>1. Cardinality(Above(b, c)) <= n
    BY <1>8, <1>10, SetsOfObjectives
  <2>2. AtMostAbove(b, n, c)
    BY <2>1 DEF AtMostAbove
  <2>3. Maximum(b, n) <= c /\ Maximum(b, n) \in Value
    BY <1>4, <1>9, <2>2, MaximumDef
  <2>4. Maximum(b, n) >= c
    BY <1>4, <1>8, <1>9, MaximumAtLeast
  <2> QED  BY <1>7, <2>3, <2>4, SizeAssumption DEF Value
<1>12. ASSUME n > 0 PROVE n-1 \in Nat /\ Maximum(b, n-1) \in Value /\ Maximum(b, n-1) >= c
  <2>1. n-1 \in Nat /\ n-1 <= n
    BY <1>9, <1>12
  <2>2. Maximum(b, n) <= Maximum(b, n-1)
    BY <1>9, <2>1, MaximumDescends
  <2>3. Maximum(b, n-1) \in Value
    BY <2>1, MaximumDef
  <2> QED  BY <1>7, <1>11, <2>1, <2>2, <2>3, SizeAssumption DEF Value
<1>13. Reach(b, n) \in SUBSET G
  <2>1. ASSUME NEW j \in Obj, n > 0, b[j] >= Maximum(b, n-1) PROVE b[j] >= c
    <3>1. Maximum(b, n-1) \in Int
      BY <1>12, <2>1, SizeAssumption DEF Value
    <3> QED  BY <1>6, <1>7, <1>12, <2>1, <3>1
  <2> QED  BY <2>1 DEF Reach
<1>14. H \in SUBSET Reach(b, n)
  <2>1. ASSUME NEW h \in H PROVE h \in Reach(b, n)
    <3>1. h \in Obj /\ b[h] \in Value /\ b[h] \in Int /\ b[h] >= c
      BY <1>6
    <3>2. Above(b, b[h]) \in SUBSET (H \ {h})
      <4>1. Above(b, b[h]) \in SUBSET Above(b, c) /\ h \notin Above(b, b[h])
        BY <1>6, <1>7, <3>1 DEF Above
      <4> QED  BY <1>10, <4>1
    <3>3. /\ Cardinality(H \ {h}) = n-1 /\ Cardinality(Above(b, b[h])) <= Cardinality(H \ {h})
          /\ Cardinality(H \ {h}) \in Nat
      BY <1>8, <3>2, SetsOfObjectives
    <3>4. n-1 \in Nat /\ n > 0 /\ AtMostAbove(b, n-1, b[h])
      BY <1>9, <3>3 DEF AtMostAbove
    <3>5. Maximum(b, n-1) <= b[h]
      BY <3>1, <3>4, MaximumDef
    <3>6. Maximum(b, n-1) \in Int
      BY <1>12, <3>4, SizeAssumption DEF Value
    <3> QED  BY <3>1, <3>4, <3>5, <3>6 DEF Reach
  <2> QED  BY <2>1
<1>15. ASSUME NEW h \in H, NEW k \in Reach(b, n), k < h PROVE k \in H
  <2>1. k \in G /\ k \in Obj /\ h \in Fix(b, m)
    BY <1>8, <1>13
  <2>2. k \in Reach(b, m)
    <3>1. b[k] >= M
      BY <1>4, <1>6, <1>7, <2>1
    <3> QED  BY <1>1, <2>1, <3>1 DEF Reach, M
  <2>3. k \in Fix(b, m)
    BY <1>1, <1>2, <1>15, <2>1, <2>2, FirstDown DEF Fix
  <2> QED  BY <2>1, <2>3
<1>16. Fix(b, n) = H
  <2>1. Reach(b, n) \in SUBSET Obj
    BY DEF Reach
  <2> HIDE DEF H, G
  <2>2. First(Reach(b, n), Cardinality(H)) = H
    BY <1>14, <1>15, <2>1, FirstIs
  <2> QED  BY <2>2 DEF Fix
<1>17. n \in 0 .. m-1
  <2> HIDE DEF n
  <2> QED  BY <1>1, <1>9
<1>18. Maximum(b, m) < Maximum(b, n)
  <2>1. Maximum(b, m) <= M /\ Maximum(b, m) \in Value
    BY <1>1, MaximumDescends, MaximumDef DEF M
  <2>2. Maximum(b, m) \in Int
    BY <2>1, SizeAssumption DEF Value
  <2> QED  BY <1>4, <1>7, <1>11, <2>1, <2>2
<1>19. \A j \in Fix(b, m) \ Fix(b, n) : b[j] < Maximum(b, n)
  <2>1. ASSUME NEW j \in Fix(b, m), j \notin H PROVE b[j] < c
    BY <1>2, <1>6, <1>7, <2>1
  <2> HIDE DEF H, n, c
  <2> QED  BY <1>11, <1>16, <2>1
<1>20. Fix(b, n) \subseteq Fix(b, m)
  BY <1>16
<1> HIDE DEF n
<1> QED  BY <1>17, <1>18, <1>19, <1>20

LEMMA ProperKept ==
  ASSUME NEW b \in Vector, NEW v \in Vector, NEW m \in 0 .. N, Keep(v, b, m), Lower(v, b, m),
         \A n \in 0 .. m-1 : ~ (Keep(v, b, n) /\ Lower(v, b, n))
  PROVE  Proper(b, m)
<1>1. SUFFICES ASSUME ~ Proper(b, m) PROVE FALSE
  OBVIOUS
<1>2. PICK n \in 0 .. m-1 : /\ Fix(b, n) \subseteq Fix(b, m)
                            /\ \A j \in Fix(b, m) \ Fix(b, n) : b[j] < Maximum(b, n)
                            /\ Maximum(b, m) < Maximum(b, n)
  BY <1>1, EarlierFix
<1>3. Keep(v, b, n)
  BY <1>2 DEF Keep
<1>4. Lower(v, b, n)
  <2> SUFFICES ASSUME NEW j \in Obj \ Fix(b, n) PROVE v[j] < Maximum(b, n)
    BY DEF Lower
  <2>1. CASE j \in Fix(b, m)
    BY <1>2, <2>1 DEF Keep
  <2>2. CASE j \notin Fix(b, m)
    <3>1. v[j] < Maximum(b, m)
      BY <2>2 DEF Lower
    <3>2. m \in Nat /\ n \in Nat
      BY NAssumption
    <3>3. v[j] \in Int /\ Maximum(b, m) \in Int /\ Maximum(b, n) \in Int
      BY <3>2, MaximumDef, SizeAssumption DEF Vector, Value
    <3> QED  BY <1>2, <3>1, <3>3
  <2> QED  BY <2>1, <2>2
<1> QED  BY <1>2, <1>3, <1>4

(* Fewer objectives fixed are among those fixed.                           *)
LEMMA ProperFix ==
  ASSUME NEW b \in Vector, NEW m \in 0 .. N, Proper(b, m), NEW n \in 0 .. m
  PROVE  Fix(b, n) \subseteq Fix(b, m)
<1>1. CASE n = 0
  BY <1>1, NothingFixed
<1>2. CASE n # 0
  <2>1. /\ n > 0 /\ m > 0 /\ n-1 \in Nat /\ m-1 \in Nat /\ n-1 <= m-1
        /\ n \in Nat /\ m \in Nat /\ n <= m
    BY <1>2, NAssumption
  <2>2. /\ Maximum(b, m-1) <= Maximum(b, n-1)
        /\ Maximum(b, m-1) \in Value /\ Maximum(b, n-1) \in Value
    BY <2>1, MaximumDescends, MaximumDef
  <2>3. Maximum(b, m-1) \in Int /\ Maximum(b, n-1) \in Int /\ \A j \in Obj : b[j] \in Int
    BY <2>2, SizeAssumption DEF Vector, Value
  <2>4. CASE Maximum(b, m-1) = Maximum(b, n-1)
    <3>1. Reach(b, n) = Reach(b, m) /\ Reach(b, m) \in SUBSET Obj
      BY <2>1, <2>4 DEF Reach
    <3>2. ASSUME NEW j \in Fix(b, n) PROVE j \in Fix(b, m)
      <4>1. /\ j \in Reach(b, m) /\ Cardinality({k \in Reach(b, m) : k < j}) < n
            /\ Cardinality({k \in Reach(b, m) : k < j}) \in Nat
        BY <3>1, Smaller DEF Fix, First
      <4>2. Cardinality({k \in Reach(b, m) : k < j}) < m
        BY <2>1, <4>1
      <4> QED  BY <4>1, <4>2 DEF Fix, First
    <3> QED  BY <3>2
  <2>5. CASE Maximum(b, m-1) # Maximum(b, n-1)
    <3>1. ASSUME NEW j \in Fix(b, n) PROVE j \in Fix(b, m)
      <4>1. j \in Obj /\ b[j] >= Maximum(b, n-1)
        BY DEF Fix, First, Reach
      <4>2. b[j] > Maximum(b, m-1)
        BY <2>2, <2>3, <2>5, <4>1
      <4> QED  BY <2>1, <4>1, <4>2 DEF Proper
    <3> QED  BY <3>1
  <2> QED  BY <2>4, <2>5
<1> QED  BY <1>1, <1>2

(***************************************************************************)
(* A vector that keeps well chosen objectives and lowers the others has    *)
(* the same objectives fixed for the earlier maxima, and the same earlier  *)
(* maxima: clauses added for one of the two vectors say the same of the    *)
(* other.                                                                  *)
(***************************************************************************)
LEMMA SameFix ==
  ASSUME NEW b \in Vector, NEW w \in Vector, NEW m \in 0 .. N,
         Proper(b, m), Keep(w, b, m), Lower(w, b, m), NEW n \in 0 .. m
  PROVE  Fix(w, n) = Fix(b, n) /\ (n < m => Maximum(w, n) = Maximum(b, n))
<1> DEFINE A == Fix(b, m)
           M == Maximum(b, m-1)
<1>1. /\ Reach(b, m) \in SUBSET Obj /\ A \in SUBSET Reach(b, m)
      /\ A \in SUBSET Obj /\ Cardinality(A) = m
  BY FixCount
<1>2. m \in Nat /\ n \in Nat /\ n <= m
  BY NAssumption
<1>3. \A j \in Obj : b[j] \in Int /\ w[j] \in Int
  BY SizeAssumption DEF Vector, Value
<1>4. \A k \in Nat : /\ Maximum(b, k) \in Value /\ Maximum(b, k) \in Int
                     /\ Maximum(w, k) \in Value /\ Maximum(w, k) \in Int
  BY MaximumDef, SizeAssumption DEF Value
<1>5. ASSUME m > 0
      PROVE  /\ \A j \in A : w[j] = b[j] /\ b[j] >= M
             /\ \A j \in Obj \ A : b[j] <= M /\ w[j] < M
  <2>1. m-1 \in Nat
    BY <1>2, <1>5
  <2>2. Maximum(b, m) <= M
    BY <1>2, <2>1, MaximumDescends
  <2>3. \A j \in A : w[j] = b[j] /\ b[j] >= M
    BY <1>1 DEF Keep, Reach
  <2>4. ASSUME NEW j \in Obj \ A PROVE b[j] <= M /\ w[j] < M
    <3>1. ~ (b[j] > M)
      BY <1>5 DEF Proper
    <3>2. w[j] < Maximum(b, m)
      BY DEF Lower
    <3> QED  BY <1>2, <1>3, <1>4, <2>1, <2>2, <3>1, <3>2
  <2> QED  BY <2>3, <2>4
<1>6. ASSUME m > 0, NEW k \in Value, k >= M PROVE Above(w, k) = Above(b, k)
  <2>1. k \in Int /\ M \in Int
    BY <1>2, <1>4, <1>6, SizeAssumption DEF Value
  <2>2. ASSUME NEW j \in Obj PROVE w[j] > k <=> b[j] > k
    <3>1. CASE j \in A
      BY <1>5, <1>6, <3>1
    <3>2. CASE j \notin A
      <4>1. b[j] <= M /\ w[j] < M
        BY <1>5, <1>6, <3>2
      <4> QED  BY <1>3, <1>6, <2>1, <4>1
    <3> QED  BY <3>1, <3>2
  <2> QED  BY <2>2 DEF Above
<1>7. ASSUME NEW k \in Nat, k < m PROVE Maximum(w, k) = Maximum(b, k) /\ Maximum(b, k) >= M
  <2>1. m > 0 /\ m-1 \in Nat /\ k <= m-1
    BY <1>2, <1>7
  <2>2. Maximum(b, k) >= M /\ M \in Value /\ M \in Int
    BY <1>4, <2>1, MaximumDescends
  <2>3. \A j \in A : w[j] >= M
    BY <1>5, <2>1
  <2>4. Cardinality(A) > k
    BY <1>1, <1>2, <1>7
  <2> HIDE DEF A
  <2>5. Maximum(w, k) >= M
    BY <1>1, <2>2, <2>3, <2>4, MaximumAtLeast
  <2>6. AtMostAbove(w, k, Maximum(b, k)) /\ AtMostAbove(b, k, Maximum(w, k))
    <3>1. AtMostAbove(b, k, Maximum(b, k)) /\ AtMostAbove(w, k, Maximum(w, k))
      BY MaximumDef
    <3>2. /\ Above(w, Maximum(b, k)) = Above(b, Maximum(b, k))
          /\ Above(w, Maximum(w, k)) = Above(b, Maximum(w, k))
      BY <1>4, <1>6, <2>1, <2>2, <2>5
    <3> QED  BY <3>1, <3>2 DEF AtMostAbove
  <2>7. Maximum(w, k) <= Maximum(b, k) /\ Maximum(b, k) <= Maximum(w, k)
    BY <1>4, <2>6, MaximumDef
  <2> QED  BY <1>4, <2>2, <2>7
<1>8. Fix(w, n) = Fix(b, n)
  <2>1. CASE n = 0
    BY <2>1, NothingFixed
  <2>2. CASE n # 0
    <3>1. n > 0 /\ m > 0 /\ n-1 \in Nat /\ n-1 < m /\ m-1 \in Nat
      BY <1>2, <2>2
    <3>2. /\ Maximum(w, n-1) = Maximum(b, n-1) /\ Maximum(b, n-1) >= M
          /\ Maximum(b, n-1) \in Int /\ M \in Int
      BY <1>4, <1>7, <3>1
    <3>3. CASE Maximum(b, n-1) # M
      <4>1. ASSUME NEW j \in Obj PROVE w[j] >= Maximum(b, n-1) <=> b[j] >= Maximum(b, n-1)
        <5>1. CASE j \in A
          BY <1>5, <3>1, <5>1
        <5>2. CASE j \notin A
          <6>1. b[j] <= M /\ w[j] < M
            BY <1>5, <3>1, <5>2
          <6> QED  BY <1>3, <3>2, <3>3, <6>1
        <5> QED  BY <5>1, <5>2
      <4>2. Reach(w, n) = Reach(b, n)
        BY <3>2, <4>1 DEF Reach
      <4> QED  BY <4>2 DEF Fix
    <3>4. CASE Maximum(b, n-1) = M
      <4>1. Reach(b, n) = Reach(b, m)
        BY <3>1, <3>4 DEF Reach
      <4>2. Reach(w, n) = A
        <5>1. ASSUME NEW j \in Obj PROVE w[j] >= M <=> j \in A
          <6>1. CASE j \in A
            BY <1>3, <1>5, <3>1, <3>2, <6>1
          <6>2. CASE j \notin A
            <7>1. w[j] < M
              BY <1>5, <3>1, <6>2
            <7> QED  BY <1>3, <3>2, <6>2, <7>1
          <6> QED  BY <6>1, <6>2
        <5>2. Reach(w, n) = {j \in Obj : w[j] >= M}
          BY <3>1, <3>2, <3>4 DEF Reach
        <5> HIDE DEF A, M
        <5> QED  BY <1>1, <5>1, <5>2
      <4>3. Fix(b, n) \subseteq A
        BY ProperFix
      <4>4. ASSUME NEW j \in A PROVE {k \in A : k < j} = {k \in Reach(b, m) : k < j}
        <5>1. ASSUME NEW k \in Reach(b, m), k < j PROVE k \in A
          BY <1>1, <1>2, <5>1, FirstDown DEF Fix
        <5> QED  BY <1>1, <5>1
      <4>5. \A j \in A : j \in First(A, n) <=> j \in First(Reach(b, m), n)
        BY <1>1, <4>4 DEF First
      <4>6. First(A, n) \subseteq A
        BY DEF First
      <4> HIDE DEF A
      <4>7. First(A, n) = First(Reach(b, m), n)
        BY <4>1, <4>3, <4>5, <4>6 DEF Fix
      <4> QED  BY <4>1, <4>2, <4>7 DEF Fix
    <3> QED  BY <3>3, <3>4
  <2> QED  BY <2>1, <2>2
<1> QED  BY <1>2, <1>7, <1>8

LEMMA SameClauses ==
  ASSUME NEW b \in Vector, NEW w \in Vector, NEW m \in 0 .. N,
         Proper(b, m), Keep(w, b, m), Lower(w, b, m), NEW n \in 0 .. m, NEW v
  PROVE  /\ Keep(v, w, n) <=> Keep(v, b, n)
         /\ n < m => (Lower(v, w, n) <=> Lower(v, b, n))
<1>1. Fix(w, n) = Fix(b, n) /\ (n < m => Maximum(w, n) = Maximum(b, n))
  BY SameFix
<1>2. \A j \in Fix(b, n) : w[j] = b[j]
  BY ProperFix DEF Keep
<1> QED  BY <1>1, <1>2 DEF Keep, Lower

LEMMA Objectives == Obj \subseteq Nat /\ 0 \in Obj /\ N-1 \in Nat
BY NAssumption DEF Obj

(* The last maximum is the least value.                                    *)
LEMMA LastMaximum ==
  ASSUME NEW v \in Vector, NEW j \in Obj
  PROVE  Maximum(v, N-1) <= v[j]
<1>1. IsFiniteSet(Obj) /\ Cardinality(Obj) = N
  BY NAssumption, FS_Interval DEF Obj
<1>2. IsFiniteSet(Obj \ {j}) /\ Cardinality(Obj \ {j}) = N-1
  BY <1>1, FS_RemoveElement
<1>3. v[j] \in Value
  BY DEF Vector
<1>4. Above(v, v[j]) \in SUBSET (Obj \ {j})
  BY <1>3, SizeAssumption DEF Above, Value
<1>5. Cardinality(Above(v, v[j])) <= N-1
  BY <1>2, <1>4, FS_Subset
<1>6. AtMostAbove(v, N-1, v[j])
  BY <1>5 DEF AtMostAbove
<1> QED  BY <1>3, <1>6, MaximumDef, Objectives

(* A vector that keeps the objectives fixed and lowers the others has a    *)
(* smaller maximum.                                                        *)
LEMMA LoweredMaximum ==
  ASSUME NEW b \in Vector, NEW w \in Vector, NEW m \in Obj, Keep(w, b, m), Lower(w, b, m)
  PROVE  Maximum(w, m) < Maximum(b, m)
<1>1. m \in Nat /\ m \in 0 .. N /\ Maximum(b, m) \in Value /\ Maximum(w, m) \in Value
  BY NAssumption, MaximumDef DEF Obj
<1>2. \A j \in Obj : w[j] \in Value /\ b[j] \in Value
  BY DEF Vector
<1>3. Fix(b, m) \in SUBSET Obj /\ Cardinality(Fix(b, m)) = m
  BY <1>1, FixCount
<1>4. PICK i \in Obj : i \notin Fix(b, m)
  BY OneNotFixed
<1>5. Maximum(b, m) - 1 \in Value
  <2>1. w[i] < Maximum(b, m)
    BY <1>4 DEF Lower
  <2> QED  BY <1>1, <1>2, <2>1, SizeAssumption DEF Value
<1>6. Above(w, Maximum(b, m) - 1) \in SUBSET Fix(b, m)
  <2>1. ASSUME NEW j \in Obj, j \notin Fix(b, m) PROVE ~ (w[j] > Maximum(b, m) - 1)
    BY <1>1, <1>2, <2>1, SizeAssumption DEF Lower, Value
  <2> QED  BY <2>1 DEF Above
<1>7. AtMostAbove(w, m, Maximum(b, m) - 1)
  BY <1>3, <1>6, SetsOfObjectives DEF AtMostAbove
<1>8. Maximum(w, m) <= Maximum(b, m) - 1
  BY <1>1, <1>5, <1>7, MaximumDef
<1> QED  BY <1>1, <1>8, SizeAssumption DEF Value

(***************************************************************************)
(* An answer to pareto_search is nowhere larger than the solution held,    *)
(* and better.                                                             *)
(***************************************************************************)
LEMMA ModelBelow ==
  ASSUME NEW b \in Vector, NEW w \in Vector, NEW m \in Obj, Keep(w, b, m), Lower(w, b, m),
         \A j \in Obj : b[j] < Maximum(b, m) => w[j] <= b[j]
  PROVE  (\A j \in Obj : w[j] <= b[j]) /\ Better(w, b)
<1>1. m \in Nat /\ m \in 0 .. N /\ Maximum(b, m) \in Value /\ Maximum(w, m) \in Value
  BY NAssumption, MaximumDef DEF Obj
<1>2. \A j \in Obj : w[j] \in Value /\ w[j] \in Int /\ b[j] \in Value /\ b[j] \in Int
  BY SizeAssumption DEF Vector, Value
<1>3. ASSUME NEW j \in Obj PROVE w[j] <= b[j]
  <2>1. CASE j \in Fix(b, m)
    BY <1>2, <2>1 DEF Keep
  <2>2. CASE j \notin Fix(b, m) /\ ~ (b[j] < Maximum(b, m))
    BY <1>1, <1>2, <2>2, SizeAssumption DEF Lower, Value
  <2> QED  BY <2>1, <2>2
<1>4. Maximum(w, m) < Maximum(b, m)
  BY LoweredMaximum
<1> QED  BY <1>3, <1>4, SmallerBetter

(* A vector whose entries are smaller than one of the maxima, where the    *)
(* least value is that maximum or one less, is nowhere larger.             *)
LEMMA NeighboursBelow ==
  ASSUME NEW b \in Vector, NEW v \in Vector, NEW m \in Obj, Keep(v, b, m), Lower(v, b, m),
         Maximum(b, m) - Maximum(b, N-1) <= 1
  PROVE  \A j \in Obj : v[j] <= b[j]
<1> TAKE j \in Obj
<1>1. v[j] \in Int /\ b[j] \in Int
  BY SizeAssumption DEF Vector, Value
<1>2. Maximum(b, m) \in Int /\ Maximum(b, N-1) \in Int
  BY NAssumption, MaximumDef, SizeAssumption DEF Obj, Value
<1>3. Maximum(b, N-1) <= b[j]
  BY LastMaximum
<1>4. CASE j \in Fix(b, m)
  BY <1>1, <1>4 DEF Keep
<1>5. CASE j \notin Fix(b, m)
  BY <1>1, <1>2, <1>3, <1>5 DEF Lower
<1> QED  BY <1>4, <1>5

(* Nothing is smaller than a maximum that is 0.                            *)
LEMMA NothingLower ==
  ASSUME NEW b \in Vector, NEW v \in Vector, NEW m \in Obj, Maximum(b, m) = 0
  PROVE  ~ Lower(v, b, m)
<1>1. PICK i \in Obj : i \notin Fix(b, m)
  BY OneNotFixed
<1>2. ~ (v[i] < 0)
  BY SizeAssumption DEF Vector, Value
<1> QED  BY <1>1, <1>2 DEF Lower

(***************************************************************************)
(* Where no two objectives have the same positive value, a vector that     *)
(* dominates decreases one of the maxima and keeps all objectives that     *)
(* are larger.                                                             *)
(***************************************************************************)
LEMMA DominatingLowers ==
  ASSUME NEW b \in Vector, NEW v \in Vector, v # b, \A j \in Obj : v[j] <= b[j],
         \A j, k \in Obj : j # k /\ b[j] > 0 => b[j] # b[k]
  PROVE  \E m \in Obj : Keep(v, b, m) /\ Lower(v, b, m)
<1> DEFINE D == {j \in Obj : v[j] # b[j]}
<1>1. \A j \in Obj : v[j] \in Value /\ b[j] \in Value /\ v[j] \in Int /\ b[j] \in Int
                     /\ v[j] >= 0
  BY SizeAssumption DEF Vector, Value
<1>2. D # {}
  BY DEF Vector
<1>3. PICK d \in D : \A j \in D : b[j] <= b[d]
  <2>1. {b[j] : j \in D} \subseteq Value /\ {b[j] : j \in D} # {}
    BY <1>1, <1>2
  <2>2. PICK c \in {b[j] : j \in D} : \A x \in {b[j] : j \in D} : x <= c
    BY <2>1, GreatestElement
  <2> QED  BY <2>2
<1>4. d \in Obj /\ v[d] < b[d] /\ b[d] > 0
  BY <1>1
<1>5. \A j \in Obj : v[j] # b[j] => b[j] <= b[d]
  BY <1>3
<1> HIDE DEF D
<1> DEFINE A == Above(b, b[d])
           m == Cardinality(A)
<1>6. A \in SUBSET Obj /\ d \notin A /\ m \in Nat /\ m < N /\ m \in Obj
  <2>1. A \in SUBSET Obj /\ d \notin A
    BY <1>1, <1>4 DEF Above
  <2>2. Cardinality(Obj) = N
    BY NAssumption, FS_Interval DEF Obj
  <2>3. m \in Nat /\ m <= N /\ (m = N => A = Obj)
    BY <2>1, <2>2, SetsOfObjectives
  <2>4. m < N
    BY <1>4, <2>1, <2>3, NAssumption
  <2> QED  BY <2>1, <2>3, <2>4, NAssumption DEF Obj
<1>7. Maximum(b, m) = b[d]
  <2>1. AtMostAbove(b, m, b[d])
    BY <1>6 DEF AtMostAbove
  <2>2. Maximum(b, m) <= b[d] /\ Maximum(b, m) \in Value
    BY <1>1, <1>4, <1>6, <2>1, MaximumDef
  <2>3. Cardinality(A \cup {d}) > m /\ A \cup {d} \in SUBSET Obj
    <3>1. A \cup {d} \in SUBSET Obj /\ (A \cup {d}) \ {d} = A
      BY <1>4, <1>6
    <3>2. Cardinality(A) = Cardinality(A \cup {d}) - 1 /\ Cardinality(A \cup {d}) \in Nat
      BY <3>1, SetsOfObjectives
    <3> QED  BY <1>6, <3>1, <3>2
  <2>4. \A j \in A \cup {d} : b[j] >= b[d]
    BY <1>1, <1>4 DEF Above
  <2>5. Maximum(b, m) >= b[d]
    BY <1>1, <1>4, <1>6, <2>3, <2>4, MaximumAtLeast
  <2> QED  BY <1>1, <1>4, <2>2, <2>5, SizeAssumption DEF Value
<1>8. Reach(b, m) \in SUBSET Obj /\ A \in SUBSET Reach(b, m)
  <2>1. ASSUME NEW j \in A PROVE j \in Reach(b, m)
    <3>1. j \in Obj /\ b[j] > b[d]
      BY DEF Above
    <3>2. Above(b, b[j]) \in SUBSET (A \ {j})
      BY <1>1, <1>4, <3>1 DEF Above
    <3>3. /\ Cardinality(A \ {j}) = m-1 /\ Cardinality(Above(b, b[j])) <= Cardinality(A \ {j})
          /\ Cardinality(A \ {j}) \in Nat
      BY <1>6, <3>2, SetsOfObjectives
    <3>4. m-1 \in Nat /\ m > 0 /\ AtMostAbove(b, m-1, b[j])
      BY <1>6, <3>3 DEF AtMostAbove
    <3>5. Maximum(b, m-1) <= b[j] /\ Maximum(b, m-1) \in Value
      BY <1>1, <3>1, <3>4, MaximumDef
    <3> QED  BY <1>1, <3>1, <3>4, <3>5, SizeAssumption DEF Reach, Value
  <2> QED  BY <2>1 DEF Reach
<1>9. ASSUME NEW j \in Reach(b, m) PROVE j \in A
  <2>1. m > 0 /\ j \in Obj /\ b[j] >= Maximum(b, m-1)
    BY DEF Reach
  <2>2. m-1 \in Nat /\ Maximum(b, m-1) \in Value
    BY <1>6, <2>1, MaximumDef
  <2>3. ~ (Maximum(b, m-1) <= b[d])
    <3>1. SUFFICES ASSUME Maximum(b, m-1) <= b[d] PROVE FALSE
      OBVIOUS
    <3>2. AtMostAbove(b, m-1, b[d])
      BY <1>1, <1>4, <2>2, <3>1, EncodingCorrect
    <3> QED  BY <1>6, <3>2 DEF AtMostAbove
  <2> QED  BY <1>1, <1>4, <2>1, <2>2, <2>3, SizeAssumption DEF Above, Value
<1>10. Fix(b, m) = A
  <2>1. Reach(b, m) = A
    BY <1>8, <1>9
  <2> HIDE DEF A
  <2>2. First(A, Cardinality(A)) = A
    BY <1>6, FirstIs
  <2> QED  BY <2>1, <2>2 DEF Fix
<1>11. Keep(v, b, m)
  <2>1. ASSUME NEW j \in A PROVE v[j] = b[j]
    <3>1. j \in Obj /\ b[j] > b[d]
      BY DEF Above
    <3> QED  BY <1>1, <1>4, <1>5, <3>1
  <2> QED  BY <1>10, <2>1 DEF Keep
<1>12. Lower(v, b, m)
  <2>1. ASSUME NEW j \in Obj \ A PROVE v[j] < b[d]
    <3>1. ~ (b[j] > b[d])
      BY DEF Above
    <3>2. CASE j = d
      BY <1>4, <3>2
    <3>3. CASE j # d
      <4>1. b[j] # b[d]
        BY <1>4, <3>3
      <4>2. v[j] <= b[j]
        OBVIOUS
      <4> QED  BY <1>1, <1>4, <3>1, <4>1, <4>2
    <3> QED  BY <3>2, <3>3
  <2> QED  BY <1>7, <1>10, <2>1 DEF Lower
<1> HIDE DEF m
<1> QED  BY <1>6, <1>11, <1>12

-----------------------------------------------------------------------------
(***************************************************************************)
(* The inductive invariant.  No solution decreases one of the maxima       *)
(* before max_index while the objectives fixed keep their values; nor does *)
(* one that is nowhere larger decrease a maximum pareto_search has passed. *)
(***************************************************************************)
Below(v) == \A j \in Obj : v[j] <= best[j]
NoneLower(m) == ~ \E v \in feasible : Keep(v, best, m) /\ Lower(v, best, m)
NoneBelow(m) == ~ \E v \in feasible : Below(v) /\ Keep(v, best, m) /\ Lower(v, best, m)

Types ==
  /\ SpecTypeOK
  /\ incr \in BOOLEAN /\ pareto \in BOOLEAN /\ skip \in BOOLEAN
  /\ pc \in {"start", "top", "pareto", "check", "done"}
  /\ max_index \in 0 .. N /\ local_index \in 0 .. N
  /\ main \subseteq feasible /\ local \subseteq feasible

Control ==
  /\ pc = "start" => status = "?" /\ max_index = 0 /\ main = feasible /\ ~ skip
  /\ pc \in {"top", "pareto", "check"} => status = "s" /\ best \in feasible
  /\ max_index > 0 \/ skip => best \in feasible
  /\ pc = "top" => max_index < N
  /\ pc = "pareto" => max_index <= local_index /\ local_index < N /\ ~ skip

(***************************************************************************)
(* m_sat_solver has every solution with no larger first maximum, and the   *)
(* solver of pareto_search every one that is nowhere larger than the one   *)
(* held and agrees with it on what was fixed so far.                       *)
(***************************************************************************)
MainKeeps ==
  pc # "start" /\ best \in feasible =>
    \A v \in feasible : (\A j \in Obj : v[j] <= Maximum(best, 0)) => v \in main

LocalKeeps ==
  pc = "pareto" =>
    \A v \in feasible :
      Below(v) /\ (\A m \in 0 .. local_index : Keep(v, best, m)) => v \in local

IndexKept == \A m \in 0 .. max_index-1 : NoneLower(m)
SearchKept == pc = "pareto" => \A m \in 0 .. local_index-1 : NoneBelow(m)
ParetoKept == (pc = "check" /\ pareto) \/ skip => \A m \in Obj : NoneBelow(m)

IInv ==
  Types /\ Control /\ MainKeeps /\ LocalKeeps /\ IndexKept /\ SearchKept /\ ParetoKept

-----------------------------------------------------------------------------
LEMMA HeldVector ==
  ASSUME IInv, pc \in {"top", "pareto", "check"}
  PROVE  /\ status = "s" /\ best \in feasible /\ best \in Vector
         /\ \A v \in feasible : v \in Vector
         /\ max_index \in Nat /\ local_index \in Nat
BY NAssumption DEF IInv, Types, Control, SpecTypeOK

LEMMA BelowNew ==
  ASSUME NEW v \in Vector, NEW b \in Vector, NEW c \in Vector,
         Maximum(c, 0) <= Maximum(b, 0), \A j \in Obj : v[j] <= Maximum(c, 0)
  PROVE  \A j \in Obj : v[j] <= Maximum(b, 0)
<1> TAKE j \in Obj
<1>1. v[j] \in Int /\ Maximum(b, 0) \in Int /\ Maximum(c, 0) \in Int
  BY MaximumDef, SizeAssumption DEF Vector, Value
<1> QED  BY <1>1

(* The steps of one call, one lemma each.                                  *)
LEMMA InitInv == Init => IInv
<1> SUFFICES ASSUME Init PROVE IInv
  OBVIOUS
<1>1. Types
  <2>1. SpecTypeOK
    BY FormulasAssumption DEF Init, SpecInit, SpecTypeOK
  <2>2. 0 \in 0 .. N
    BY NAssumption
  <2> QED  BY <2>1, <2>2 DEF Init, Types
<1>2. Control /\ MainKeeps /\ LocalKeeps
  BY DEF Init, SpecInit, Control, MainKeeps, LocalKeeps
<1>3. IndexKept /\ SearchKept /\ ParetoKept
  BY DEF Init, SpecInit, IndexKept, SearchKept, ParetoKept
<1> QED  BY <1>1, <1>2, <1>3 DEF IInv

LEMMA StartInv == IInv /\ Start => IInv'
<1> SUFFICES ASSUME IInv, Start PROVE IInv'
  OBVIOUS
<1>1. /\ Types /\ pc = "start" /\ status = "?" /\ max_index = 0 /\ main = feasible /\ ~ skip
      /\ feasible' = feasible
      /\ UNCHANGED <<incr, pareto, max_index, local_index, skip, local>>
      /\ pc' \in {"top", "done"} /\ status' \in {"u", "s"}
      /\ pc' = "top" => best' \in feasible /\ status' = "s"
  BY DEF IInv, Control, Start, Refute, Find
<1>2. Control' /\ LocalKeeps'
  BY <1>1, NAssumption DEF Control, LocalKeeps
<1>3. IndexKept' /\ SearchKept' /\ ParetoKept'
  BY <1>1 DEF IndexKept, SearchKept, ParetoKept
<1>4. CASE Refute /\ pc' = "done" /\ UNCHANGED main
  <2>1. Types'
    BY <1>1, <1>4 DEF Refute, Types, SpecTypeOK
  <2>2. MainKeeps'
    BY <1>1, <1>4 DEF Refute, MainKeeps
  <2> QED  BY <1>2, <1>3, <2>1, <2>2 DEF IInv
<1>5. CASE Find /\ pc' = "top" /\ main' = AtMost(main, Maximum(best', 0))
  <2>1. Types'
    BY <1>1, <1>5 DEF Find, Types, SpecTypeOK, AtMost
  <2>2. MainKeeps'
    BY <1>1, <1>5 DEF Find, MainKeeps, AtMost
  <2> QED  BY <1>2, <1>3, <2>1, <2>2 DEF IInv
<1> QED  BY <1>4, <1>5 DEF Start

LEMMA TopInv == IInv /\ Top => IInv'
<1> SUFFICES ASSUME IInv, Top PROVE IInv'
  OBVIOUS
<1>1. /\ Types /\ pc = "top" /\ status = "s" /\ best \in feasible /\ best \in Vector
      /\ \A v \in feasible : v \in Vector
      /\ max_index \in Nat /\ max_index < N
      /\ pc' = IF skip THEN "check" ELSE "pareto"
      /\ local' = main /\ local_index' = max_index
      /\ UNCHANGED <<feasible, status, best, incr, pareto, max_index, skip, main>>
  BY HeldVector DEF IInv, Control, Types, Top
<1>2. Types' /\ Control' /\ MainKeeps'
  <2>1. Types'
    BY <1>1 DEF Types, SpecTypeOK
  <2>2. Control'
    BY <1>1 DEF IInv, Control
  <2>3. MainKeeps'
    BY <1>1 DEF IInv, MainKeeps
  <2> QED  BY <2>1, <2>2, <2>3
<1>3. LocalKeeps'
  <2> SUFFICES ASSUME NEW v \in feasible, \A j \in Obj : v[j] <= best[j]
               PROVE  v \in main
    BY <1>1 DEF LocalKeeps, Below
  <2>1. ASSUME NEW j \in Obj PROVE v[j] <= Maximum(best, 0)
    <3>1. v[j] \in Int /\ best[j] \in Int /\ Maximum(best, 0) \in Int
      BY <1>1, MaximumDef, SizeAssumption DEF Vector, Value
    <3> QED  BY <1>1, <3>1, FirstMaximum
  <2> QED  BY <1>1, <2>1 DEF IInv, MainKeeps
<1>4. IndexKept'
  BY <1>1 DEF IInv, IndexKept, NoneLower
<1>5. SearchKept'
  BY <1>1 DEF IInv, IndexKept, NoneLower, SearchKept, NoneBelow
<1>6. ParetoKept'
  BY <1>1 DEF IInv, ParetoKept, NoneBelow, Below
<1> QED  BY <1>2, <1>3, <1>4, <1>5, <1>6 DEF IInv

(***************************************************************************)
(* A model of the clauses of pareto_search, and what follows if there is   *)
(* none.                                                                   *)
(***************************************************************************)
LEMMA SearchProper ==
  ASSUME IInv, pc = "pareto", NEW v \in feasible, Below(v),
         Keep(v, best, local_index), Lower(v, best, local_index)
  PROVE  Proper(best, local_index)
<1>1. best \in Vector /\ v \in Vector /\ local_index \in 0 .. N
  BY HeldVector DEF IInv, Types
<1>2. \A n \in 0 .. local_index-1 : ~ (Keep(v, best, n) /\ Lower(v, best, n))
  BY DEF IInv, SearchKept, NoneBelow
<1> QED  BY <1>1, <1>2, ProperKept

LEMMA SearchModel ==
  ASSUME IInv, pc = "pareto", NEW w \in ParetoModels
  PROVE  /\ w \in feasible /\ w \in Vector /\ best \in Vector /\ local_index \in Obj
         /\ Keep(w, best, local_index) /\ Lower(w, best, local_index)
         /\ Below(w) /\ Better(w, best) /\ Proper(best, local_index)
<1>1. w \in feasible /\ w \in Vector /\ best \in Vector /\ local_index \in Obj
  BY HeldVector, NAssumption DEF ParetoModels, IInv, Types, Control, Obj
<1>2. Keep(w, best, local_index) /\ Lower(w, best, local_index)
  BY HeldClauses DEF ParetoModels
<1>3. Below(w) /\ Better(w, best)
  BY <1>1, <1>2, ModelBelow DEF ParetoModels, BoundObjs, Below
<1> QED  BY <1>1, <1>2, <1>3, SearchProper

LEMMA NoModel ==
  ASSUME IInv, pc = "pareto", ParetoModels = {}
  PROVE  NoneBelow(local_index)
<1> SUFFICES ASSUME NEW v \in feasible, Below(v),
                    Keep(v, best, local_index), Lower(v, best, local_index)
             PROVE  FALSE
  BY DEF NoneBelow
<1>1. best \in Vector /\ local_index \in 0 .. N /\ Proper(best, local_index)
  BY HeldVector, SearchProper DEF IInv, Types
<1>2. \A m \in 0 .. local_index : Keep(v, best, m)
  BY <1>1, ProperFix DEF Keep
<1>3. v \in local
  BY <1>2 DEF IInv, LocalKeeps
<1>4. FixPrevious(v, local_index) /\ Decrease(v, local_index) /\ BoundObjs(v, local_index)
  BY HeldClauses DEF BoundObjs, Below
<1> QED  BY <1>3, <1>4 DEF ParetoModels

LEMMA ParetoSatInv == IInv /\ ParetoSat => IInv'
<1> SUFFICES ASSUME IInv, ParetoSat PROVE IInv'
  OBVIOUS
<1>1. PICK w \in ParetoModels : best' = BestOf(w, best)
  BY DEF ParetoSat
<1>2. /\ Types /\ pc = "pareto" /\ status = "s" /\ best \in feasible
      /\ \A v \in feasible : v \in Vector
      /\ local' = Added /\ ~ skip
      /\ UNCHANGED <<feasible, status, incr, pareto, pc, max_index, local_index, skip, main>>
  BY HeldVector DEF ParetoSat, IInv, Control
<1>3. /\ w \in feasible /\ w \in Vector /\ best \in Vector /\ local_index \in Obj
      /\ Keep(w, best, local_index) /\ Lower(w, best, local_index)
      /\ Below(w) /\ Proper(best, local_index) /\ best' = w
  BY <1>1, <1>2, SearchModel DEF BestOf
<1>4. /\ local_index \in 0 .. N /\ max_index \in 0 .. N /\ max_index <= local_index
  BY <1>2 DEF IInv, Types, Control
<1>5. \A j \in Obj : w[j] \in Int /\ best[j] \in Int
  BY <1>3, SizeAssumption DEF Vector, Value
<1>6. ASSUME NEW v \in feasible, \A j \in Obj : v[j] <= w[j]
      PROVE  Below(v)
  <2>1. ASSUME NEW j \in Obj PROVE v[j] <= best[j]
    <3>1. v[j] \in Int
      BY <1>2, SizeAssumption DEF Vector, Value
    <3> QED  BY <1>3, <1>5, <1>6, <3>1 DEF Below
  <2> QED  BY <2>1 DEF Below
<1>7. \A v, n : n \in 0 .. local_index =>
        /\ Keep(v, w, n) <=> Keep(v, best, n)
        /\ n < local_index => (Lower(v, w, n) <=> Lower(v, best, n))
  BY <1>3, <1>4, SameClauses
<1>8. Added \subseteq local
  BY DEF Added
<1>9. Types' /\ Control'
  BY <1>2, <1>3, <1>8 DEF IInv, Types, SpecTypeOK, Control
<1>10. MainKeeps'
  <2> SUFFICES ASSUME NEW v \in feasible, \A j \in Obj : v[j] <= Maximum(w, 0)
               PROVE  v \in main
    BY <1>2, <1>3 DEF MainKeeps
  <2>1. Maximum(w, 0) <= Maximum(best, 0)
    BY <1>3, MaximumMonotone DEF Below
  <2>2. \A j \in Obj : v[j] <= Maximum(best, 0)
    BY <1>2, <1>3, <2>1, BelowNew
  <2> QED  BY <1>2, <2>2 DEF IInv, MainKeeps
<1>11. LocalKeeps'
  <2> SUFFICES ASSUME NEW v \in feasible, \A j \in Obj : v[j] <= w[j],
                      \A m \in 0 .. local_index : Keep(v, w, m)
               PROVE  v \in Added
    BY <1>2, <1>3 DEF LocalKeeps, Below
  <2>1. Below(v) /\ \A m \in 0 .. local_index : Keep(v, best, m)
    BY <1>6, <1>7
  <2>2. v \in local
    BY <1>2, <2>1 DEF IInv, LocalKeeps
  <2>3. Keep(v, best, local_index)
    BY <1>3, <2>1, NAssumption DEF Obj
  <2>4. Lower(v, best, local_index)
    <3>1. ASSUME NEW j \in Obj \ Fix(best, local_index)
          PROVE  v[j] < Maximum(best, local_index)
      <4>1. w[j] < Maximum(best, local_index)
        BY <1>3 DEF Lower
      <4>2. v[j] \in Int /\ w[j] \in Int /\ Maximum(best, local_index) \in Int
        BY <1>2, <1>3, Objectives, MaximumDef, SizeAssumption DEF Vector, Value
      <4> QED  BY <4>1, <4>2
    <3> QED  BY <3>1 DEF Lower
  <2>5. FixPrevious(v, local_index) /\ Decrease(v, local_index) /\ BoundObjs(v, local_index)
    BY <2>1, <2>3, <2>4, HeldClauses DEF BoundObjs, Below
  <2> QED  BY <2>2, <2>5 DEF Added
<1>12. IndexKept'
  <2> SUFFICES ASSUME NEW m \in 0 .. max_index-1, NEW v \in feasible,
                      Keep(v, w, m), Lower(v, w, m)
               PROVE  FALSE
    BY <1>2, <1>3 DEF IndexKept, NoneLower
  <2>1. m \in 0 .. local_index /\ m < local_index
    BY <1>4
  <2>2. Keep(v, best, m) /\ Lower(v, best, m)
    BY <1>7, <2>1
  <2> QED  BY <2>2 DEF IInv, IndexKept, NoneLower
<1>13. SearchKept'
  <2> SUFFICES ASSUME NEW m \in 0 .. local_index-1, NEW v \in feasible,
                      \A j \in Obj : v[j] <= w[j], Keep(v, w, m), Lower(v, w, m)
               PROVE  FALSE
    BY <1>2, <1>3 DEF SearchKept, NoneBelow, Below
  <2>1. m \in 0 .. local_index /\ m < local_index
    BY <1>4
  <2>2. Keep(v, best, m) /\ Lower(v, best, m) /\ Below(v)
    BY <1>6, <1>7, <2>1
  <2> QED  BY <1>2, <2>2 DEF IInv, SearchKept, NoneBelow
<1>14. ParetoKept'
  BY <1>2 DEF ParetoKept
<1> QED  BY <1>9, <1>10, <1>11, <1>12, <1>13, <1>14 DEF IInv

(***************************************************************************)
(* Steps that leave the solution held alone.  max_index may move on where  *)
(* no solution decreases its maximum.                                      *)
(***************************************************************************)
LEMMA IndexGrows ==
  ASSUME IInv, UNCHANGED <<feasible, best>>,
         \/ max_index' = max_index
         \/ max_index' = max_index + 1 /\ NoneLower(max_index)
  PROVE  IndexKept'
<1> SUFFICES ASSUME NEW m \in 0 .. max_index'-1 PROVE NoneLower(m)
  BY DEF IndexKept, NoneLower
<1>1. max_index \in Nat
  BY NAssumption DEF IInv, Types
<1>2. CASE m \in 0 .. max_index-1
  BY <1>2 DEF IInv, IndexKept
<1>3. CASE m \notin 0 .. max_index-1
  <2>1. m = max_index /\ max_index' # max_index
    BY <1>1, <1>3
  <2> QED  BY <2>1
<1> QED  BY <1>2, <1>3

LEMMA SameSolution ==
  ASSUME IInv, pc \in {"pareto", "check"}, pc' \in {"pareto", "check", "done"},
         UNCHANGED <<feasible, status, best, incr, pareto, skip, main>>,
         \/ max_index' = max_index
         \/ max_index' = max_index + 1 /\ NoneLower(max_index) /\ max_index < N,
         local' \subseteq feasible, local_index' \in 0 .. N,
         pc' = "pareto" => max_index' <= local_index' /\ local_index' < N /\ ~ skip,
         LocalKeeps', SearchKept', ParetoKept'
  PROVE  IInv'
<1>1. max_index \in Nat /\ max_index' \in 0 .. N
  BY NAssumption DEF IInv, Types
<1>2. Types'
  BY <1>1 DEF IInv, Types, SpecTypeOK
<1>3. Control'
  BY DEF IInv, Control
<1>4. MainKeeps'
  BY DEF IInv, MainKeeps
<1>5. IndexKept'
  BY IndexGrows
<1> QED  BY <1>2, <1>3, <1>4, <1>5 DEF IInv

LEMMA ParetoZeroInv == IInv /\ ParetoZero => IInv'
<1> SUFFICES ASSUME IInv, ParetoZero PROVE IInv'
  OBVIOUS
<1>1. /\ pc = "pareto" /\ Level = 0 /\ pc' = "check" /\ local' = {}
      /\ UNCHANGED <<feasible, status, best, incr, pareto, max_index, local_index, skip, main>>
  BY DEF ParetoZero
<1>2. /\ best \in Vector /\ local_index \in Nat /\ local_index' \in 0 .. N
      /\ \A v \in feasible : v \in Vector
  BY <1>1, HeldVector DEF IInv, Types
<1>3. ASSUME NEW m \in Obj PROVE NoneBelow(m)
  <2>0. m \in Nat
    BY Objectives
  <2>1. CASE m < local_index
    BY <1>1, <2>0, <2>1, <1>2 DEF IInv, SearchKept
  <2>2. CASE ~ (m < local_index)
    <3>1. Maximum(best, m) <= Maximum(best, local_index)
      BY <1>2, <2>0, <2>2, MaximumDescends
    <3>2. Maximum(best, m) = 0
      BY <1>1, <1>2, <2>0, <3>1, MaximumDef, SizeAssumption DEF Level, Value
    <3> QED  BY <1>2, <3>2, NothingLower DEF NoneBelow
  <2> QED  BY <2>1, <2>2
<1>4. LocalKeeps' /\ SearchKept'
  BY <1>1 DEF LocalKeeps, SearchKept
<1>5. ParetoKept'
  BY <1>1, <1>3 DEF ParetoKept, NoneBelow, Below
<1> QED  BY <1>1, <1>2, <1>4, <1>5, SameSolution

(* The shortcut on neighbouring values moves max_index on rightly.         *)
LEMMA ShortcutNone ==
  ASSUME IInv, ParetoUnsat, max_index' # max_index
  PROVE  NoneLower(max_index)
<1>1. /\ pc = "pareto" /\ ParetoModels = {} /\ max_index = local_index
      /\ Level - Maximum(best, N-1) <= 1
  BY DEF ParetoUnsat
<1>2. /\ best \in Vector /\ \A v \in feasible : v \in Vector
      /\ local_index \in Obj
  BY <1>1, HeldVector, NAssumption DEF IInv, Control, Obj
<1>3. ASSUME NEW v \in feasible, Keep(v, best, max_index), Lower(v, best, max_index)
      PROVE  FALSE
  <2>1. Below(v)
    BY <1>1, <1>2, <1>3, NeighboursBelow DEF Level, Below
  <2> QED  BY <1>1, <1>3, <2>1, NoModel DEF NoneBelow
<1> QED  BY <1>3 DEF NoneLower

LEMMA ParetoUnsatInv == IInv /\ ParetoUnsat => IInv'
<1> SUFFICES ASSUME IInv, ParetoUnsat PROVE IInv'
  OBVIOUS
<1>1. /\ pc = "pareto" /\ ParetoModels = {} /\ ~ skip
      /\ UNCHANGED <<feasible, status, best, incr, pareto, skip, main>>
      /\ local_index' = IF pareto THEN local_index + 1 ELSE local_index
      /\ pc' = IF pareto /\ local_index' < N THEN "pareto" ELSE "check"
      /\ local' = IF pc' = "pareto" THEN Added ELSE {}
  BY DEF ParetoUnsat, IInv, Control
<1>2. /\ max_index \in Nat /\ local_index \in Nat /\ max_index <= local_index
      /\ local_index < N /\ N \in Nat
  BY <1>1, HeldVector, NAssumption DEF IInv, Control
<1>3. \/ max_index' = max_index
      \/ max_index' = max_index + 1 /\ NoneLower(max_index) /\ max_index < N
  <2>1. max_index' \in {max_index, max_index + 1}
    BY DEF ParetoUnsat
  <2> QED  BY <1>2, <2>1, ShortcutNone
<1>4. local' \subseteq feasible /\ local_index' \in 0 .. N
  <2>1. Added \subseteq feasible
    BY DEF Added, IInv, Types
  <2> QED  BY <1>1, <1>2, <2>1
<1>5. pc' = "pareto" => max_index' <= local_index' /\ local_index' < N /\ ~ skip
  BY <1>1, <1>2, <1>3
<1>6. ASSUME NEW m \in 0 .. local_index PROVE NoneBelow(m)
  <2>1. CASE m = local_index
    BY <1>1, <2>1, NoModel
  <2>2. CASE m # local_index
    <3>1. m \in 0 .. local_index-1
      BY <1>2, <2>2
    <3> QED  BY <1>1, <3>1 DEF IInv, SearchKept
  <2> QED  BY <2>1, <2>2
<1>7. LocalKeeps'
  <2> SUFFICES ASSUME pc' = "pareto", NEW v \in feasible, \A j \in Obj : v[j] <= best[j],
                      \A m \in 0 .. local_index' : Keep(v, best, m)
               PROVE  v \in Added
    BY <1>1 DEF LocalKeeps, Below
  <2>1. pareto /\ local_index' = local_index + 1
    BY <1>1
  <2>2. \A m \in 0 .. local_index : Keep(v, best, m)
    BY <1>2, <2>1
  <2>3. v \in local
    BY <1>1, <2>2 DEF IInv, LocalKeeps, Below
  <2>4. Keep(v, best, local_index)
    BY <1>2, <2>2
  <2>5. FixPrevious(v, local_index) /\ BoundObjs(v, local_index)
    BY <2>4, HeldClauses DEF BoundObjs
  <2> QED  BY <2>1, <2>3, <2>5 DEF Added
<1>8. SearchKept'
  <2> SUFFICES ASSUME pc' = "pareto", NEW m \in 0 .. local_index'-1 PROVE NoneBelow(m)
    BY <1>1 DEF SearchKept, NoneBelow, Below
  <2>1. m \in 0 .. local_index
    BY <1>1, <1>2
  <2> QED  BY <1>6, <2>1
<1>9. ParetoKept'
  <2> SUFFICES ASSUME pc' = "check", pareto, NEW m \in Obj PROVE NoneBelow(m)
    BY <1>1 DEF ParetoKept, NoneBelow, Below
  <2>1. local_index' = local_index + 1 /\ ~ (local_index' < N)
    BY <1>1
  <2>2. m \in 0 .. local_index
    BY <1>2, <2>1 DEF Obj
  <2> QED  BY <1>6, <2>2
<1> QED  BY <1>1, <1>3, <1>4, <1>5, <1>7, <1>8, <1>9, SameSolution

LEMMA StopInv == IInv /\ (Stop \/ Interrupt) => IInv'
<1> SUFFICES ASSUME IInv, Stop \/ Interrupt PROVE IInv'
  OBVIOUS
<1>1. /\ pc \in {"pareto", "check"} /\ pc' = "done"
      /\ UNCHANGED <<feasible, status, best, incr, pareto, max_index, local_index, skip, main,
                     local>>
  BY DEF Stop, Interrupt
<1>2. local' \subseteq feasible /\ local_index' \in 0 .. N
  BY <1>1 DEF IInv, Types
<1>3. LocalKeeps' /\ SearchKept'
  BY <1>1 DEF LocalKeeps, SearchKept
<1>4. ParetoKept'
  BY <1>1 DEF IInv, ParetoKept, NoneBelow, Below
<1> QED  BY <1>1, <1>2, <1>3, <1>4, SameSolution

(* The clauses of encode_ub_sorted.                                        *)
LEMMA CappedKeeps ==
  ASSUME IInv, pc = "check"
  PROVE  /\ Capped \subseteq feasible
         /\ \A v \in feasible : (\A j \in Obj : v[j] <= Maximum(best, 0)) => v \in Capped
BY DEF IInv, Types, Control, MainKeeps, Capped, AtMost

LEMMA CheckSatInv == IInv /\ CheckSat => IInv'
<1> SUFFICES ASSUME IInv, CheckSat PROVE IInv'
  OBVIOUS
<1>1. PICK w \in CheckModels : best' = BestOf(w, best)
  BY DEF CheckSat
<1>2. /\ Types /\ pc = "check" /\ pc' = "top" /\ status = "s" /\ best \in feasible
      /\ best \in Vector /\ \A v \in feasible : v \in Vector
      /\ main' = Capped /\ skip' = FALSE
      /\ UNCHANGED <<feasible, status, incr, pareto, max_index, local_index, local>>
  BY HeldVector DEF CheckSat, IInv
<1>3. /\ w \in feasible /\ w \in Vector /\ Capped \subseteq feasible
      /\ Keep(w, best, max_index) /\ Lower(w, best, max_index)
  BY <1>2, CappedKeeps, HeldClauses DEF CheckModels
<1>4. best' \in feasible /\ best' \in Vector
  BY <1>1, <1>2, <1>3 DEF BestOf
<1>5. max_index \in 0 .. N /\ max_index < N
  BY <1>2, NAssumption DEF IInv, Types, CheckSat, Exhausted
<1>6. Types'
  BY <1>2, <1>3, <1>4 DEF Types, SpecTypeOK
<1>7. Control'
  BY <1>2, <1>4, <1>5 DEF Control
<1>8. MainKeeps'
  <2> SUFFICES ASSUME NEW v \in feasible, \A j \in Obj : v[j] <= Maximum(best', 0)
               PROVE  v \in Capped
    BY <1>2 DEF MainKeeps
  <2>1. Maximum(best', 0) <= Maximum(best, 0)
    BY <1>1, <1>2, <1>3, HeldFirst
  <2>2. \A j \in Obj : v[j] <= Maximum(best, 0)
    BY <1>2, <1>4, <2>1, BelowNew
  <2> QED  BY <1>2, <2>2, CappedKeeps
<1>9. LocalKeeps' /\ SearchKept' /\ ParetoKept'
  BY <1>2 DEF LocalKeeps, SearchKept, ParetoKept
<1>10. IndexKept'
  <2>1. CASE best' = best
    BY <1>2, <2>1 DEF IInv, IndexKept, NoneLower
  <2>2. CASE best' = w
    <3> SUFFICES ASSUME NEW m \in 0 .. max_index-1, NEW v \in feasible,
                        Keep(v, w, m), Lower(v, w, m)
                 PROVE  FALSE
      BY <1>2, <2>2 DEF IndexKept, NoneLower
    <3>1. \A n \in 0 .. max_index-1 : ~ (Keep(w, best, n) /\ Lower(w, best, n))
      BY <1>3 DEF IInv, IndexKept, NoneLower
    <3>2. Proper(best, max_index)
      BY <1>2, <1>3, <1>5, <3>1, ProperKept
    <3>3. m \in 0 .. max_index /\ m < max_index
      BY <1>5
    <3>4. Keep(v, best, m) /\ Lower(v, best, m)
      BY <1>2, <1>3, <1>5, <3>2, <3>3, SameClauses
    <3> QED  BY <3>4 DEF IInv, IndexKept, NoneLower
  <2> QED  BY <1>1, <2>1, <2>2 DEF BestOf
<1> QED  BY <1>6, <1>7, <1>8, <1>9, <1>10 DEF IInv

(* No model of the clauses of gia: no solution decreases the maximum.      *)
LEMMA CheckNone ==
  ASSUME IInv, CheckUnsat
  PROVE  NoneLower(max_index)
<1> SUFFICES ASSUME NEW v \in feasible, Keep(v, best, max_index), Lower(v, best, max_index)
             PROVE  FALSE
  BY DEF NoneLower
<1>1. /\ pc = "check" /\ CheckModels = {} /\ best \in Vector /\ v \in Vector
      /\ max_index \in Nat
  BY HeldVector DEF CheckUnsat
<1>2. ASSUME NEW j \in Obj PROVE v[j] <= Maximum(best, 0)
  <2>1. /\ Maximum(best, max_index) <= Maximum(best, 0) /\ best[j] <= Maximum(best, 0)
        /\ Maximum(best, max_index) \in Value /\ Maximum(best, 0) \in Value
    BY <1>1, MaximumDescends, MaximumDef, FirstMaximum
  <2>2. v[j] = best[j] \/ v[j] < Maximum(best, max_index)
    BY DEF Keep, Lower
  <2>3. /\ v[j] \in Int /\ best[j] \in Int
        /\ Maximum(best, max_index) \in Int /\ Maximum(best, 0) \in Int
    BY <1>1, <2>1, SizeAssumption DEF Vector, Value
  <2> QED  BY <2>1, <2>2, <2>3
<1>3. v \in Capped
  BY <1>1, <1>2, CappedKeeps
<1>4. FixPrevious(v, max_index) /\ Decrease(v, max_index)
  BY HeldClauses
<1> QED  BY <1>1, <1>3, <1>4 DEF CheckModels

LEMMA CheckUnsatInv == IInv /\ CheckUnsat => IInv'
<1> SUFFICES ASSUME IInv, CheckUnsat PROVE IInv'
  OBVIOUS
<1>1. /\ Types /\ pc = "check" /\ status = "s" /\ best \in feasible
      /\ main' = Capped /\ skip' = pareto /\ max_index' = max_index + 1
      /\ pc' = IF max_index' = N THEN "done" ELSE "top"
      /\ UNCHANGED <<feasible, status, best, incr, pareto, local_index, local>>
  BY HeldVector DEF CheckUnsat, IInv
<1>2. max_index \in Nat /\ max_index < N /\ max_index' \in 0 .. N
  <2>1. max_index \in 0 .. N /\ max_index # N
    BY DEF IInv, Types, CheckUnsat, Exhausted
  <2> QED  BY <1>1, <2>1, NAssumption
<1>3. Types'
  BY <1>1, <1>2, CappedKeeps DEF Types, SpecTypeOK
<1>4. Control'
  BY <1>1, <1>2, NAssumption DEF Control
<1>5. MainKeeps'
  BY <1>1, CappedKeeps DEF MainKeeps
<1>6. LocalKeeps' /\ SearchKept'
  BY <1>1 DEF LocalKeeps, SearchKept
<1>7. ParetoKept'
  BY <1>1 DEF IInv, ParetoKept, NoneBelow, Below
<1>8. IndexKept'
  BY <1>1, CheckNone, IndexGrows
<1> QED  BY <1>3, <1>4, <1>5, <1>6, <1>7, <1>8 DEF IInv

(***************************************************************************)
(* The inductive invariant of gia, with the timeout at any call.           *)
(***************************************************************************)
THEOREM GiaInvariance == Spec => []IInv
<1>1. IInv /\ [Next]_gvars => IInv'
  <2> SUFFICES ASSUME IInv, [Next]_gvars PROVE IInv'
    OBVIOUS
  <2>1. CASE Next
    BY <2>1, StartInv, TopInv, ParetoZeroInv, ParetoSatInv, ParetoUnsatInv, StopInv,
       CheckSatInv, CheckUnsatInv DEF Next, Advance
  <2>2. CASE UNCHANGED gvars
    <3>1. Types' /\ Control'
      BY <2>2 DEF gvars, IInv, Types, SpecTypeOK, Control
    <3>2. MainKeeps' /\ LocalKeeps'
      BY <2>2 DEF gvars, IInv, MainKeeps, LocalKeeps, Below
    <3>3. IndexKept' /\ SearchKept' /\ ParetoKept'
      BY <2>2 DEF gvars, IInv, IndexKept, SearchKept, ParetoKept, NoneLower, NoneBelow, Below
    <3> QED  BY <3>1, <3>2, <3>3 DEF IInv
  <2> QED  BY <2>1, <2>2
<1> QED  BY InitInv, <1>1, PTL DEF Spec

(***************************************************************************)
(* When gia has left the first maximum, no solution has a smaller one.     *)
(***************************************************************************)
THEOREM FirstMaximumCorrect == Spec => []FirstMaximumMinimal
<1>1. IInv => FirstMaximumMinimal
  <2> SUFFICES ASSUME IInv, max_index > 0, NEW v \in feasible, Maximum(v, 0) < Maximum(best, 0)
               PROVE  FALSE
    <3>1. IInv /\ max_index > 0 => best \in Vector /\ \A u \in feasible : u \in Vector
      BY DEF IInv, Types, Control, SpecTypeOK
    <3>2. \A u \in Vector : Maximum(u, 0) \in Int
      BY MaximumDef, SizeAssumption DEF Value
    <3> QED  BY <3>1, <3>2 DEF FirstMaximumMinimal
  <2>1. v \in Vector /\ best \in Vector /\ max_index \in 0 .. N
    BY DEF IInv, Types, Control, SpecTypeOK
  <2>2. NoneLower(0)
    BY <2>1 DEF IInv, IndexKept
  <2>3. ASSUME NEW j \in Obj PROVE v[j] < Maximum(best, 0)
    <3>1. v[j] \in Int /\ Maximum(v, 0) \in Int /\ Maximum(best, 0) \in Int
      BY <2>1, MaximumDef, SizeAssumption DEF Vector, Value
    <3> QED  BY <2>1, <3>1, FirstMaximum
  <2>4. Keep(v, best, 0) /\ Lower(v, best, 0)
    BY <2>3, NothingFixed DEF Keep, Lower
  <2> QED  BY <2>2, <2>4 DEF NoneLower
<1> QED  BY <1>1, GiaInvariance, PTL

(***************************************************************************)
(* Whichever step moves max_index on - the answer to the question of gia,  *)
(* or the shortcut of pareto_search - no solution of the problem decreases *)
(* the maximum left while the objectives fixed keep their values.          *)
(***************************************************************************)
THEOREM IndexCorrect == Spec => IndexJustified
<1>1. IInv /\ [Next]_gvars => [max_index' # max_index => ~ Decreasable(max_index)]_gvars
  <2> SUFFICES ASSUME IInv, Next, max_index' # max_index PROVE ~ Decreasable(max_index)
    OBVIOUS
  <2>1. CASE ParetoUnsat
    BY <2>1, ShortcutNone, HeldClauses DEF NoneLower, Decreasable
  <2>2. CASE CheckUnsat
    BY <2>2, CheckNone, HeldClauses DEF NoneLower, Decreasable
  <2>3. CASE Start \/ Top \/ ParetoZero \/ ParetoSat \/ Stop \/ CheckSat \/ Interrupt
    BY <2>3 DEF Start, Top, ParetoZero, ParetoSat, Stop, CheckSat, Interrupt
  <2> QED  BY <2>1, <2>2, <2>3 DEF Next, Advance
<1> QED  BY <1>1, GiaInvariance, PTL DEF Spec, IndexJustified

(***************************************************************************)
(* The maxima before max_index stay justified: better solutions found for  *)
(* the later ones, at any point of the run and after any timeout, do not   *)
(* make it possible to decrease an earlier one again.                      *)
(***************************************************************************)
IndicesJustified == \A m \in 0 .. max_index-1 : ~ Decreasable(m)

THEOREM IndicesStayJustified == Spec => []IndicesJustified
<1>1. IInv => IndicesJustified
  BY HeldClauses DEF IInv, IndexKept, NoneLower, IndicesJustified, Decreasable
<1> QED  BY <1>1, GiaInvariance, PTL

(***************************************************************************)
(* With m_gia_pareto, a completed pareto_search leaves a Pareto-optimal    *)
(* solution if no two of its objectives have the same positive value.      *)
(***************************************************************************)
THEOREM ParetoCorrect == Spec => []ParetoIfDistinct
<1>1. IInv => ParetoIfDistinct
  <2> SUFFICES ASSUME IInv, pc = "check", pareto,
                      \A j, k \in Obj : j # k /\ best[j] > 0 => best[j] # best[k],
                      NEW u \in feasible, Dominates(u, best)
               PROVE  FALSE
    BY HeldVector DEF ParetoIfDistinct, ParetoOptimal
  <2>1. best \in Vector /\ u \in Vector
    BY HeldVector
  <2>2. u # best /\ Below(u)
    BY DEF Dominates, Below
  <2>3. PICK m \in Obj : Keep(u, best, m) /\ Lower(u, best, m)
    BY <2>1, <2>2, DominatingLowers DEF Below
  <2> QED  BY <2>2, <2>3 DEF IInv, ParetoKept, NoneBelow
<1> QED  BY <1>1, GiaInvariance, PTL

(***************************************************************************)
(* Every answer of a SAT solver is an improvement: gia goes on only with a *)
(* solution that is better than the one held, and so returns to none.      *)
(***************************************************************************)
THEOREM AnswersImprove == Spec => [][ParetoSat \/ CheckSat => Better(best', best)]_gvars
<1>1. IInv /\ [Next]_gvars => [ParetoSat \/ CheckSat => Better(best', best)]_gvars
  <2> SUFFICES ASSUME IInv, ParetoSat \/ CheckSat PROVE Better(best', best)
    OBVIOUS
  <2>1. CASE ParetoSat
    <3>1. pc = "pareto" /\ \E w \in ParetoModels : best' = BestOf(w, best)
      BY <2>1 DEF ParetoSat
    <3> QED  BY <3>1, SearchModel DEF BestOf
  <2>2. CASE CheckSat
    <3>1. PICK w \in CheckModels : best' = BestOf(w, best)
      BY <2>2 DEF CheckSat
    <3>2. pc = "check" /\ max_index \in 0 .. N /\ max_index # N
      BY <2>2 DEF CheckSat, Exhausted, IInv, Types
    <3>3. /\ w \in feasible /\ best \in Vector /\ w \in Vector
          /\ Keep(w, best, max_index) /\ Lower(w, best, max_index)
      BY <3>2, HeldVector, CappedKeeps, HeldClauses DEF CheckModels
    <3>4. Proper(best, max_index)
      <4>1. \A n \in 0 .. max_index-1 : ~ (Keep(w, best, n) /\ Lower(w, best, n))
        BY <3>3 DEF IInv, IndexKept, NoneLower
      <4> QED  BY <3>2, <3>3, <4>1, ProperKept
    <3>5. max_index \in Obj
      BY <3>2, NAssumption DEF Obj
    <3>6. SameMaxima(w, best, max_index)
      <4>1. ASSUME NEW n \in 0 .. max_index-1 PROVE Maximum(w, n) = Maximum(best, n)
        <5>1. n \in 0 .. max_index /\ n < max_index
          BY <3>2
        <5> QED  BY <3>2, <3>3, <3>4, <5>1, SameFix
      <4> QED  BY <4>1 DEF SameMaxima
    <3>7. Maximum(w, max_index) < Maximum(best, max_index)
      BY <3>3, <3>5, LoweredMaximum
    <3> QED  BY <3>1, <3>5, <3>6, <3>7 DEF Better, BestOf
  <2> QED  BY <2>1, <2>2
<1> QED  BY <1>1, GiaInvariance, PTL DEF Spec

(***************************************************************************)
(* gia holds a solution that only gets better: every call that finds one   *)
(* is an improvement in the abstract specification, or nothing.            *)
(***************************************************************************)
THEOREM GiaRefinement == Spec => Implements
<1>1. Init => SpecInit
  BY DEF Init
<1>2. IInv /\ [Next]_gvars => [SpecNext]_svars
  <2> SUFFICES ASSUME IInv, [Next]_gvars PROVE [SpecNext]_svars
    OBVIOUS
  <2>1. CASE Start
    BY <2>1 DEF Start, SpecNext
  <2>2. CASE ParetoSat \/ CheckSat
    <3>1. PICK w \in feasible : best' = BestOf(w, best)
      BY <2>2 DEF ParetoSat, CheckSat, ParetoModels, CheckModels, Capped, AtMost, IInv, Types
    <3>2. status = "s" /\ UNCHANGED <<feasible, status>>
      BY <2>2 DEF ParetoSat, CheckSat, IInv, Control
    <3>3. best' = best \/ Improve
      BY <3>1, <3>2 DEF BestOf, Improve
    <3> QED  BY <3>2, <3>3 DEF SpecNext, svars
  <2>3. CASE Top \/ ParetoZero \/ ParetoUnsat \/ Stop \/ CheckUnsat \/ Interrupt \/ UNCHANGED gvars
    BY <2>3 DEF Top, ParetoZero, ParetoUnsat, Stop, CheckUnsat, Interrupt, gvars, svars
  <2> QED  BY <2>1, <2>2, <2>3 DEF Next, Advance
<1>3. Spec => AbstractSpec
  BY <1>1, <1>2, GiaInvariance, PTL DEF Spec, AbstractSpec
<1> QED  BY <1>3 DEF Implements
=============================================================================
