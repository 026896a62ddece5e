--------------------------- MODULE LeximaxProofs ---------------------------
(***************************************************************************)
(* Facts about the maxima of objective vectors, for every number of        *)
(* objectives and every size.                                              *)
(***************************************************************************)
EXTENDS Leximax, FiniteSetTheorems, WellFoundedInduction, TLAPS

(* A set of naturals that is not empty has a least element.                *)
LEMMA LeastElement ==
  ASSUME NEW S, S \subseteq Nat, S # {}
  PROVE  \E m \in S : \A n \in S : m <= n
<1>1. PICK m \in S : \A n \in S : ~ (<<n, m>> \in OpToRel(<, Nat))
  BY NatLessThanWellFounded, WFMin
<1>2. ASSUME NEW n \in S, n < m PROVE <<n, m>> \in OpToRel(<, Nat)
  BY <1>2 DEF OpToRel
<1>3. \A n \in S : ~ (n < m)
  BY <1>1, <1>2
<1> QED  BY <1>3

(* A set of values that is not empty has a greatest element.               *)
LEMMA GreatestElement ==
  ASSUME NEW S, S \subseteq Value, S # {}
  PROVE  \E a \in S : \A b \in S : b <= a
<1> DEFINE T == {Size - s : s \in S}
<1>1. T \subseteq Nat /\ T # {}
  <2>1. \A s \in S : Size - s \in Nat
    BY SizeAssumption DEF Value
  <2> QED  BY <2>1
<1>2. PICK t \in T : \A u \in T : t <= u
  <2> HIDE DEF T
  <2> QED  BY <1>1, LeastElement
<1>3. PICK a \in S : t = Size - a
  OBVIOUS
<1>4. ASSUME NEW b \in S PROVE b <= a
  <2>1. Size - a <= Size - b
    BY <1>2, <1>3
  <2> QED  BY <2>1, SizeAssumption DEF Value
<1> QED  BY <1>4

(* The set of objectives above a value is finite, and shrinks as the value *)
(* grows.                                                                  *)
LEMMA AboveFinite ==
  ASSUME NEW v, NEW k
  PROVE  IsFiniteSet(Above(v, k)) /\ Cardinality(Above(v, k)) \in Nat
<1>1. IsFiniteSet(Obj)
  BY NAssumption, FS_Interval DEF Obj
<1>2. Above(v, k) \in SUBSET Obj
  BY DEF Above
<1> QED  BY <1>1, <1>2, FS_Subset, FS_CardinalityType

LEMMA AboveMonotone ==
  ASSUME NEW v \in Vector, NEW k \in Value, NEW m \in Value, k <= m
  PROVE  Cardinality(Above(v, m)) <= Cardinality(Above(v, k))
<1>1. Above(v, m) \in SUBSET Above(v, k)
  BY SizeAssumption DEF Above, Vector, Value
<1> QED  BY <1>1, AboveFinite, FS_Subset

(* Entry i of the sorted vector is well defined: some value is exceeded by *)
(* at most i objectives, and there is a least one.                         *)
LEMMA MaximumDef ==
  ASSUME NEW v \in Vector, NEW i \in Nat
  PROVE  /\ Maximum(v, i) \in Value
         /\ AtMostAbove(v, i, Maximum(v, i))
         /\ \A m \in Value : AtMostAbove(v, i, m) => Maximum(v, i) <= m
<1> DEFINE S == {k \in Value : AtMostAbove(v, i, k)}
<1>1. Above(v, Size) = {}
  BY SizeAssumption DEF Above, Vector, Value
<1>2. Size \in S
  BY <1>1, FS_EmptySet, SizeAssumption DEF AtMostAbove, Value
<1>3. S \subseteq Nat /\ S # {}
  BY <1>2, SizeAssumption DEF Value
<1>4. \E k \in S : \A m \in S : k <= m
  <2> HIDE DEF S
  <2> QED  BY <1>3, LeastElement
<1>5. \E k \in Value : /\ AtMostAbove(v, i, k)
                      /\ \A m \in Value : AtMostAbove(v, i, m) => k <= m
  BY <1>4
<1> QED  BY <1>5 DEF Maximum

(* The constraint the library encodes says what it is meant to say: all    *)
(* but at most i objectives are <= k exactly if the ith maximum is <= k.   *)
THEOREM EncodingCorrect ==
  ASSUME NEW v \in Vector, NEW i \in Nat, NEW k \in Value
  PROVE  AtMostAbove(v, i, k) <=> Maximum(v, i) <= k
<1>1. ASSUME AtMostAbove(v, i, k) PROVE Maximum(v, i) <= k
  BY <1>1, MaximumDef
<1>2. ASSUME Maximum(v, i) <= k PROVE AtMostAbove(v, i, k)
  <2>1. Maximum(v, i) \in Value /\ Cardinality(Above(v, Maximum(v, i))) <= i
    BY MaximumDef DEF AtMostAbove
  <2>2. Cardinality(Above(v, k)) <= Cardinality(Above(v, Maximum(v, i)))
    BY <1>2, <2>1, AboveMonotone
  <2> QED  BY <2>1, <2>2, AboveFinite DEF AtMostAbove
<1> QED  BY <1>1, <1>2

(* The 0th maximum bounds every objective.                                 *)
LEMMA FirstMaximum ==
  ASSUME NEW v \in Vector, NEW j \in Obj
  PROVE  v[j] <= Maximum(v, 0)
<1>1. Cardinality(Above(v, Maximum(v, 0))) <= 0
  BY MaximumDef DEF AtMostAbove
<1>2. Above(v, Maximum(v, 0)) = {}
  BY <1>1, AboveFinite, FS_EmptySet
<1> QED  BY <1>2, MaximumDef, SizeAssumption DEF Above, Vector, Value

(* set_solution never makes the first maximum larger.                      *)
LEMMA HeldFirst ==
  ASSUME NEW u \in Vector, NEW v \in Vector
  PROVE  Maximum(BestOf(u, v), 0) <= Maximum(v, 0)
<1>1. Maximum(u, 0) \in Int /\ Maximum(v, 0) \in Int
  BY MaximumDef, SizeAssumption DEF Value
<1>2. ASSUME Better(u, v) PROVE Maximum(u, 0) <= Maximum(v, 0)
  <2>1. PICK a \in Obj : SameMaxima(u, v, a) /\ Maximum(u, a) < Maximum(v, a)
    BY <1>2 DEF Better
  <2>2. CASE a = 0
    BY <1>1, <2>1, <2>2
  <2>3. CASE a # 0
    <3>1. 0 \in 0 .. a-1
      BY <2>3, NAssumption DEF Obj
    <3> QED  BY <1>1, <2>1, <3>1 DEF SameMaxima
  <2> QED  BY <2>2, <2>3
<1> QED  BY <1>1, <1>2 DEF BestOf

(* If no maximum of v before the ith is larger than that of w, and each    *)
(* one of w is the least among the vectors that agree with w before it,    *)
(* then v and w agree before the ith.                                      *)
LEMMA PrefixForced ==
  ASSUME NEW v \in Vector, NEW w \in Vector, NEW i \in Nat,
         \A j \in 0 .. i-1 : Maximum(v, j) <= Maximum(w, j),
         \A j \in 0 .. i-1 :
           SameMaxima(v, w, j) => Maximum(w, j) <= Maximum(v, j)
  PROVE  SameMaxima(v, w, i)
<1> DEFINE D == {j \in 0 .. i-1 : Maximum(v, j) # Maximum(w, j)}
<1>1. SUFFICES ASSUME D # {} PROVE FALSE
  BY DEF SameMaxima
<1>2. PICK d \in D : \A j \in D : d <= j
  <2>1. D \subseteq Nat
    OBVIOUS
  <2> HIDE DEF D
  <2> QED  BY <1>1, <2>1, LeastElement
<1>3. SameMaxima(v, w, d)
  BY <1>2 DEF SameMaxima
<1>4. Maximum(v, d) \in Int /\ Maximum(w, d) \in Int
  BY <1>2, MaximumDef, SizeAssumption DEF Value
<1> QED  BY <1>2, <1>3, <1>4

(***************************************************************************)
(* The leximax order is transitive: what is better than a solution that    *)
(* replaced the one held (set_solution) was better than that one too.      *)
(***************************************************************************)
LEMMA BetterTransitive ==
  ASSUME NEW u \in Vector, NEW v \in Vector, NEW w \in Vector, Better(u, v), Better(v, w)
  PROVE  Better(u, w)
<1>1. PICK a \in Obj : SameMaxima(u, v, a) /\ Maximum(u, a) < Maximum(v, a)
  BY DEF Better
<1>2. PICK b \in Obj : SameMaxima(v, w, b) /\ Maximum(v, b) < Maximum(w, b)
  BY DEF Better
<1>3. a \in Nat /\ b \in Nat
  BY NAssumption DEF Obj
<1>4. \A j \in Nat : Maximum(u, j) \in Int /\ Maximum(v, j) \in Int /\ Maximum(w, j) \in Int
  BY MaximumDef, SizeAssumption DEF Value
<1>5. CASE a <= b
  <2>1. SameMaxima(u, w, a)
    BY <1>1, <1>2, <1>3, <1>5 DEF SameMaxima
  <2>2. Maximum(v, a) <= Maximum(w, a)
    BY <1>2, <1>3, <1>4, <1>5 DEF SameMaxima
  <2> QED  BY <1>1, <1>3, <1>4, <2>1, <2>2 DEF Better
<1>6. CASE b < a
  <2>1. SameMaxima(u, w, b)
    BY <1>1, <1>2, <1>3, <1>6 DEF SameMaxima
  <2>2. Maximum(u, b) = Maximum(v, b)
    BY <1>1, <1>3, <1>6 DEF SameMaxima
  <2> QED  BY <1>2, <1>3, <1>4, <2>1, <2>2 DEF Better
<1> QED  BY <1>3, <1>5, <1>6

(***************************************************************************)
(* Counting objectives.                                                    *)
(***************************************************************************)
LEMMA SetsOfObjectives ==
  ASSUME NEW S \in SUBSET Obj
  PROVE  /\ IsFiniteSet(S) /\ Cardinality(S) \in Nat /\ Cardinality(S) <= N
         /\ \A T \in SUBSET S : /\ Cardinality(T) \in Nat
                                /\ Cardinality(T) <= Cardinality(S)
                                /\ Cardinality(T) = Cardinality(S) => T = S
         /\ \A x \in S : Cardinality(S \ {x}) = Cardinality(S) - 1
         /\ Cardinality(S) = 0 <=> S = {}
<1>1. IsFiniteSet(Obj) /\ Cardinality(Obj) = N
  BY NAssumption, FS_Interval DEF Obj
<1>2. IsFiniteSet(S) /\ Cardinality(S) \in Nat /\ Cardinality(S) <= N
  BY <1>1, FS_Subset, FS_CardinalityType
<1>3. ASSUME NEW T \in SUBSET S
      PROVE  /\ Cardinality(T) \in Nat /\ Cardinality(T) <= Cardinality(S)
             /\ Cardinality(T) = Cardinality(S) => T = S
  BY <1>2, FS_Subset, FS_CardinalityType
<1>4. \A x \in S : Cardinality(S \ {x}) = Cardinality(S) - 1
  BY <1>2, FS_RemoveElement
<1>5. Cardinality(S) = 0 <=> S = {}
  BY <1>2, FS_EmptySet
<1> QED  BY <1>2, <1>3, <1>4, <1>5

LEMMA LastObjective ==
  ASSUME NEW S \in SUBSET Obj, S # {}
  PROVE  \E a \in S : \A b \in S : b <= a
<1> DEFINE T == {N - s : s \in S}
<1>1. T \subseteq Nat /\ T # {}
  <2>1. \A s \in S : N - s \in Nat
    BY NAssumption DEF Obj
  <2> QED  BY <2>1
<1>2. PICK t \in T : \A u \in T : t <= u
  <2> HIDE DEF T
  <2> QED  BY <1>1, LeastElement
<1>3. PICK a \in S : t = N - a
  OBVIOUS
<1>4. ASSUME NEW b \in S PROVE b <= a
  <2>1. N - a <= N - b
    BY <1>2, <1>3
  <2> QED  BY <2>1, NAssumption DEF Obj
<1> QED  BY <1>4

(***************************************************************************)
(* Bounds on the maxima: more than i objectives that reach k, a vector     *)
(* that is nowhere larger, a later maximum.                                *)
(***************************************************************************)
LEMMA MaximumAtLeast ==
  ASSUME NEW v \in Vector, NEW i \in Nat, NEW k \in Value, NEW G \in SUBSET Obj,
         Cardinality(G) > i, \A j \in G : v[j] >= k
  PROVE  Maximum(v, i) >= k
<1>1. Maximum(v, i) \in Value /\ Cardinality(Above(v, Maximum(v, i))) <= i
  BY MaximumDef DEF AtMostAbove
<1>2. SUFFICES ASSUME Maximum(v, i) < k PROVE FALSE
  BY <1>1, SizeAssumption DEF Value
<1>3. ASSUME NEW j \in G PROVE j \in Above(v, Maximum(v, i))
  <2>1. v[j] \in Value /\ v[j] >= k
    BY DEF Vector
  <2> QED  BY <1>1, <1>2, <2>1, SizeAssumption DEF Above, Value
<1>4. Above(v, Maximum(v, i)) \in SUBSET Obj /\ G \in SUBSET Above(v, Maximum(v, i))
  BY <1>3 DEF Above
<1>5. /\ Cardinality(Above(v, Maximum(v, i))) \in Nat
      /\ Cardinality(G) \in Nat
      /\ Cardinality(G) <= Cardinality(Above(v, Maximum(v, i)))
  BY <1>4, SetsOfObjectives
<1> QED  BY <1>1, <1>5

LEMMA MaximumMonotone ==
  ASSUME NEW u \in Vector, NEW v \in Vector, \A j \in Obj : u[j] <= v[j], NEW n \in Nat
  PROVE  Maximum(u, n) <= Maximum(v, n)
<1>1. Maximum(v, n) \in Value /\ Cardinality(Above(v, Maximum(v, n))) <= n
  BY MaximumDef DEF AtMostAbove
<1>2. Above(u, Maximum(v, n)) \in SUBSET Above(v, Maximum(v, n))
  BY <1>1, SizeAssumption DEF Above, Vector, Value
<1>3. Cardinality(Above(u, Maximum(v, n))) <= Cardinality(Above(v, Maximum(v, n)))
  BY <1>2, AboveFinite, FS_Subset
<1>4. AtMostAbove(u, n, Maximum(v, n))
  BY <1>1, <1>3, AboveFinite DEF AtMostAbove
<1> QED  BY <1>1, <1>4, MaximumDef

(* No maximum exceeds what bounds every objective.                         *)
LEMMA MaximumBound ==
  ASSUME NEW v \in Vector, NEW k \in Value, \A j \in Obj : v[j] <= k, NEW n \in Nat
  PROVE  Maximum(v, n) <= k
<1>1. Above(v, k) = {}
  BY SizeAssumption DEF Above, Vector, Value
<1>2. AtMostAbove(v, n, k)
  BY <1>1, FS_EmptySet DEF AtMostAbove
<1> QED  BY <1>2, MaximumDef

LEMMA MaximumDescends ==
  ASSUME NEW v \in Vector, NEW i \in Nat, NEW n \in Nat, i <= n
  PROVE  Maximum(v, n) <= Maximum(v, i)
<1>1. Maximum(v, i) \in Value /\ Cardinality(Above(v, Maximum(v, i))) <= i
  BY MaximumDef DEF AtMostAbove
<1>2. AtMostAbove(v, n, Maximum(v, i))
  BY <1>1, AboveFinite DEF AtMostAbove
<1> QED  BY <1>1, <1>2, MaximumDef

(***************************************************************************)
(* A vector that is nowhere larger and has a smaller maximum is better.    *)
(***************************************************************************)
LEMMA SmallerBetter ==
  ASSUME NEW u \in Vector, NEW v \in Vector, \A j \in Obj : u[j] <= v[j],
         NEW i \in Obj, Maximum(u, i) < Maximum(v, i)
  PROVE  Better(u, v)
<1> DEFINE D == {j \in Obj : Maximum(u, j) # Maximum(v, j)}
<1>1. Obj \subseteq Nat
  BY NAssumption DEF Obj
<1>2. \A j \in Nat : Maximum(u, j) \in Int /\ Maximum(v, j) \in Int
  BY MaximumDef, SizeAssumption DEF Value
<1>3. i \in D /\ D \subseteq Nat
  <2>1. Maximum(u, i) \in Int /\ Maximum(v, i) \in Int
    BY <1>1, <1>2
  <2>2. Maximum(u, i) # Maximum(v, i)
    BY <2>1
  <2>3. i \in D
    BY <2>2
  <2>4. D \subseteq Nat
    BY <1>1
  <2> QED  BY <2>3, <2>4
<1>4. PICK d \in D : \A j \in D : d <= j
  <2> HIDE DEF D
  <2> QED  BY <1>3, LeastElement
<1>5. SameMaxima(u, v, d)
  <2> SUFFICES ASSUME NEW j \in 0 .. d-1 PROVE Maximum(u, j) = Maximum(v, j)
    BY DEF SameMaxima
  <2>1. j \in Obj /\ ~ (d <= j)
    BY <1>4, NAssumption DEF Obj
  <2> QED  BY <1>4, <2>1
<1>6. Maximum(u, d) < Maximum(v, d)
  <2>1. Maximum(u, d) <= Maximum(v, d)
    BY <1>1, <1>4, MaximumMonotone
  <2> QED  BY <1>1, <1>2, <1>4, <2>1
<1> QED  BY <1>4, <1>5, <1>6 DEF Better
=============================================================================
