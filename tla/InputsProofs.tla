--------------------------- MODULE InputsProofs ---------------------------
(***************************************************************************)
(* Proofs about the two algorithms that see the inputs of the objectives   *)
(* one by one, for every problem and every way to share the inputs among   *)
(* the objectives: CoreGuided, for every order in which cores are found,   *)
(* and Mss, for all options of the enumeration.                            *)
(***************************************************************************)
EXTENDS SoundModes, Mss, LeximaxProofs, FunctionTheorems

(* The core-guided algorithms *)

Sets == (SUBSET Obj) \ {{}}
OfAny(S, J) == {x \in S : Owner[x] \in J}
Seen == Inputs \ unsorted

Types ==
  /\ models \subseteq SUBSET Inputs /\ config \in Configs
  /\ status \in {"?", "s", "u", "o"} /\ best \in Vector \cup {NoVector}
  /\ pc \in {"start", "disjoint", "solve", "inner", "finish", "done"}
  /\ i \in 0 .. N /\ (pc # "disjoint" => i \in Obj)
  /\ lb \in [Obj -> Value]
  /\ lb_map \in [Sets -> Nat]
  /\ unsorted \subseteq Inputs /\ units \subseteq Inputs \ unsorted
  /\ sorted \subseteq Inputs \ units
  /\ copies = [j \in Obj |-> 1]

Control ==
  /\ pc = "start" =>
       /\ status = "?" /\ best = NoVector /\ i = 0 /\ unsorted = Inputs
       /\ lb = [j \in Obj |-> 0]
  /\ pc \in {"disjoint", "solve", "inner", "finish"} => status = "s"
  /\ pc = "done" => status \in {"u", "o"}
  /\ status \in {"s", "o"} => best \in feasible
  /\ pc \in {"disjoint", "inner"} => disjoint
  /\ pc = "disjoint" => mode # "core_static"
  /\ pc = "finish" => Optimal(best, feasible)

(***************************************************************************)
(* What the networks have been built of.                                   *)
(***************************************************************************)
Built ==
  /\ mode = "core_static" => sorted = Inputs
  /\ mode # "core_static" => sorted \subseteq Seen
  /\ units # {} => disjoint
  /\ pc \in {"start", "disjoint"} /\ mode # "core_static" => sorted = {}
  /\ pc = "start" => units = {}
  /\ pc = "solve" => Seen \subseteq sorted \cup units

(***************************************************************************)
(* After disjoint_cores no core is left.                                   *)
(***************************************************************************)
NoCoreLeft ==
  disjoint /\ mode # "core_static" /\ pc \in {"solve", "inner"} => Without(unsorted) # {}

(***************************************************************************)
(* The cores counted in lb_map are disjoint sets of inputs seen, and every *)
(* model has an input of each.                                             *)
(***************************************************************************)
Cores ==
  \A D \in models \cup {Inputs}, S \in Sets :
    lb_map[S] <= Cardinality(OfAny(D \ unsorted, S))

(***************************************************************************)
(* The bound of a maximum after the current one is below that maximum in   *)
(* all solutions; any other one only in those within the bounds before it. *)
(***************************************************************************)
Current == IF pc \in {"start", "disjoint"} THEN 0 ELSE i
Within(v, n) == \A m \in 0 .. n-1 : Maximum(v, m) <= lb[m]
Bounds ==
  \A v \in feasible, j \in Obj :
    j > Current \/ Within(v, j) => lb[j] <= Maximum(v, j)

(* Some solution whose unsorted inputs are false is within the bounds of   *)
(* the earlier maxima.                                                     *)
Reached ==
  pc \in {"solve", "inner"} /\ i > 0 => \E m \in Without(unsorted) : Within(Values(m), i)
Settled == pc \in {"finish", "done"} => \A v \in feasible : Optimal(v, feasible)
                                            => \A j \in Obj : lb[j] <= Maximum(v, j)

(* The networks are large enough for the bounds.                           *)
Fit ==
  /\ pc \in {"start", "disjoint"} => \A j \in Obj : lb[j] <= Maximum(Values(Seen), 0)
  /\ pc \in {"solve", "inner"} => \A j \in Obj : lb[j] <= Width

IInv ==
  /\ Types /\ Control /\ Built /\ NoCoreLeft /\ Cores /\ Bounds /\ Reached /\ Settled
  /\ Fit /\ VerdictSound

-----------------------------------------------------------------------------
(* Counting inputs.                                                        *)
LEMMA Objectives ==
  Obj \subseteq Nat /\ 0 \in Obj /\ IsFiniteSet(Obj) /\ Cardinality(Obj) = N
<1>1. Cardinality(0 .. N-1) = N /\ IsFiniteSet(0 .. N-1)
  BY NAssumption, FS_Interval
<1> QED  BY <1>1, NAssumption DEF Obj

LEMMA MostDef ==
  ASSUME NEW S, S \subseteq Value, S # {}
  PROVE  Most(S) \in S /\ \A b \in S : b <= Most(S)
BY GreatestElement DEF Most

LEMMA OfCount ==
  ASSUME NEW S, S \subseteq Inputs, NEW j \in Obj
  PROVE  /\ IsFiniteSet(Of(S, j))
         /\ Cardinality(Of(S, j)) \in Value /\ Cardinality(Of(S, j)) \in Nat
         /\ Cardinality(Of(S, j)) <= Cardinality(Of(Inputs, j))
<1>1. Of(Inputs, j) \in SUBSET Inputs /\ Of(S, j) \in SUBSET Of(Inputs, j)
  BY DEF Of
<1>2. IsFiniteSet(Of(Inputs, j)) /\ Cardinality(Of(Inputs, j)) <= Size
  BY <1>1, InputsAssumption, FS_Subset DEF Of
<1>3. IsFiniteSet(Of(S, j)) /\ Cardinality(Of(S, j)) <= Cardinality(Of(Inputs, j))
  BY <1>1, <1>2, FS_Subset
<1>4. Cardinality(Of(S, j)) \in Nat /\ Cardinality(Of(Inputs, j)) \in Nat
  BY <1>2, <1>3, FS_CardinalityType
<1> QED  BY <1>2, <1>3, <1>4, SizeAssumption DEF Value

LEMMA OfMonotone ==
  ASSUME NEW S, NEW T, S \subseteq T, T \subseteq Inputs, NEW j \in Obj
  PROVE  Cardinality(Of(S, j)) <= Cardinality(Of(T, j))
<1>1. Of(S, j) \in SUBSET Of(T, j)
  BY DEF Of
<1> QED  BY <1>1, OfCount, FS_Subset

LEMMA ValuesVector ==
  ASSUME NEW m, m \subseteq Inputs
  PROVE  Values(m) \in Vector /\ \A j \in Obj : Values(m)[j] = Cardinality(Of(m, j))
BY OfCount DEF Values, Vector

(* The inputs of a set of objectives are at most as many as the largest of *)
(* these objectives has, times the number of objectives.                   *)
LEMMA OfAnyCount ==
  ASSUME NEW D, D \subseteq Inputs, NEW S \in Sets, NEW M \in Nat,
         \A j \in S : Cardinality(Of(D, j)) <= M
  PROVE  /\ Cardinality(S) \in Nat \ {0} /\ Cardinality(S) <= N
         /\ IsFiniteSet(OfAny(D, S)) /\ Cardinality(OfAny(D, S)) \in Nat
         /\ Cardinality(OfAny(D, S)) <= Cardinality(S) * M
<1>1. S \in SUBSET Obj /\ S # {}
  BY DEF Sets
<1>2. IsFiniteSet(S) /\ Cardinality(S) \in Nat \ {0} /\ Cardinality(S) <= N
  BY <1>1, Objectives, FS_Subset, FS_CardinalityType, FS_EmptySet
<1>3. IsFiniteSet(1 .. M) /\ Cardinality(1 .. M) = M
  BY FS_Interval
<1>4. ASSUME NEW j \in S PROVE Injection(Of(D, j), 1 .. M) # {}
  <2> DEFINE n == Cardinality(Of(D, j))
  <2>1. j \in Obj
    BY <1>1
  <2>2. IsFiniteSet(Of(D, j))
    BY <2>1, OfCount
  <2>3. n \in Nat /\ ExistsBijection(1 .. n, Of(D, j)) /\ n <= M
    BY <2>2, FS_CardinalityType
  <2> HIDE DEF n
  <2>4. ExistsInjection(Of(D, j), 1 .. n)
    BY <2>3, Fun_ExistsBijEquiv
  <2>5. ExistsInjection(1 .. n, 1 .. M)
    BY <2>3, Fun_NatInjLeq
  <2>6. ExistsInjection(Of(D, j), 1 .. M)
    BY <2>4, <2>5, Fun_ExistsInjTransitive
  <2> QED  BY <2>6, Fun_ExistsInj
<1> DEFINE F == [j \in S |-> CHOOSE f : f \in Injection(Of(D, j), 1 .. M)]
           G == [x \in OfAny(D, S) |-> <<Owner[x], F[Owner[x]][x]>>]
<1>5. ASSUME NEW x \in OfAny(D, S)
      PROVE  Owner[x] \in S /\ x \in Of(D, Owner[x])
  BY DEF OfAny, Of
<1>6. ASSUME NEW j \in S
      PROVE  /\ F[j] \in [Of(D, j) -> 1 .. M]
             /\ \A a, b \in Of(D, j) : F[j][a] = F[j][b] => a = b
  <2>1. F[j] \in Injection(Of(D, j), 1 .. M)
    BY <1>4
  <2> HIDE DEF F
  <2> QED  BY <2>1, Fun_InjectionProperties
<1> HIDE DEF F
<1>7. G \in [OfAny(D, S) -> S \X (1 .. M)]
  BY <1>5, <1>6
<1>8. \A a, b \in OfAny(D, S) : G[a] = G[b] => a = b
  <2> SUFFICES ASSUME NEW a \in OfAny(D, S), NEW b \in OfAny(D, S), G[a] = G[b] PROVE a = b
    OBVIOUS
  <2>1. Owner[a] = Owner[b] /\ F[Owner[a]][a] = F[Owner[b]][b]
    OBVIOUS
  <2>2. a \in Of(D, Owner[a]) /\ b \in Of(D, Owner[a]) /\ Owner[a] \in S
    BY <1>5, <2>1
  <2> QED  BY <1>6, <2>1, <2>2
<1>9. G \in Injection(OfAny(D, S), S \X (1 .. M))
  <2> HIDE DEF G
  <2> QED  BY <1>7, <1>8, Fun_IsInj
<1>10. IsFiniteSet(S \X (1 .. M)) /\ Cardinality(S \X (1 .. M)) = Cardinality(S) * M
  BY <1>2, <1>3, FS_Product
<1>11. IsFiniteSet(OfAny(D, S)) /\ Cardinality(OfAny(D, S)) <= Cardinality(S) * M
  <2> HIDE DEF G
  <2> QED  BY <1>9, <1>10, FS_Injection
<1> QED  BY <1>2, <1>11, FS_CardinalityType

-----------------------------------------------------------------------------
(* Facts about maxima.                                                     *)
LEMMA MaximumValue ==
  ASSUME NEW v \in Vector, NEW n \in Nat
  PROVE  Maximum(v, n) \in Value /\ Maximum(v, n) \in Int /\ Maximum(v, n) >= 0
BY MaximumDef, SizeAssumption DEF Value

-----------------------------------------------------------------------------
(***************************************************************************)
(* What change_lb_map makes of lb_map at the first maximum.  D is a set of *)
(* inputs with as many inputs of any objectives as lb_map says: then no    *)
(* bound rises above a maximum of D.                                       *)
(***************************************************************************)
LEMMA RoundedUp ==
  ASSUME NEW a \in Nat, NEW b \in Nat, b > 0, NEW M \in Nat, a <= b * M
  PROVE  RoundUp(a, b, b) \in Nat /\ RoundUp(a, b, b) <= M
<1> DEFINE q == a \div b
           r == a % b
<1>1. q \in Nat /\ r \in Nat /\ a = (b * q) + r
  OBVIOUS
<1>2. RoundUp(a, b, b) = q + IF r = 0 THEN 0 ELSE 1
  BY DEF RoundUp, Quotient
<1> HIDE DEF q, r
<1>3. CASE q > M
  <2>1. b * q >= b * (M + 1)
    BY <1>1, <1>3
  <2>2. b * (M + 1) = (b * M) + b
    OBVIOUS
  <2> QED  BY <1>1, <2>1, <2>2
<1>4. CASE q = M
  BY <1>1, <1>2, <1>4
<1>5. CASE q < M
  BY <1>1, <1>2, <1>5
<1> QED  BY <1>1, <1>3, <1>4, <1>5

LEMMA RaisedDef ==
  ASSUME lb \in [Obj -> Value], NEW map \in [Sets -> Nat], NEW D, D \subseteq Inputs,
         \A S \in Sets : map[S] <= Cardinality(OfAny(D, S))
  PROVE  /\ Raised(map) \in [Obj -> Value]
         /\ \A j \in Obj : /\ lb[j] <= Raised(map)[j]
                           /\ \/ Raised(map)[j] <= lb[j]
                              \/ Raised(map)[j] <= Maximum(Values(D), j)
<1> DEFINE single == [k \in Obj |-> map[{k}]]
<1>1. Values(D) \in Vector /\ \A j \in Obj : Values(D)[j] = Cardinality(Of(D, j))
  BY ValuesVector
<1>2. \A k \in Obj : single[k] \in Nat /\ single[k] <= Values(D)[k]
  <2> TAKE k \in Obj
  <2>1. {k} \in Sets
    BY DEF Sets
  <2>2. OfAny(D, {k}) = Of(D, k)
    BY DEF OfAny, Of
  <2> QED  BY <1>1, <2>1, <2>2
<1>3. single \in Vector
  BY <1>1, <1>2, SizeAssumption DEF Vector, Value
<1> HIDE DEF single
<1>4. ASSUME NEW j \in Obj
      PROVE  /\ Raised(map)[j] = Most({lb[j], Maximum(single, j)})
             /\ Maximum(single, j) \in Value /\ Maximum(single, j) <= Maximum(Values(D), j)
  <2>1. j \in Nat
    BY Objectives
  <2> QED  BY <1>1, <1>2, <1>3, <2>1, MaximumValue, MaximumMonotone DEF Raised, single
<1>5. ASSUME NEW j \in Obj
      PROVE  /\ Raised(map)[j] \in {lb[j], Maximum(single, j)}
             /\ lb[j] <= Raised(map)[j]
  BY <1>4, MostDef
<1>6. Raised(map) \in [Obj -> Value]
  BY <1>4, <1>5 DEF Raised
<1>7. \A j \in Obj : lb[j] \in Int
  BY SizeAssumption DEF Value
<1> QED  BY <1>4, <1>5, <1>6, <1>7

LEMMA LowerBoundsAtFirst ==
  ASSUME lb \in [Obj -> Value], NEW map \in [Sets -> Nat], NEW D, D \subseteq Inputs,
         \A S \in Sets : map[S] <= Cardinality(OfAny(D, S))
  PROVE  /\ LowerBounds(0, map) \in [Obj -> Value]
         /\ \A j \in Obj : \/ LowerBounds(0, map)[j] <= lb[j]
                           \/ LowerBounds(0, map)[j] <= Maximum(Values(D), j)
<1> DEFINE M == Maximum(Values(D), 0)
           R == Raised(map)
           others == {S \in SUBSET Obj : 0 < 2 /\ Cardinality(S) \in 2 .. N-1}
           T == {R[0], FromAll(0, map)} \cup {FromSome(0, map, S) : S \in others}
<1>1. /\ R \in [Obj -> Value]
      /\ \A j \in Obj : lb[j] <= R[j] /\ (R[j] <= lb[j] \/ R[j] <= Maximum(Values(D), j))
  BY RaisedDef
<1>2. Values(D) \in Vector /\ \A j \in Obj : Values(D)[j] = Cardinality(Of(D, j))
  BY ValuesVector
<1>3. M \in Value /\ M \in Nat
  BY <1>2, MaximumValue, SizeAssumption DEF Value
<1>4. \A j \in Obj : Cardinality(Of(D, j)) <= M
  BY <1>2, FirstMaximum
<1> HIDE DEF M, R
<1>5. ASSUME NEW S \in Sets
      PROVE  /\ RoundUp(map[S], Cardinality(S), Cardinality(S)) \in Value
             /\ RoundUp(map[S], Cardinality(S), Cardinality(S)) <= M
  <2>1. \A j \in S : Cardinality(Of(D, j)) <= M
    BY <1>4 DEF Sets
  <2>2. /\ Cardinality(S) \in Nat /\ Cardinality(S) > 0
        /\ Cardinality(OfAny(D, S)) \in Nat
        /\ Cardinality(OfAny(D, S)) <= Cardinality(S) * M
    BY <1>3, <2>1, OfAnyCount
  <2>3. map[S] \in Nat /\ map[S] <= Cardinality(S) * M
    BY <1>3, <2>2
  <2>4. /\ RoundUp(map[S], Cardinality(S), Cardinality(S)) \in Nat
        /\ RoundUp(map[S], Cardinality(S), Cardinality(S)) <= M
    BY <1>3, <2>2, <2>3, RoundedUp
  <2> QED  BY <1>3, <2>4, SizeAssumption DEF Value
<1>6. FromAll(0, map) \in Value /\ FromAll(0, map) <= M
  <2>1. Obj \in Sets /\ Cardinality(Obj) = N
    BY Objectives DEF Sets
  <2>2. {p \in (0 .. 0-1) \X (1 .. Size) : p[2] <= Raised(map)[p[1]]} = {}
    OBVIOUS
  <2>3. SumBefore(Raised(map), 0) = 0
    BY <2>2, FS_EmptySet DEF SumBefore
  <2>4. FromAll(0, map) = RoundUp(map[Obj], N, N)
    BY <2>1, <2>3, NAssumption DEF FromAll
  <2> QED  BY <1>5, <2>1, <2>4
<1>7. \A S \in others : FromSome(0, map, S) \in Value /\ FromSome(0, map, S) <= M
  <2> TAKE S \in others
  <2>1. S \in Sets
    <3>1. Cardinality(S) # 0 /\ Cardinality({}) = 0
      BY FS_EmptySet, NAssumption
    <3> QED  BY <3>1 DEF Sets
  <2>2. FromSome(0, map, S) = RoundUp(map[S], Cardinality(S), Cardinality(S))
    BY DEF FromSome
  <2> QED  BY <1>5, <2>1, <2>2
<1>8. \A t \in T : t \in Value /\ (t <= M \/ t <= lb[0])
  BY <1>1, <1>6, <1>7, Objectives DEF M
<1>9. LowerBounds(0, map) = [R EXCEPT ![0] = Most(T)]
  BY <1>1, Objectives DEF LowerBounds, R
<1> HIDE DEF T
<1>10. Most(T) \in T
  <2>1. T # {} /\ T \subseteq Value
    BY <1>8 DEF T
  <2> QED  BY <2>1, MostDef
<1>11. Most(T) \in Value /\ (Most(T) <= M \/ Most(T) <= lb[0])
  BY <1>8, <1>10
<1> QED  BY <1>1, <1>9, <1>11, Objectives DEF M

-----------------------------------------------------------------------------
(* The networks.                                                           *)
LEMMA Modes ==
  ASSUME Types
  PROVE  /\ mode \in {"core_static", "core_merge", "core_rebuild", "core_rebuild_incr"}
         /\ mode = "core_rebuild" => ~ disjoint
<1>1. mode \in ModeNames
  BY ConfigsAssumption DEF Types, mode
<1>2. mode # "core-merge" /\ (mode = "core_rebuild" => ~ disjoint)
  BY SoundConfigsAssumption DEF Types, mode, disjoint
<1> QED  BY <1>1, <1>2 DEF ModeNames

LEMMA DisjointCount ==
  ASSUME NEW S, NEW U, S \subseteq Inputs, U \subseteq Inputs \ S, NEW j \in Obj
  PROVE  Cardinality(Of(S, j)) + 1 * Cardinality(Of(U, j)) = Cardinality(Of(S \cup U, j))
<1>1. IsFiniteSet(Of(S, j)) /\ IsFiniteSet(Of(U, j))
  BY OfCount
<1>2. Of(S \cup U, j) = Of(S, j) \cup Of(U, j) /\ Of(S, j) \cap Of(U, j) = {}
  BY DEF Of
<1>3. Cardinality(Of(S, j)) \in Nat /\ Cardinality(Of(U, j)) \in Nat /\ Cardinality({}) = 0
  BY <1>1, FS_CardinalityType, FS_EmptySet
<1>4. Cardinality(Of(S, j) \cup Of(U, j))
      = Cardinality(Of(S, j)) + Cardinality(Of(U, j)) - Cardinality(Of(S, j) \cap Of(U, j))
  BY <1>1, FS_Union
<1>5. Cardinality(Of(S \cup U, j)) = Cardinality(Of(S, j) \cup Of(U, j))
      /\ Cardinality(Of(S, j) \cap Of(U, j)) = Cardinality({})
  BY <1>2, Zenon
<1> QED  BY <1>3, <1>4, <1>5

(* Some sorted vector is the largest.                                      *)
LEMMA WidthExists ==
  ASSUME NEW S, S \subseteq Inputs
  PROVE  \E w \in {Cardinality(Of(S, j)) : j \in Obj} :
           \A j \in Obj : Cardinality(Of(S, j)) <= w
<1> DEFINE T == {Cardinality(Of(S, j)) : j \in Obj}
<1>1. \A j \in Obj : Cardinality(Of(S, j)) \in Value
  BY OfCount
<1>2. T \subseteq Value /\ T # {}
  BY <1>1, Objectives
<1>3. \E x \in T : \A y \in T : y <= x
  <2> HIDE DEF T
  <2> QED  BY <1>2, GreatestElement
<1> QED  BY <1>3

Net == sorted \cup units

LEMMA WidthDef ==
  ASSUME Types
  PROVE  /\ Width \in Value
         /\ \A j \in Obj : Cardinality(Of(Net, j)) <= Width
         /\ \E j \in Obj : Width = Cardinality(Of(Net, j))
<1>1. /\ sorted \subseteq Inputs /\ units \subseteq Inputs \ sorted
      /\ copies = [j \in Obj |-> 1]
  BY DEF Types
<1>2. /\ \A j \in Obj : Cardinality(Of(Net, j)) \in Value
      /\ \E w \in {Cardinality(Of(Net, j)) : j \in Obj} :
           \A j \in Obj : Cardinality(Of(Net, j)) <= w
  <2>1. Net \subseteq Inputs
    BY <1>1 DEF Net
  <2> QED  BY <2>1, OfCount, WidthExists
<1>3. \A j \in Obj : Wires(j) = Cardinality(Of(Net, j))
  BY <1>1, DisjointCount DEF Wires, Net
<1>4. Width = CHOOSE w \in {Wires(j) : j \in Obj} : \A j \in Obj : Wires(j) <= w
  BY DEF Width
<1>5. \E w \in {Wires(j) : j \in Obj} : \A j \in Obj : Wires(j) <= w
  BY <1>2, <1>3
<1>6. Width \in {Wires(j) : j \in Obj} /\ \A j \in Obj : Wires(j) <= Width
  BY <1>4, <1>5
<1> QED  BY <1>2, <1>3, <1>6

LEMMA NextWidthDef ==
  ASSUME Types'
  PROVE  /\ Width' \in Value
         /\ \A j \in Obj : Cardinality(Of(Net', j)) <= Width'
         /\ \E j \in Obj : Width' = Cardinality(Of(Net', j))
<1>1. /\ sorted' \subseteq Inputs /\ units' \subseteq Inputs \ sorted'
      /\ copies' = [j \in Obj |-> 1]
  BY DEF Types
<1>2. /\ \A j \in Obj : Cardinality(Of(Net', j)) \in Value
      /\ \E w \in {Cardinality(Of(Net', j)) : j \in Obj} :
           \A j \in Obj : Cardinality(Of(Net', j)) <= w
  <2>1. Net' \subseteq Inputs
    BY <1>1 DEF Net
  <2> QED  BY <2>1, OfCount, WidthExists
<1>3. \A j \in Obj : Wires(j)' = Cardinality(Of(Net', j))
  BY <1>1, DisjointCount DEF Wires, Net
<1>4. Width' = CHOOSE w \in {Wires(j)' : j \in Obj} : \A j \in Obj : Wires(j)' <= w
  BY DEF Width
<1>5. \E w \in {Wires(j)' : j \in Obj} : \A j \in Obj : Wires(j)' <= w
  BY <1>2, <1>3
<1>6. Width' \in {Wires(j)' : j \in Obj} /\ \A j \in Obj : Wires(j)' <= Width'
  BY <1>4, <1>5
<1> QED  BY <1>2, <1>3, <1>6

(* A network that gets more inputs does not get narrower.                  *)
LEMMA WidthGrows ==
  ASSUME Types, Types', Net \subseteq Net'
  PROVE  Width <= Width'
<1>1. PICK j \in Obj : Width = Cardinality(Of(Net, j))
  BY WidthDef
<1>2. Net' \subseteq Inputs
  BY DEF Net, Types
<1>3. Cardinality(Of(Net, j)) <= Cardinality(Of(Net', j))
  BY <1>2, OfMonotone
<1>4. Cardinality(Of(Net', j)) <= Width'
  BY NextWidthDef
<1>5. Width \in Int /\ Width' \in Int /\ Cardinality(Of(Net', j)) \in Int
  BY <1>2, WidthDef, NextWidthDef, OfCount, SizeAssumption DEF Value
<1> QED  BY <1>1, <1>3, <1>4, <1>5

(* The outputs count the inputs in the networks, no others.                *)
LEMMA OutputsDef ==
  ASSUME Types, NEW m, m \subseteq Inputs
  PROVE  /\ Outputs(m) \in Vector
         /\ \A j \in Obj : Outputs(m)[j] <= Values(m)[j] /\ Outputs(m)[j] <= Width
         /\ m \subseteq Net => Outputs(m) = Values(m)
<1>1. m \cap Net = (m \cap sorted) \cup (m \cap units)
  BY DEF Net
<1>2. ASSUME NEW j \in Obj
      PROVE  Outputs(m)[j] = Cardinality(Of(m \cap Net, j))
  <2>1. m \cap sorted \subseteq Inputs /\ m \cap units \subseteq Inputs \ (m \cap sorted)
    BY DEF Types
  <2>2. Cardinality(Of(m \cap sorted, j)) + 1 * Cardinality(Of(m \cap units, j))
        = Cardinality(Of(m \cap Net, j))
    BY <1>1, <2>1, DisjointCount
  <2> QED  BY <2>2 DEF Outputs, Types
<1>3. m \cap Net \subseteq Inputs /\ Net \subseteq Inputs
  BY DEF Net, Types
<1>4. Outputs(m) \in Vector
  BY <1>2, <1>3, OfCount DEF Outputs, Vector
<1>5. ASSUME NEW j \in Obj
      PROVE  Outputs(m)[j] <= Values(m)[j] /\ Outputs(m)[j] <= Width
  <2>1. Cardinality(Of(m \cap Net, j)) <= Cardinality(Of(m, j))
    BY OfMonotone
  <2>2. Cardinality(Of(m \cap Net, j)) <= Cardinality(Of(Net, j))
    BY <1>3, OfMonotone
  <2>3. Cardinality(Of(Net, j)) <= Width
    BY WidthDef
  <2>4. /\ Cardinality(Of(m \cap Net, j)) \in Int /\ Cardinality(Of(Net, j)) \in Int
        /\ Width \in Int
    BY <1>3, OfCount, WidthDef, SizeAssumption DEF Value
  <2> QED  BY <1>2, <2>1, <2>2, <2>3, <2>4, ValuesVector
<1>6. ASSUME m \subseteq Net PROVE Outputs(m) = Values(m)
  <2>1. m \cap Net = m
    BY <1>6
  <2>2. \A j \in Obj : Outputs(m)[j] = Cardinality(Of(m, j))
    BY <1>2, <2>1
  <2> QED  BY <2>2 DEF Outputs, Values
<1> QED  BY <1>4, <1>5, <1>6

(* What the new networks contain.                                          *)
LEMMA NetworksDef ==
  ASSUME Types, Built, NEW left, Networks(left)
  PROVE  /\ copies' = [j \in Obj |-> 1]
         /\ mode = "core_static" => sorted' = sorted
         /\ mode # "core_static" => sorted' = Inputs \ (left \cup units)
<1>1. /\ mode \in {"core_static", "core_merge", "core_rebuild", "core_rebuild_incr"}
      /\ mode = "core_rebuild" => units = {}
  BY Modes DEF Built
<1>2. CASE mode = "core_rebuild"
  <2>1. units = {}
    BY <1>1, <1>2
  <2>2. \A j \in Obj : Of(units, j) = {}
    BY <2>1 DEF Of
  <2> QED  BY <1>2, <2>2 DEF Networks
<1>3. CASE mode # "core_rebuild"
  BY <1>1, <1>3 DEF Networks, Types
<1> QED  BY <1>2, <1>3

-----------------------------------------------------------------------------
(* The calls of the SAT solver in the main loop.                           *)
Searching == pc \in {"solve", "inner"}

LEMMA ModelVector ==
  ASSUME Types, NEW m \in models
  PROVE  m \subseteq Inputs /\ Values(m) \in feasible /\ Values(m) \in Vector
BY ValuesVector DEF Types, feasible

LEMMA FeasibleVector ==
  ASSUME Types, NEW v \in feasible
  PROVE  v \in Vector /\ \E m \in models : v = Values(m)
BY ModelVector DEF feasible

(* The bounds fit: none of the assumptions of gen_assumps wraps.           *)
LEMMA CapDef ==
  ASSUME IInv, Searching, NEW n \in Obj
  PROVE  Cap(n) = lb[n] /\ Cap(n) \in Value /\ lb[n] \in Int
<1>1. lb[n] \in Value /\ lb[n] <= Width /\ Width \in Value
  BY WidthDef DEF IInv, Types, Fit, Searching
<1> QED  BY <1>1, SizeAssumption DEF Cap, Value

LEMMA Earlier ==
  ASSUME Types, pc # "disjoint", NEW n \in 0 .. i-1
  PROVE  n \in Obj /\ i \in Obj
BY NAssumption DEF Types, Obj

(* What is within the bounds is not cut off by the assumptions of the      *)
(* earlier maxima.                                                         *)
LEMMA WithinCapped ==
  ASSUME IInv, Searching, NEW m \in models, Within(Values(m), i)
  PROVE  PrefixCapped(m)
<1> SUFFICES ASSUME NEW n \in 0 .. i-1 PROVE AtMostAbove(Outputs(m), n, Cap(n))
  BY DEF PrefixCapped
<1>1. Types /\ pc # "disjoint"
  BY DEF IInv, Searching
<1>2. n \in Obj /\ n \in Nat
  BY <1>1, Earlier, Objectives
<1>3. Values(m) \in Vector /\ m \subseteq Inputs
  BY <1>1, ModelVector
<1>4. Outputs(m) \in Vector /\ \A j \in Obj : Outputs(m)[j] <= Values(m)[j]
  BY <1>1, <1>3, OutputsDef
<1>5. Maximum(Outputs(m), n) <= Maximum(Values(m), n)
  BY <1>2, <1>3, <1>4, MaximumMonotone
<1>6. Maximum(Values(m), n) <= lb[n] /\ Cap(n) = lb[n] /\ Cap(n) \in Value /\ lb[n] \in Int
  BY <1>2, CapDef DEF Within
<1>7. Maximum(Outputs(m), n) \in Int /\ Maximum(Values(m), n) \in Int
  BY <1>2, <1>3, <1>4, MaximumValue
<1>8. Maximum(Outputs(m), n) <= Cap(n)
  BY <1>5, <1>6, <1>7
<1> QED  BY <1>2, <1>4, <1>6, <1>8, EncodingCorrect

(* There always is a model for the earlier maxima.                         *)
LEMMA PrefixModel ==
  ASSUME IInv, Searching
  PROVE  /\ \E m \in models : PrefixCapped(m) /\ Within(Values(m), i)
         /\ i > 0 => \E m \in Without(unsorted) : PrefixCapped(m) /\ Within(Values(m), i)
<1>1. CASE i > 0
  <2>1. PICK m \in Without(unsorted) : Within(Values(m), i)
    BY <1>1 DEF IInv, Reached, Searching
  <2>2. m \in models
    BY <2>1 DEF Without
  <2> QED  BY <2>1, <2>2, WithinCapped
<1>2. CASE ~ (i > 0)
  <2>1. i = 0
    BY <1>2, Objectives DEF IInv, Types, Searching
  <2>2. best \in feasible
    BY DEF IInv, Control, Searching
  <2>3. PICK m \in models : TRUE
    BY <2>2 DEF feasible
  <2>4. Within(Values(m), i)
    BY <2>1 DEF Within
  <2> QED  BY <1>2, <2>4, WithinCapped
<1> QED  BY <1>1, <1>2

(* A model of all the assumptions is within one bound more.                *)
LEMMA ModelWithin ==
  ASSUME IInv, pc = "solve", NEW m \in CoreGuidedModels
  PROVE  m \in Without(unsorted) /\ m \in models /\ Within(Values(m), i+1)
<1>1. Types /\ Searching /\ pc # "disjoint" /\ i \in Obj
  BY DEF IInv, Searching, Types
<1>2. m \in Without(unsorted) /\ m \in models /\ m \cap unsorted = {}
  BY DEF CoreGuidedModels, Without
<1>3. m \subseteq Net
  BY <1>1, <1>2, ModelVector DEF IInv, Built, Seen, Net
<1>4. Outputs(m) = Values(m) /\ Values(m) \in Vector
  BY <1>1, <1>2, <1>3, ModelVector, OutputsDef
<1>5. ASSUME NEW n \in 0 .. i PROVE Maximum(Values(m), n) <= lb[n]
  <2>1. n \in Obj /\ n \in Nat
    BY <1>1, NAssumption DEF Obj
  <2>2. Cap(n) = lb[n] /\ Cap(n) \in Value
    BY <1>1, <2>1, CapDef
  <2>3. AtMostAbove(Outputs(m), n, Cap(n))
    BY <1>1, NAssumption DEF CoreGuidedModels, PrefixCapped, Obj
  <2> QED  BY <1>4, <2>1, <2>2, <2>3, EncodingCorrect
<1> QED  BY <1>1, <1>2, <1>5, Objectives DEF Within

(***************************************************************************)
(* increase_lb: a core without inputs says that the current maximum of a   *)
(* solution within the earlier bounds is larger than k, and it has a max   *)
(* variable of this maximum.                                               *)
(***************************************************************************)
LEMMA CoreBound ==
  ASSUME IInv, Searching, NEW k \in Value, NEW before \in BOOLEAN, IsCore({}, k, before)
  PROVE  /\ k < Width
         /\ \A v \in feasible : Within(v, i) => k+1 <= Maximum(v, i)
<1>1. Types /\ i \in Obj /\ i \in Nat /\ k \in Int
  BY Objectives, SizeAssumption DEF IInv, Searching, Types, Value
<1>2. ASSUME NEW m \in models, Within(Values(m), i)
      PROVE  /\ Values(m) \in Vector /\ Outputs(m) \in Vector
             /\ Maximum(Outputs(m), i) > k
             /\ Maximum(Outputs(m), i) <= Width
             /\ Maximum(Outputs(m), i) <= Maximum(Values(m), i)
  <2>1. Values(m) \in Vector /\ m \subseteq Inputs
    BY <1>1, ModelVector
  <2>2. Outputs(m) \in Vector /\ Width \in Value
        /\ \A j \in Obj : Outputs(m)[j] <= Values(m)[j] /\ Outputs(m)[j] <= Width
    BY <1>1, <2>1, OutputsDef, WidthDef
  <2>3. PrefixCapped(m)
    BY <1>2, WithinCapped
  <2>4. m \in Without({})
    BY DEF Without
  <2>5. ~ AtMostAbove(Outputs(m), i, k)
    BY <2>3, <2>4 DEF IsCore
  <2>6. ~ (Maximum(Outputs(m), i) <= k)
    BY <1>1, <2>2, <2>5, EncodingCorrect
  <2>7. Maximum(Outputs(m), i) \in Int
    BY <1>1, <2>2, MaximumValue
  <2> QED  BY <1>1, <2>1, <2>2, <2>6, <2>7, MaximumBound, MaximumMonotone
<1>3. k < Width
  <2>1. PICK m \in models : Within(Values(m), i)
    BY PrefixModel
  <2>2. Maximum(Outputs(m), i) \in Int /\ Width \in Int
    BY <1>1, <1>2, <2>1, MaximumValue, WidthDef, SizeAssumption DEF Value
  <2> QED  BY <1>1, <1>2, <2>1, <2>2
<1>4. ASSUME NEW v \in feasible, Within(v, i) PROVE k+1 <= Maximum(v, i)
  <2>1. PICK m \in models : v = Values(m)
    BY <1>1, FeasibleVector
  <2>2. Within(Values(m), i)
    BY <1>4, <2>1
  <2>3. Maximum(Outputs(m), i) \in Int /\ Maximum(v, i) \in Int
    BY <1>1, <1>2, <2>1, <2>2, MaximumValue
  <2> QED  BY <1>1, <1>2, <2>1, <2>2, <2>3
<1> QED  BY <1>3, <1>4

(***************************************************************************)
(* change_lb_map: a core of inputs only is found at the first maximum, and *)
(* not after disjoint_cores.                                               *)
(***************************************************************************)
LEMMA InputCore ==
  ASSUME IInv, Searching, NEW C \in SUBSET unsorted, NEW k \in Cap(i) .. Width,
         NEW before \in BOOLEAN, IsCore(C, k, before), ~ HasMaxVar(k, before)
  PROVE  i = 0 /\ Without(C) = {} /\ ~ (disjoint /\ mode # "core_static")
<1>1. Types /\ i \in Obj /\ i \in Nat /\ Width \in Value
  BY Objectives, WidthDef DEF IInv, Searching, Types
<1>2. k = Width /\ before = FALSE
  BY <1>1, CapDef, SizeAssumption DEF HasMaxVar, Value
<1>3. ASSUME NEW m \in Without(C), PrefixCapped(m) PROVE FALSE
  <2>1. m \in models /\ m \subseteq Inputs
    BY <1>1, ModelVector DEF Without
  <2>2. Outputs(m) \in Vector /\ \A j \in Obj : Outputs(m)[j] <= Width
    BY <1>1, <2>1, OutputsDef
  <2>3. Maximum(Outputs(m), i) <= Width
    BY <1>1, <2>2, MaximumBound
  <2>4. AtMostAbove(Outputs(m), i, Width)
    BY <1>1, <2>2, <2>3, EncodingCorrect
  <2> QED  BY <1>2, <1>3, <2>4 DEF IsCore
<1>4. Without(unsorted) \subseteq Without(C)
  BY DEF Without
<1>5. i = 0
  BY <1>1, <1>3, <1>4, PrefixModel
<1>6. \A m : PrefixCapped(m)
  BY <1>5 DEF PrefixCapped
<1>7. Without(C) = {}
  BY <1>3, <1>6
<1>8. ~ (disjoint /\ mode # "core_static")
  BY <1>4, <1>7 DEF IInv, NoCoreLeft, Searching
<1> QED  BY <1>5, <1>7, <1>8

-----------------------------------------------------------------------------
(***************************************************************************)
(* A core C of inputs is counted, as long as all bounds hold of all        *)
(* solutions: they still do, and lb_map still counts disjoint cores.       *)
(***************************************************************************)
LEMMA NewCore ==
  ASSUME Types, Cores, models # {},
         \A v \in feasible, j \in Obj : lb[j] <= Maximum(v, j),
         NEW C \in SUBSET unsorted, Without(C) = {}
  PROVE  /\ AddCore(C) \in [Sets -> Nat]
         /\ \A D \in models \cup {Inputs}, S \in Sets :
              AddCore(C)[S] <= Cardinality(OfAny(D \ (unsorted \ C), S))
         /\ LowerBounds(0, AddCore(C)) \in [Obj -> Value]
         /\ \A v \in feasible, j \in Obj : LowerBounds(0, AddCore(C))[j] <= Maximum(v, j)
         /\ \A j \in Obj :
              \/ LowerBounds(0, AddCore(C))[j] <= lb[j]
              \/ LowerBounds(0, AddCore(C))[j] <= Maximum(Values(Inputs \ (unsorted \ C)), j)
<1> DEFINE map == AddCore(C)
           met == {Owner[x] : x \in C}
           left == unsorted \ C
<1>1. C \subseteq Inputs /\ C # {}
  BY DEF Types, Without
<1>2. met \in Sets
  BY <1>1, OwnerAssumption DEF Sets
<1>3. /\ map \in [Sets -> Nat]
      /\ \A S \in Sets : map[S] = IF S = met THEN lb_map[S] + 1 ELSE lb_map[S]
  <2>1. map = [lb_map EXCEPT ![met] = @ + 1]
    BY DEF AddCore
  <2>2. lb_map \in [Sets -> Nat]
    BY DEF Types
  <2> HIDE DEF map, met
  <2> QED  BY <1>2, <2>1, <2>2
<1> HIDE DEF map
<1>4. ASSUME NEW D \in models \cup {Inputs}, NEW S \in Sets
      PROVE  map[S] <= Cardinality(OfAny(D \ left, S))
  <2> DEFINE A == OfAny(D \ unsorted, S)
             B == OfAny(D \ left, S)
  <2>1. D \subseteq Inputs
    BY DEF Types
  <2>2. B \in SUBSET Inputs /\ A \in SUBSET B
    BY <2>1 DEF OfAny
  <2>3. IsFiniteSet(B) /\ IsFiniteSet(A) /\ Cardinality(A) <= Cardinality(B)
        /\ (Cardinality(A) = Cardinality(B) => B = A)
    BY <2>2, InputsAssumption, FS_Subset
  <2>4. Cardinality(A) \in Nat /\ Cardinality(B) \in Nat /\ lb_map[S] \in Nat
    BY <2>3, FS_CardinalityType DEF Types
  <2>5. lb_map[S] <= Cardinality(A)
    BY DEF Cores
  <2>6. CASE S = met
    <3>1. PICK x \in C : x \in D
      <4>1. CASE D \in models
        BY <4>1 DEF Without
      <4>2. CASE D = Inputs
        BY <1>1, <4>2
      <4> QED  BY <4>1, <4>2
    <3>2. x \in B /\ x \notin A
      BY <1>1, <2>6, <3>1 DEF OfAny
    <3>3. Cardinality(A) # Cardinality(B)
      BY <2>3, <3>2
    <3> HIDE DEF A, B
    <3> QED  BY <1>3, <2>3, <2>4, <2>5, <2>6, <3>3 DEF B
  <2>7. CASE S # met
    BY <1>3, <2>3, <2>4, <2>5, <2>7
  <2> QED  BY <2>6, <2>7
<1>5. ASSUME NEW D, D \subseteq Inputs, \A S \in Sets : map[S] <= Cardinality(OfAny(D, S))
      PROVE  /\ LowerBounds(0, map) \in [Obj -> Value]
             /\ \A j \in Obj : \/ LowerBounds(0, map)[j] <= lb[j]
                               \/ LowerBounds(0, map)[j] <= Maximum(Values(D), j)
  BY <1>3, <1>5, LowerBoundsAtFirst DEF Types
<1>6. /\ LowerBounds(0, map) \in [Obj -> Value]
      /\ \A j \in Obj : \/ LowerBounds(0, map)[j] <= lb[j]
                        \/ LowerBounds(0, map)[j] <= Maximum(Values(Inputs \ left), j)
  BY <1>4, <1>5
<1>7. ASSUME NEW v \in feasible, NEW j \in Obj PROVE LowerBounds(0, map)[j] <= Maximum(v, j)
  <2>1. PICK m \in models : v = Values(m)
    BY FeasibleVector
  <2>2. m \ left \subseteq Inputs /\ m \subseteq Inputs
    BY ModelVector
  <2>3. LowerBounds(0, map)[j] <= lb[j] \/ LowerBounds(0, map)[j] <= Maximum(Values(m \ left), j)
    BY <1>4, <1>5, <2>2
  <2>4. Values(m \ left) \in Vector /\ v \in Vector /\ j \in Nat
    BY <2>1, <2>2, ValuesVector, Objectives
  <2>5. \A k \in Obj : Values(m \ left)[k] <= v[k]
    BY <2>1, <2>2, ValuesVector, OfMonotone
  <2>6. Maximum(Values(m \ left), j) <= Maximum(v, j)
    BY <2>4, <2>5, MaximumMonotone
  <2>7. /\ Maximum(Values(m \ left), j) \in Int /\ Maximum(v, j) \in Int
        /\ lb[j] \in Int /\ LowerBounds(0, map)[j] \in Int
    BY <1>6, <2>4, MaximumValue, SizeAssumption DEF Types, Value
  <2> QED  BY <2>3, <2>6, <2>7
<1> QED  BY <1>3, <1>4, <1>6, <1>7 DEF map

-----------------------------------------------------------------------------
(* Optimality.                                                             *)

(* A solution within the bounds of all maxima is optimal.                  *)
LEMMA WithinOptimal ==
  ASSUME Types, Bounds, NEW w \in feasible, Within(w, N)
  PROVE  Optimal(w, feasible)
<1> SUFFICES ASSUME NEW u \in feasible, Better(u, w) PROVE FALSE
  BY DEF Optimal
<1>1. PICK a \in Obj : SameMaxima(u, w, a) /\ Maximum(u, a) < Maximum(w, a)
  BY DEF Better
<1>2. u \in Vector /\ w \in Vector /\ a \in Nat
  BY FeasibleVector, Objectives
<1>3. \A n \in 0 .. a-1 : n \in 0 .. N-1
  BY NAssumption DEF Obj
<1>4. Within(u, a)
  BY <1>1, <1>3 DEF Within, SameMaxima
<1>5. lb[a] <= Maximum(u, a)
  BY <1>4 DEF Bounds
<1>6. Maximum(w, a) <= lb[a]
  BY DEF Within, Obj
<1>7. Maximum(u, a) \in Int /\ Maximum(w, a) \in Int /\ lb[a] \in Int
  BY <1>2, MaximumValue, SizeAssumption DEF Types, Value
<1> QED  BY <1>1, <1>5, <1>6, <1>7

(* All optimal solutions are within the bounds of the earlier maxima.      *)
LEMMA OptimalWithin ==
  ASSUME Types, Bounds, NEW n \in Nat, n <= N, NEW w \in feasible, Within(w, n),
         NEW v \in feasible, Optimal(v, feasible)
  PROVE  Within(v, n)
<1> DEFINE D == {m \in 0 .. n-1 : Maximum(v, m) # Maximum(w, m)}
<1>1. SUFFICES ASSUME D # {} PROVE FALSE
  BY DEF Within
<1>2. PICK d \in D : \A m \in D : d <= m
  <2>1. D \subseteq Nat
    OBVIOUS
  <2> HIDE DEF D
  <2> QED  BY <1>1, <2>1, LeastElement
<1>3. d \in Obj /\ d \in Nat /\ v \in Vector /\ w \in Vector
  BY <1>2, FeasibleVector, NAssumption DEF Obj
<1>4. Maximum(v, d) \in Int /\ Maximum(w, d) \in Int /\ lb[d] \in Int
  BY <1>3, MaximumValue, SizeAssumption DEF Types, Value
<1>5. \A m \in 0 .. d-1 : m \in 0 .. n-1 /\ Maximum(v, m) = Maximum(w, m)
  BY <1>2
<1>6. SameMaxima(w, v, d) /\ Within(v, d)
  BY <1>5 DEF SameMaxima, Within
<1>7. ~ (Maximum(w, d) < Maximum(v, d))
  BY <1>3, <1>6 DEF Optimal, Better
<1>8. lb[d] <= Maximum(v, d)
  BY <1>3, <1>6 DEF Bounds
<1>9. Maximum(w, d) <= lb[d] /\ Maximum(v, d) # Maximum(w, d)
  BY <1>2 DEF Within
<1> QED  BY <1>4, <1>7, <1>8, <1>9

(* No bound exceeds a maximum of an optimal solution.                      *)
LEMMA BoundsOptimal ==
  ASSUME IInv, NEW v \in feasible, Optimal(v, feasible), NEW j \in Obj
  PROVE  lb[j] <= Maximum(v, j)
<1>1. Types /\ Bounds /\ (pc # "disjoint" => i \in Obj)
  BY DEF IInv, Types
<1>2. CASE pc \in {"finish", "done"}
  BY <1>2 DEF IInv, Settled
<1>3. CASE pc \in {"start", "disjoint"}
  <2>1. j > 0 \/ (j = 0 /\ Within(v, j))
    BY NAssumption DEF Obj, Within
  <2> QED  BY <1>1, <1>3, <2>1 DEF Bounds, Current
<1>4. CASE Searching
  <2>1. Current = i /\ i \in Obj /\ i \in Nat /\ i <= N
    BY <1>1, <1>4, NAssumption DEF Current, Searching, Obj
  <2>2. PICK m \in models : Within(Values(m), i)
    BY <1>4, PrefixModel
  <2>3. Within(v, i)
    BY <1>1, <2>1, <2>2, ModelVector, OptimalWithin
  <2>4. j > i \/ Within(v, j)
    BY <2>1, <2>3, NAssumption DEF Within, Obj
  <2> QED  BY <1>1, <2>1, <2>4 DEF Bounds
<1> QED  BY <1>2, <1>3, <1>4 DEF IInv, Types, Searching

(* set_solution with an optimal solution leaves an optimal one.            *)
LEMMA HeldOptimal ==
  ASSUME Types, NEW u \in feasible, Optimal(u, feasible), NEW v \in feasible
  PROVE  Optimal(BestOf(u, v), feasible)
<1>1. CASE Better(u, v)
  BY <1>1 DEF BestOf
<1>2. CASE ~ Better(u, v)
  <2>1. u \in Vector /\ v \in Vector
    BY FeasibleVector
  <2>2. SameMaxima(u, v, N)
    <3> DEFINE D == {m \in 0 .. N-1 : Maximum(u, m) # Maximum(v, m)}
    <3>1. SUFFICES ASSUME D # {} PROVE FALSE
      BY DEF SameMaxima
    <3>2. PICK d \in D : \A m \in D : d <= m
      <4>1. D \subseteq Nat
        OBVIOUS
      <4> HIDE DEF D
      <4> QED  BY <3>1, <4>1, LeastElement
    <3>3. d \in Obj /\ d \in Nat
      BY <3>2 DEF Obj
    <3>4. SameMaxima(u, v, d) /\ SameMaxima(v, u, d)
      <4>1. \A m \in 0 .. d-1 : m \in 0 .. N-1 /\ m \notin D
        BY <3>2, NAssumption
      <4>2. \A m \in 0 .. d-1 : Maximum(u, m) = Maximum(v, m)
        BY <4>1
      <4> QED  BY <4>2 DEF SameMaxima
    <3>5. ~ (Maximum(u, d) < Maximum(v, d)) /\ ~ (Maximum(v, d) < Maximum(u, d))
      BY <1>2, <3>3, <3>4 DEF Better, Optimal
    <3>6. Maximum(u, d) \in Int /\ Maximum(v, d) \in Int
      BY <2>1, <3>3, MaximumValue
    <3> QED  BY <3>2, <3>5, <3>6
  <2>3. ASSUME NEW w \in feasible, Better(w, v) PROVE Better(w, u)
    <3>1. PICK a \in Obj : SameMaxima(w, v, a) /\ Maximum(w, a) < Maximum(v, a)
      BY <2>3 DEF Better
    <3>2. SameMaxima(w, u, a) /\ Maximum(u, a) = Maximum(v, a)
      BY <2>2, <3>1, NAssumption DEF SameMaxima, Obj
    <3> QED  BY <3>1, <3>2 DEF Better
  <2> QED  BY <1>2, <2>3 DEF BestOf, Optimal
<1> QED  BY <1>1, <1>2

-----------------------------------------------------------------------------
(* The steps.                                                              *)
LEMMA InitInv == Init => IInv
<1> SUFFICES ASSUME Init PROVE IInv
  OBVIOUS
<1>1. Types
  BY Objectives, NAssumption, SizeAssumption, ProblemsAssumption
  DEF Init, Types, Sets, Value
<1>2. Control /\ Built /\ NoCoreLeft /\ Reached /\ Settled /\ VerdictSound
  BY <1>1 DEF Init, Control, Built, NoCoreLeft, Reached, Settled, VerdictSound, Seen, Types,
     feasible
<1>3. Cores
  <2>1. ASSUME NEW D \in models \cup {Inputs}, NEW S \in Sets
        PROVE  lb_map[S] <= Cardinality(OfAny(D \ unsorted, S))
    <3>1. OfAny(D \ unsorted, S) = {}
      BY <1>1 DEF Init, OfAny, Types
    <3>2. Cardinality(OfAny(D \ unsorted, S)) = 0
      BY <3>1, FS_EmptySet, Zenon
    <3> QED  BY <3>2 DEF Init, Sets
  <2> QED  BY <2>1 DEF Cores
<1>4. \A v \in Vector, j \in Obj : lb[j] <= Maximum(v, j) /\ lb[j] <= Maximum(v, 0)
  BY MaximumValue, Objectives DEF Init
<1>5. Bounds
  BY <1>1, <1>4, FeasibleVector DEF Bounds
<1>6. Fit
  <2>1. Values(Seen) \in Vector
    BY ValuesVector DEF Seen
  <2> QED  BY <1>4, <2>1 DEF Fit, Init
<1> QED  BY <1>1, <1>2, <1>3, <1>5, <1>6 DEF IInv

LEMMA CheckSatInv == IInv /\ CheckSat => IInv'
<1> SUFFICES ASSUME IInv, CheckSat PROVE IInv'
  OBVIOUS
<1>1. /\ Types /\ Control /\ Built /\ Cores /\ Bounds /\ Fit
      /\ pc = "start" /\ i = 0 /\ lb = [j \in Obj |-> 0]
  BY DEF IInv, Control, CheckSat
<1>2. /\ models' = models /\ config' = config /\ i' = i /\ lb' = lb /\ lb_map' = lb_map
      /\ unsorted' = unsorted /\ units' = units /\ sorted' = sorted /\ copies' = copies
      /\ feasible' = feasible /\ mode' = mode /\ disjoint' = disjoint /\ Seen' = Seen
  BY DEF CheckSat, feasible, mode, disjoint, Seen
<1>3. \/ models = {} /\ status' = "u" /\ pc' = "done" /\ best' = best
      \/ /\ status' = "s" /\ best' \in feasible
         /\ pc' = IF disjoint /\ mode # "core_static" THEN "disjoint" ELSE "solve"
  BY DEF CheckSat
<1>4. Types'
  BY <1>1, <1>2, <1>3, FeasibleVector DEF Types
<1>5. Control' /\ NoCoreLeft' /\ Reached'
  BY <1>1, <1>2, <1>3 DEF Control, NoCoreLeft, Reached
<1>6. Built'
  BY <1>1, <1>2, <1>3 DEF Built, Control, Seen
<1>7. Cores'
  BY <1>1, <1>2 DEF Cores
<1>8. Bounds'
  <2>1. Current' = 0 /\ Current = 0
    BY <1>1, <1>2, <1>3 DEF Current
  <2>2. \A v, n : Within(v, n)' <=> Within(v, n)
    BY <1>2 DEF Within
  <2> QED  BY <1>1, <1>2, <2>1, <2>2 DEF Bounds
<1>9. Settled' /\ VerdictSound'
  BY <1>2, <1>3 DEF Settled, VerdictSound, feasible
<1>10. Fit'
  <2>1. Width' \in Value
    BY <1>4, NextWidthDef
  <2> QED  BY <1>1, <1>2, <1>3, <2>1 DEF Fit, Value
<1> QED  BY <1>4, <1>5, <1>6, <1>7, <1>8, <1>9, <1>10 DEF IInv

(* The solution held remains a solution.                                   *)
LEMMA HeldFeasible ==
  ASSUME Types, best \in feasible, NEW m \in models
  PROVE  BestOf(Values(m), best) \in feasible /\ BestOf(Values(m), best) \in Vector
BY ModelVector, FeasibleVector DEF BestOf

LEMMA DisjointSatInv == IInv /\ DisjointSat => IInv'
<1> SUFFICES ASSUME IInv, DisjointSat PROVE IInv'
  OBVIOUS
<1>1. /\ Types /\ Control /\ Built /\ Cores /\ Bounds /\ Fit
      /\ pc = "disjoint" /\ i < N /\ i' = i + 1 /\ best \in feasible /\ status = "s"
  BY DEF IInv, Control, DisjointSat
<1>2. /\ models' = models /\ config' = config /\ lb' = lb /\ lb_map' = lb_map
      /\ unsorted' = unsorted /\ units' = units /\ sorted' = sorted /\ copies' = copies
      /\ pc' = pc /\ status' = status
      /\ feasible' = feasible /\ mode' = mode /\ disjoint' = disjoint /\ Seen' = Seen
  BY DEF DisjointSat, feasible, mode, disjoint, Seen
<1>3. best' \in feasible /\ best' \in Vector
  BY <1>1, HeldFeasible DEF DisjointSat, Without
<1>4. Types'
  BY <1>1, <1>2, <1>3, NAssumption DEF Types
<1>5. Control' /\ Built' /\ NoCoreLeft' /\ Reached' /\ Settled' /\ VerdictSound' /\ Fit'
  BY <1>1, <1>2, <1>3
  DEF Control, Built, NoCoreLeft, Reached, Settled, VerdictSound, Fit
<1>6. Cores'
  BY <1>1, <1>2 DEF Cores
<1>7. Bounds'
  <2>1. Current' = 0 /\ Current = 0
    BY <1>1, <1>2 DEF Current
  <2>2. \A v, n : Within(v, n)' <=> Within(v, n)
    BY <1>2 DEF Within
  <2> QED  BY <1>1, <1>2, <2>1, <2>2 DEF Bounds
<1> QED  BY <1>4, <1>5, <1>6, <1>7 DEF IInv

(* Before the second maximum every bound holds of all solutions.           *)
LEMMA BoundsOfAll ==
  ASSUME Bounds, Current = 0, NEW v \in feasible, NEW j \in Obj
  PROVE  lb[j] <= Maximum(v, j)
<1>1. j > 0 \/ Within(v, j)
  BY NAssumption DEF Obj, Within
<1> QED  BY <1>1 DEF Bounds

LEMMA DisjointUnsatInv == IInv /\ DisjointUnsat => IInv'
<1> SUFFICES ASSUME IInv, DisjointUnsat PROVE IInv'
  OBVIOUS
<1>1. /\ Types /\ Control /\ Built /\ Cores /\ Bounds /\ Fit
      /\ pc = "disjoint" /\ i' = i /\ best' = best /\ best \in feasible /\ status = "s"
  BY DEF IInv, Control, DisjointUnsat
<1>2. /\ models' = models /\ config' = config /\ sorted' = sorted /\ copies' = copies
      /\ pc' = pc /\ status' = status
      /\ feasible' = feasible /\ mode' = mode /\ disjoint' = disjoint
  BY DEF DisjointUnsat, feasible, mode, disjoint
<1>3. PICK C \in SUBSET Assumed :
        /\ Without(C) = {}
        /\ lb_map' = AddCore(C)
        /\ unsorted' = unsorted \ C
        /\ units' = IF Cardinality(C) = 1 THEN units \cup C ELSE units
  BY DEF DisjointUnsat
<1>4. C \in SUBSET unsorted /\ Seen' = Inputs \ (unsorted \ C)
  BY <1>3 DEF Assumed, Of, Seen
<1>5. lb' = LowerBounds(0, AddCore(C))
  <2>1. lb' = LowerBounds(0, lb_map')
    BY DEF DisjointUnsat
  <2> QED  BY <1>3, <2>1
<1>6. Current = 0 /\ Current' = 0
  BY <1>1, <1>2 DEF Current
<1>7. models # {}
  BY <1>1 DEF feasible
<1>8. /\ lb_map' \in [Sets -> Nat] /\ lb' \in [Obj -> Value]
      /\ \A D \in models \cup {Inputs}, S \in Sets :
           lb_map'[S] <= Cardinality(OfAny(D \ unsorted', S))
      /\ \A v \in feasible, j \in Obj : lb'[j] <= Maximum(v, j)
      /\ \A j \in Obj : lb'[j] <= lb[j] \/ lb'[j] <= Maximum(Values(Seen'), j)
  BY <1>1, <1>3, <1>4, <1>5, <1>6, <1>7, BoundsOfAll, NewCore
<1>9. Types'
  <2>1. sorted = {} /\ units' \subseteq Inputs \ unsorted'
    BY <1>1, <1>3, <1>4 DEF Built, Control, Types
  <2>2. unsorted' \subseteq Inputs /\ sorted' \subseteq Inputs \ units'
    BY <1>1, <1>2, <1>3, <2>1 DEF Types
  <2> QED  BY <1>1, <1>2, <1>8, <2>1, <2>2 DEF Types
<1>10. Control' /\ NoCoreLeft' /\ Reached' /\ Settled' /\ VerdictSound'
  BY <1>1, <1>2 DEF Control, NoCoreLeft, Reached, Settled, VerdictSound
<1>11. Built'
  BY <1>1, <1>2, <1>9 DEF Built, Control
<1>12. Cores'
  BY <1>2, <1>8 DEF Cores
<1>13. Bounds'
  BY <1>2, <1>8 DEF Bounds
<1>14. Fit'
  <2> DEFINE a == Values(Seen)
             b == Values(Seen')
  <2>1. Seen \subseteq Seen' /\ Seen' \subseteq Inputs
    BY <1>1, <1>4 DEF Seen
  <2>2. a \in Vector /\ b \in Vector /\ \A j \in Obj : a[j] <= b[j]
    BY <2>1, ValuesVector, OfMonotone
  <2>3. Maximum(a, 0) <= Maximum(b, 0)
    BY <2>2, MaximumMonotone
  <2>4. ASSUME NEW j \in Obj PROVE lb'[j] <= Maximum(b, 0)
    <3>1. j \in Nat /\ Maximum(b, 0) \in Value
      BY <2>2, Objectives, MaximumValue
    <3>2. \A k \in Obj : b[k] <= Maximum(b, 0)
      BY <2>2, FirstMaximum
    <3> HIDE DEF b
    <3>3. Maximum(b, j) <= Maximum(b, 0)
      BY <2>2, <3>1, <3>2, MaximumBound
    <3>4. lb[j] <= Maximum(a, 0)
      BY <1>1 DEF Fit
    <3>5. /\ Maximum(a, 0) \in Int /\ Maximum(b, 0) \in Int /\ Maximum(b, j) \in Int
          /\ lb[j] \in Int /\ lb'[j] \in Int
      BY <1>1, <1>8, <2>2, <3>1, MaximumValue, SizeAssumption DEF Types, Value
    <3>6. lb'[j] <= lb[j] \/ lb'[j] <= Maximum(b, j)
      BY <1>8 DEF b
    <3> QED  BY <2>3, <3>3, <3>4, <3>5, <3>6
  <2> QED  BY <1>1, <1>2, <2>4 DEF Fit
<1> QED  BY <1>9, <1>10, <1>11, <1>12, <1>13, <1>14 DEF IInv

LEMMA DisjointEndInv == IInv /\ DisjointEnd => IInv'
<1> SUFFICES ASSUME IInv, DisjointEnd PROVE IInv'
  OBVIOUS
<1>1. /\ Types /\ Control /\ Built /\ Cores /\ Bounds /\ Fit
      /\ pc = "disjoint" /\ i = N /\ i' = 0 /\ best \in feasible /\ status = "s"
      /\ pc' = IF unsorted = Inputs THEN "finish" ELSE "solve"
      /\ sorted' = Inputs \ (unsorted \cup units)
      /\ mode # "core_static" /\ disjoint
  BY DEF IInv, Control, DisjointEnd
<1>2. /\ models' = models /\ config' = config /\ lb' = lb /\ lb_map' = lb_map
      /\ unsorted' = unsorted /\ units' = units /\ copies' = copies /\ status' = status
      /\ feasible' = feasible /\ mode' = mode /\ disjoint' = disjoint /\ Seen' = Seen
  BY DEF DisjointEnd, feasible, mode, disjoint, Seen
<1>3. PICK m \in Without(unsorted) : best' = BestOf(Values(m), best)
  BY <1>1, NAssumption DEF DisjointEnd, Assumed
<1>4. m \in models /\ m \cap unsorted = {} /\ best' \in feasible /\ best' \in Vector
  BY <1>1, <1>3, HeldFeasible DEF Without
<1>5. Types'
  BY <1>1, <1>2, <1>4, Objectives, NAssumption DEF Types
<1>6. \A v \in feasible, j \in Obj : lb[j] <= Maximum(v, j)
  BY <1>1, BoundsOfAll DEF Current
<1>7. ASSUME pc' = "finish" PROVE Optimal(best', feasible)
  <2>1. m = {}
    BY <1>1, <1>4, <1>7 DEF Types
  <2>2. Values(m) \in feasible /\ Values(m) \in Vector
    BY <1>1, <1>4, ModelVector
  <2>3. \A j \in Obj : Values(m)[j] <= 0
    <3> TAKE j \in Obj
    <3>1. Of(m, j) = {}
      BY <2>1 DEF Of
    <3>2. Cardinality(Of(m, j)) = 0
      BY <3>1, FS_EmptySet, Zenon
    <3> QED  BY <3>2 DEF Values
  <2>4. ASSUME NEW u \in feasible, Better(u, Values(m)) PROVE FALSE
    <3>1. PICK a \in Obj : Maximum(u, a) < Maximum(Values(m), a)
      BY <2>4 DEF Better
    <3>2. 0 \in Value /\ u \in Vector /\ a \in Nat
      BY <1>1, FeasibleVector, Objectives, SizeAssumption DEF Value
    <3>3. Maximum(Values(m), a) <= 0
      BY <2>2, <2>3, <3>2, MaximumBound
    <3>4. Maximum(u, a) \in Int /\ Maximum(u, a) >= 0 /\ Maximum(Values(m), a) \in Int
      BY <2>2, <3>2, MaximumValue
    <3> QED  BY <3>1, <3>3, <3>4
  <2>5. Optimal(Values(m), feasible)
    BY <2>2, <2>4 DEF Optimal
  <2> QED  BY <1>1, <1>3, <2>2, <2>5, HeldOptimal
<1>8. Control' /\ Reached' /\ VerdictSound'
  BY <1>1, <1>2, <1>4, <1>7 DEF Control, Reached, VerdictSound
<1>9. Built'
  BY <1>1, <1>2 DEF Built, Seen, Types
<1>10. NoCoreLeft'
  BY <1>2, <1>3 DEF NoCoreLeft, Without
<1>11. Cores'
  BY <1>1, <1>2 DEF Cores
<1>12. Bounds' /\ Settled'
  BY <1>2, <1>6 DEF Bounds, Settled
<1>13. Fit'
  <2>1. Net' = Seen /\ Seen \subseteq Inputs
    BY <1>1, <1>2 DEF Net, Seen, Types
  <2>2. Width' \in Value /\ \A j \in Obj : Cardinality(Of(Seen, j)) <= Width'
    <3>1. Width' \in Value /\ \A j \in Obj : Cardinality(Of(Net', j)) <= Width'
      BY <1>5, NextWidthDef
    <3> QED  BY <2>1, <3>1, Zenon
  <2>3. Values(Seen) \in Vector /\ \A j \in Obj : Values(Seen)[j] <= Width'
    BY <2>1, <2>2, ValuesVector
  <2>4. Maximum(Values(Seen), 0) <= Width' /\ Maximum(Values(Seen), 0) \in Int
    BY <2>2, <2>3, MaximumBound, MaximumValue
  <2>5. \A j \in Obj : lb[j] <= Maximum(Values(Seen), 0) /\ lb[j] \in Int
    BY <1>1, SizeAssumption DEF Fit, Types, Value
  <2>6. \A j \in Obj : lb[j] <= Width'
    BY <2>2, <2>4, <2>5, SizeAssumption DEF Value
  <2> QED  BY <1>1, <1>2, <2>6 DEF Fit
<1> QED  BY <1>5, <1>8, <1>9, <1>10, <1>11, <1>12, <1>13 DEF IInv

LEMMA SolveSatInv == IInv /\ SolveSat => IInv'
<1> SUFFICES ASSUME IInv, SolveSat PROVE IInv'
  OBVIOUS
<1>1. /\ Types /\ Control /\ Built /\ NoCoreLeft /\ Cores /\ Bounds /\ Fit
      /\ pc = "solve" /\ Searching /\ i \in Obj /\ i \in Nat
      /\ best \in feasible /\ status = "s"
  BY Objectives DEF IInv, Control, SolveSat, Searching, Types
<1>2. /\ models' = models /\ config' = config /\ lb' = lb /\ lb_map' = lb_map
      /\ unsorted' = unsorted /\ units' = units /\ sorted' = sorted /\ copies' = copies
      /\ status' = status
      /\ feasible' = feasible /\ mode' = mode /\ disjoint' = disjoint /\ Seen' = Seen
      /\ Width' = Width
  BY DEF SolveSat, feasible, mode, disjoint, Seen, Width, Wires
<1>3. PICK m \in CoreGuidedModels : best' = BestOf(Values(m), best)
  BY DEF SolveSat
<1>4. m \in Without(unsorted) /\ m \in models /\ Within(Values(m), i+1)
  BY <1>1, ModelWithin
<1>5. best' \in feasible /\ best' \in Vector
  BY <1>1, <1>3, <1>4, HeldFeasible
<1>6. \/ i = N-1 /\ pc' = "finish" /\ i' = i
      \/ i # N-1 /\ pc' = "solve" /\ i' = i+1
  BY <1>1 DEF SolveSat
<1>7. i' \in Obj /\ i' \in 0 .. N
  BY <1>1, <1>6, NAssumption DEF Obj
<1>8. Types'
  BY <1>1, <1>2, <1>5, <1>6, <1>7 DEF Types
<1>9. ASSUME pc' = "finish" PROVE Optimal(best', feasible)
  <2>1. i+1 = N
    BY <1>6, <1>9, NAssumption
  <2>2. Values(m) \in feasible /\ Within(Values(m), N)
    BY <1>1, <1>4, <2>1, ModelVector
  <2>3. Optimal(Values(m), feasible)
    BY <1>1, <2>2, WithinOptimal
  <2> QED  BY <1>1, <1>3, <2>2, <2>3, HeldOptimal
<1>10. Control' /\ NoCoreLeft' /\ VerdictSound'
  BY <1>1, <1>2, <1>5, <1>6, <1>9 DEF Control, NoCoreLeft, VerdictSound, Without
<1>11. Built' /\ Cores' /\ Fit'
  BY <1>1, <1>2, <1>6 DEF Built, Cores, Fit
<1>12. \A v, n : Within(v, n)' <=> Within(v, n)
  BY <1>2 DEF Within
<1>13. Bounds'
  <2>1. Current = i /\ Current' \in {i, i+1}
    BY <1>1, <1>6 DEF Current
  <2>2. ASSUME NEW j \in Obj, j > Current' PROVE j > Current
    BY <1>1, <2>1, <2>2, Objectives
  <2> QED  BY <1>1, <1>2, <1>12, <2>2 DEF Bounds
<1>14. Reached'
  BY <1>2, <1>4, <1>6, <1>12 DEF Reached, Without
<1>15. Settled'
  BY <1>2, BoundsOptimal DEF Settled
<1> QED  BY <1>8, <1>10, <1>11, <1>13, <1>14, <1>15 DEF IInv

LEMMA InnerSatInv == IInv /\ InnerSat => IInv'
<1> SUFFICES ASSUME IInv, InnerSat PROVE IInv'
  OBVIOUS
<1>1. /\ Types /\ Control /\ Built /\ NoCoreLeft /\ Cores /\ Bounds /\ Reached /\ Fit
      /\ pc = "inner" /\ Searching /\ best \in feasible /\ status = "s" /\ disjoint
  BY DEF IInv, Control, InnerSat, Searching
<1>2. /\ models' = models /\ config' = config /\ lb' = lb /\ lb_map' = lb_map
      /\ unsorted' = unsorted /\ units' = units /\ i' = i
      /\ status' = status /\ pc' = "solve"
      /\ feasible' = feasible /\ mode' = mode /\ disjoint' = disjoint /\ Seen' = Seen
  BY DEF InnerSat, feasible, mode, disjoint, Seen
<1>3. best' \in feasible /\ best' \in Vector
  BY <1>1, HeldFeasible DEF InnerSat, CoreGuidedModels, Without
<1>4. /\ copies' = [j \in Obj |-> 1]
      /\ mode = "core_static" => sorted' = sorted /\ sorted' = Inputs
      /\ mode # "core_static" => sorted' = Inputs \ (unsorted \cup units)
  BY <1>1, NetworksDef DEF InnerSat, Built
<1>5. /\ sorted' \subseteq Inputs \ units' /\ sorted \subseteq sorted'
      /\ Seen \subseteq sorted' \cup units
  BY <1>1, <1>2, <1>4 DEF Types, Built, Seen
<1>6. Types'
  BY <1>1, <1>2, <1>3, <1>4, <1>5 DEF Types
<1>7. Control' /\ NoCoreLeft' /\ Settled' /\ VerdictSound'
  BY <1>1, <1>2, <1>3 DEF Control, NoCoreLeft, Settled, VerdictSound, Without
<1>8. Built'
  BY <1>1, <1>2, <1>4, <1>5 DEF Built, Seen
<1>9. Cores'
  BY <1>1, <1>2 DEF Cores
<1>10. \A v, n : Within(v, n)' <=> Within(v, n)
  BY <1>2 DEF Within
<1>11. Bounds' /\ Reached'
  <2>1. Current' = i /\ Current = i
    BY <1>1, <1>2 DEF Current
  <2> QED  BY <1>1, <1>2, <1>10, <2>1 DEF Bounds, Reached, Without
<1>12. Fit'
  <2>1. Net \subseteq Net'
    BY <1>2, <1>5 DEF Net
  <2>2. Width <= Width' /\ Width \in Int /\ Width' \in Int
    BY <1>1, <1>6, <2>1, WidthGrows, WidthDef, NextWidthDef, SizeAssumption DEF Value
  <2>3. \A j \in Obj : lb[j] <= Width /\ lb[j] \in Int
    BY <1>1, SizeAssumption DEF Fit, Types, Value
  <2> QED  BY <1>2, <2>2, <2>3 DEF Fit
<1> QED  BY <1>6, <1>7, <1>8, <1>9, <1>11, <1>12 DEF IInv

LEMMA IncreaseLbInv == IInv /\ IncreaseLb => IInv'
<1> SUFFICES ASSUME IInv, IncreaseLb PROVE IInv'
  OBVIOUS
<1>1. /\ Types /\ Control /\ Built /\ NoCoreLeft /\ Cores /\ Bounds /\ Reached /\ Fit
      /\ Searching /\ i \in Obj /\ i \in Nat
  BY Objectives DEF IInv, IncreaseLb, Searching, Types
<1>2. /\ models' = models /\ config' = config /\ lb_map' = lb_map /\ best' = best
      /\ unsorted' = unsorted /\ units' = units /\ sorted' = sorted /\ copies' = copies
      /\ status' = status /\ i' = i
      /\ feasible' = feasible /\ mode' = mode /\ disjoint' = disjoint /\ Seen' = Seen
      /\ Width' = Width
  BY DEF IncreaseLb, feasible, mode, disjoint, Seen, Width, Wires
<1>3. PICK k \in Cap(i) .. Width, before \in BOOLEAN :
        /\ IsCore({}, k, before)
        /\ IF k = Width THEN pc' = "exit" /\ UNCHANGED lb
           ELSE lb' = [lb EXCEPT ![i] = k + 1] /\ UNCHANGED pc
  BY DEF IncreaseLb
<1>4. /\ k \in Value /\ Width \in Value /\ k \in Int /\ Width \in Int
      /\ lb[i] \in Int /\ lb[i] <= k
  BY <1>1, <1>3, CapDef, WidthDef, SizeAssumption DEF Value
<1>5. k < Width /\ \A v \in feasible : Within(v, i) => k+1 <= Maximum(v, i)
  BY <1>1, <1>3, <1>4, CoreBound
<1>6. lb' = [lb EXCEPT ![i] = k + 1] /\ pc' = pc /\ k + 1 \in Value
  BY <1>3, <1>4, <1>5, SizeAssumption DEF Value
<1>7. lb' \in [Obj -> Value] /\ lb'[i] = k+1 /\ \A j \in Obj : j # i => lb'[j] = lb[j]
  BY <1>1, <1>6 DEF Types
<1>8. Types'
  BY <1>1, <1>2, <1>6, <1>7 DEF Types
<1>9. Control' /\ Built' /\ NoCoreLeft' /\ Settled' /\ VerdictSound'
  BY <1>1, <1>2, <1>6
  DEF Control, Built, NoCoreLeft, Settled, VerdictSound, Searching, Without, IInv
<1>10. Cores'
  BY <1>1, <1>2 DEF Cores
<1>11. \A j \in 0 .. i-1 : lb'[j] = lb[j]
  BY <1>1, <1>7, NAssumption DEF Obj
<1>12. /\ \A v, n : Within(v, n)' <=> \A m \in 0 .. n-1 : Maximum(v, m) <= lb'[m]
       /\ \A v : Within(v, i)' <=> Within(v, i)
       /\ \A v : Within(v, i) <=> \A m \in 0 .. i-1 : Maximum(v, m) <= lb'[m]
  BY <1>2, <1>11 DEF Within
<1>13. Reached'
  BY <1>1, <1>2, <1>6, <1>12 DEF Reached, Without
<1>14. ASSUME NEW v \in feasible, NEW j \in Obj,
              j > i \/ \A m \in 0 .. j-1 : Maximum(v, m) <= lb'[m]
       PROVE  lb'[j] <= Maximum(v, j)
  <2>1. Current = i /\ j \in Nat
    BY <1>1, Objectives DEF Current, Searching
  <2>2. CASE j > i
    BY <1>1, <1>7, <2>1, <2>2 DEF Bounds
  <2>3. CASE j = i
    <3>1. \A m \in 0 .. i-1 : Maximum(v, m) <= lb'[m]
      BY <1>1, <1>14, <2>3
    <3>2. Within(v, i)
      BY <1>12, <3>1
    <3> QED  BY <1>5, <1>7, <2>3, <3>2
  <2>4. CASE j < i
    <3>1. Within(v, j)
      BY <1>1, <1>11, <1>14, <2>1, <2>4 DEF Within
    <3> QED  BY <1>1, <1>7, <2>4, <3>1 DEF Bounds
  <2> QED  BY <1>1, <2>1, <2>2, <2>3, <2>4
<1>15. Bounds'
  <2>1. Current' = i
    BY <1>1, <1>2, <1>6 DEF Current, Searching
  <2> QED  BY <1>2, <1>12, <1>14, <2>1 DEF Bounds
<1>16. Fit'
  BY <1>1, <1>2, <1>4, <1>5, <1>6, <1>7 DEF Fit, Searching
<1> QED  BY <1>8, <1>9, <1>10, <1>13, <1>15, <1>16 DEF IInv

LEMMA FinishInv == IInv /\ Finish => IInv'
<1> SUFFICES ASSUME IInv, Finish PROVE IInv'
  OBVIOUS
<1>1. /\ Types /\ Control /\ Built /\ Cores /\ Bounds /\ Settled
      /\ pc = "finish" /\ pc' = "done" /\ status' = "o"
      /\ best \in feasible /\ Optimal(best, feasible)
  BY DEF IInv, Control, Finish
<1>2. /\ models' = models /\ config' = config /\ lb' = lb /\ lb_map' = lb_map
      /\ best' = best /\ i' = i
      /\ unsorted' = unsorted /\ units' = units /\ sorted' = sorted /\ copies' = copies
      /\ feasible' = feasible /\ mode' = mode /\ disjoint' = disjoint /\ Seen' = Seen
  BY DEF Finish, feasible, mode, disjoint, Seen
<1>3. Types' /\ Control' /\ Built' /\ NoCoreLeft' /\ Reached' /\ Settled' /\ Fit'
      /\ VerdictSound'
  BY <1>1, <1>2
  DEF Types, Control, Built, NoCoreLeft, Reached, Settled, Fit, VerdictSound
<1>4. Cores'
  BY <1>1, <1>2 DEF Cores
<1>5. Bounds'
  <2>1. \A v, n : Within(v, n)' <=> Within(v, n)
    BY <1>2 DEF Within
  <2>2. Current' = Current
    BY <1>1, <1>2 DEF Current
  <2> QED  BY <1>1, <1>2, <2>1, <2>2 DEF Bounds
<1> QED  BY <1>3, <1>4, <1>5 DEF IInv

(* The cores counted do not meet the inputs that remain assumed.           *)
LEMMA CoresShrink ==
  ASSUME Types, Cores, NEW C \in SUBSET unsorted, NEW D \in models \cup {Inputs},
         NEW S \in Sets
  PROVE  lb_map[S] <= Cardinality(OfAny(D \ (unsorted \ C), S))
<1> DEFINE A == OfAny(D \ unsorted, S)
           B == OfAny(D \ (unsorted \ C), S)
<1>1. D \subseteq Inputs
  BY DEF Types
<1>2. B \in SUBSET Inputs /\ A \in SUBSET B
  BY <1>1 DEF OfAny
<1>3. IsFiniteSet(B) /\ IsFiniteSet(A) /\ Cardinality(A) <= Cardinality(B)
  BY <1>2, InputsAssumption, FS_Subset
<1>4. Cardinality(A) \in Nat /\ Cardinality(B) \in Nat /\ lb_map[S] \in Nat
  BY <1>3, FS_CardinalityType DEF Types
<1>5. lb_map[S] <= Cardinality(A)
  BY DEF Cores
<1> QED  BY <1>3, <1>4, <1>5

LEMMA NewInputsInv == IInv /\ NewInputs => IInv'
<1> SUFFICES ASSUME IInv, NewInputs PROVE IInv'
  OBVIOUS
<1>1. /\ Types /\ Control /\ Built /\ NoCoreLeft /\ Cores /\ Bounds /\ Reached /\ Fit
      /\ Searching /\ i \in Obj /\ i \in Nat /\ status = "s" /\ best \in feasible
  BY Objectives DEF IInv, NewInputs, Searching, Types, Control
<1>2. /\ models' = models /\ config' = config /\ best' = best
      /\ units' = units /\ status' = status /\ i' = i
      /\ feasible' = feasible /\ mode' = mode /\ disjoint' = disjoint
  BY DEF NewInputs, feasible, mode, disjoint
<1>3. PICK C \in (SUBSET unsorted) \ {{}}, k \in Cap(i) .. Width, before \in BOOLEAN :
        /\ IsCore(C, k, before)
        /\ lb_map' = IF HasMaxVar(k, before) THEN lb_map ELSE AddCore(C)
        /\ lb' = IF HasMaxVar(k, before) THEN lb ELSE LowerBounds(i, lb_map')
        /\ unsorted' = unsorted \ C
  BY DEF NewInputs
<1>4. C \in SUBSET unsorted /\ Seen' = Inputs \ (unsorted \ C)
  BY <1>3 DEF Seen
<1>5. /\ copies' = [j \in Obj |-> 1]
      /\ mode = "core_static" => sorted' = sorted /\ sorted' = Inputs
      /\ mode # "core_static" /\ disjoint => sorted' = sorted
      /\ mode # "core_static" /\ ~ disjoint => sorted' = Inputs \ (unsorted' \cup units)
      /\ disjoint => pc' = "inner"
      /\ ~ disjoint => pc' = "solve" /\ units = {}
  BY <1>1, NetworksDef DEF NewInputs, Built, Types, Control, Searching
<1>6. /\ sorted' \subseteq Inputs \ units' /\ sorted \subseteq sorted'
      /\ mode = "core_static" \/ ~ disjoint => Seen' \subseteq sorted' \cup units'
      /\ mode # "core_static" => sorted' \subseteq Seen'
  BY <1>1, <1>2, <1>3, <1>5 DEF Types, Built, Seen
<1>7. Without(unsorted) \subseteq Without(unsorted')
  BY <1>3 DEF Without
<1>8. /\ lb_map' \in [Sets -> Nat] /\ lb' \in [Obj -> Value]
      /\ \A D \in models \cup {Inputs}, S \in Sets :
           lb_map'[S] <= Cardinality(OfAny(D \ unsorted', S))
      /\ \/ lb' = lb
         \/ /\ i = 0 /\ ~ (disjoint /\ mode # "core_static")
            /\ \A v \in feasible, j \in Obj : lb'[j] <= Maximum(v, j)
            /\ \A j \in Obj : lb'[j] <= lb[j] \/ lb'[j] <= Maximum(Values(Seen'), j)
  <2>1. CASE HasMaxVar(k, before)
    <3>1. lb_map' = lb_map /\ lb' = lb
      BY <1>3, <2>1
    <3> QED  BY <1>1, <1>3, <1>4, <3>1, CoresShrink DEF Types
  <2>2. CASE ~ HasMaxVar(k, before)
    <3>1. lb_map' = AddCore(C) /\ lb' = LowerBounds(i, lb_map')
      BY <1>3, <2>2
    <3>2. i = 0 /\ Without(C) = {} /\ ~ (disjoint /\ mode # "core_static")
      BY <1>1, <1>3, <1>4, <2>2, InputCore
    <3>3. lb' = LowerBounds(0, AddCore(C))
      BY <3>1, <3>2
    <3>4. Current = 0 /\ models # {}
      BY <1>1, <3>2 DEF Current, feasible
    <3> QED  BY <1>1, <1>3, <1>4, <3>1, <3>2, <3>3, <3>4, BoundsOfAll, NewCore
  <2> QED  BY <2>1, <2>2
<1>9. Types'
  <2>1. unsorted' \subseteq Inputs /\ units' \subseteq Inputs \ unsorted'
    BY <1>1, <1>2, <1>3 DEF Types
  <2>2. pc' \in {"solve", "inner"} /\ best' \in Vector \cup {NoVector}
    BY <1>1, <1>2, <1>5 DEF Types
  <2> QED  BY <1>1, <1>2, <1>5, <1>6, <1>8, <2>1, <2>2 DEF Types
<1>10. Control' /\ NoCoreLeft' /\ Settled' /\ VerdictSound'
  <2>1. NoCoreLeft'
    BY <1>1, <1>2, <1>7 DEF NoCoreLeft, Searching, Without
  <2> QED  BY <1>1, <1>2, <1>5, <2>1 DEF Control, Settled, VerdictSound
<1>11. Built'
  BY <1>1, <1>2, <1>5, <1>6 DEF Built
<1>12. Cores'
  BY <1>2, <1>8 DEF Cores
<1>13. Bounds' /\ Reached'
  <2>1. Current' = i /\ Current = i
    BY <1>1, <1>2, <1>5 DEF Current, Searching
  <2>2. CASE lb' = lb
    <3>1. \A v, n : Within(v, n)' <=> Within(v, n)
      BY <2>2 DEF Within
    <3>2. Bounds'
      BY <1>1, <1>2, <2>1, <2>2, <3>1 DEF Bounds
    <3>3. Reached'
      BY <1>1, <1>2, <1>7, <3>1 DEF Reached, Searching, Without
    <3> QED  BY <3>2, <3>3
  <2>3. CASE lb' # lb
    BY <1>2, <1>8, <2>3 DEF Bounds, Reached
  <2> QED  BY <2>2, <2>3
<1>14. Fit'
  <2>1. Net \subseteq Net'
    BY <1>2, <1>6 DEF Net
  <2>2. Width <= Width' /\ Width \in Int /\ Width' \in Int /\ Width' \in Value
    BY <1>1, <1>9, <2>1, WidthGrows, WidthDef, NextWidthDef, SizeAssumption DEF Value
  <2>3. \A j \in Obj : lb[j] <= Width /\ lb[j] \in Int /\ lb'[j] \in Int
    BY <1>1, <1>8, SizeAssumption DEF Fit, Types, Value, Searching
  <2>4. \A j \in Obj : lb[j] <= Width'
    BY <2>2, <2>3
  <2>5. CASE lb' = lb
    BY <1>5, <2>4, <2>5 DEF Fit
  <2>6. CASE lb' # lb
    <3> DEFINE u == Values(Seen')
    <3>1. Seen' \subseteq Net' /\ Net' \subseteq Inputs /\ Seen' \subseteq Inputs
      BY <1>6, <1>8, <1>9, <2>6 DEF Net, Seen, Types
    <3>2. u \in Vector /\ \A j \in Obj : u[j] <= Width'
      <4> SUFFICES ASSUME NEW j \in Obj PROVE u[j] <= Width'
        BY <3>1, ValuesVector
      <4>1. Cardinality(Of(Net', j)) <= Width'
        BY <1>9, NextWidthDef
      <4>2. Cardinality(Of(Seen', j)) <= Cardinality(Of(Net', j))
        BY <3>1, OfMonotone
      <4>3. Cardinality(Of(Seen', j)) \in Int /\ Cardinality(Of(Net', j)) \in Int
        BY <3>1, OfCount, SizeAssumption DEF Value
      <4> QED  BY <2>2, <3>1, <4>1, <4>2, <4>3, ValuesVector
    <3> HIDE DEF u
    <3>3. \A j \in Obj : Maximum(u, j) <= Width' /\ Maximum(u, j) \in Int
      BY <2>2, <3>2, Objectives, MaximumBound, MaximumValue
    <3>4. \A j \in Obj : lb'[j] <= lb[j] \/ lb'[j] <= Maximum(u, j)
      BY <1>8, <2>6 DEF u
    <3>5. \A j \in Obj : lb'[j] <= Width'
      BY <2>2, <2>3, <2>4, <3>3, <3>4
    <3> QED  BY <1>5, <3>5 DEF Fit
  <2> QED  BY <2>5, <2>6
<1> QED  BY <1>9, <1>10, <1>11, <1>12, <1>13, <1>14 DEF IInv

-----------------------------------------------------------------------------
(***************************************************************************)
(* IInv holds throughout every run of optimise: the bounds of lb_map and   *)
(* of increase_lb, the networks and the current maximum stay together.     *)
(***************************************************************************)
THEOREM CoreGuidedInvariance == Spec => []IInv
<1>1. IInv /\ [Next]_vars => IInv'
  <2> SUFFICES ASSUME IInv, [Next]_vars PROVE IInv'
    OBVIOUS
  <2>1. CASE UNCHANGED vars
    <3>1. /\ models' = models /\ config' = config /\ lb' = lb /\ lb_map' = lb_map
          /\ best' = best /\ i' = i /\ pc' = pc /\ status' = status
          /\ unsorted' = unsorted /\ units' = units /\ sorted' = sorted /\ copies' = copies
      BY <2>1 DEF vars
    <3>2. /\ feasible' = feasible /\ mode' = mode /\ disjoint' = disjoint /\ Seen' = Seen
          /\ Width' = Width /\ Current' = Current
          /\ \A v, n : Within(v, n)' <=> Within(v, n)
      BY <3>1 DEF feasible, mode, disjoint, Seen, Width, Wires, Current, Within
    <3>3. Types' /\ Control' /\ Built' /\ NoCoreLeft' /\ Settled' /\ Fit' /\ VerdictSound'
      BY <3>1, <3>2
      DEF IInv, Types, Control, Built, NoCoreLeft, Settled, Fit, VerdictSound, Without
    <3>4. Cores'
      BY <3>1 DEF IInv, Cores
    <3>5. Bounds' /\ Reached'
      BY <3>1, <3>2 DEF IInv, Bounds, Reached, Without
    <3> QED  BY <3>3, <3>4, <3>5 DEF IInv
  <2> QED  BY <2>1, CheckSatInv, DisjointSatInv, DisjointUnsatInv, DisjointEndInv,
              SolveSatInv, InnerSatInv, IncreaseLbInv, NewInputsInv, FinishInv DEF Next
<1> QED  BY <1>1, InitInv, PTL DEF Spec

(* The variables keep their types: no bound leaves the range of the        *)
(* objectives, and lb_map counts no more cores than there are inputs.      *)
THEOREM CoreGuidedTypes == Spec => []TypeOK
<1>1. IInv => TypeOK
  <2> SUFFICES ASSUME IInv PROVE TypeOK
    OBVIOUS
  <2>1. Types /\ Cores
    BY DEF IInv
  <2>2. Cardinality(Inputs) \in Nat
    BY InputsAssumption, FS_CardinalityType
  <2>3. ASSUME NEW S \in Sets PROVE lb_map[S] \in 0 .. Cardinality(Inputs)
    <3> DEFINE A == OfAny(Inputs \ unsorted, S)
    <3>1. A \in SUBSET Inputs
      BY DEF OfAny
    <3>2. IsFiniteSet(A) /\ Cardinality(A) <= Cardinality(Inputs)
      BY <3>1, InputsAssumption, FS_Subset
    <3>3. Cardinality(A) \in Nat /\ lb_map[S] \in Nat
      BY <2>1, <3>2, FS_CardinalityType DEF Types
    <3>4. lb_map[S] <= Cardinality(A)
      BY <2>1 DEF Cores
    <3> HIDE DEF A
    <3> QED  BY <2>2, <3>2, <3>3, <3>4
  <2>4. lb_map \in [Sets -> 0 .. Cardinality(Inputs)]
    BY <2>1, <2>3 DEF Types
  <2> QED  BY <2>1, <2>4 DEF TypeOK, Types, Sets
<1> QED  BY <1>1, CoreGuidedInvariance, PTL

(* increase_lb never takes its error exit: every core without inputs has a *)
(* variable of the maximum that is being minimised.                        *)
THEOREM NoErrorExit == Spec => [](pc # "exit")
<1>1. IInv => pc # "exit"
  BY DEF IInv, Types
<1> QED  BY <1>1, CoreGuidedInvariance, PTL

(* No core-guided bound ever exceeds the maximum it bounds, in any         *)
(* leximax-optimal solution.                                               *)
THEOREM BoundsCorrect == Spec => []LowerBoundsSound
<1>1. IInv => LowerBoundsSound
  BY BoundsOptimal DEF LowerBoundsSound
<1> QED  BY <1>1, CoreGuidedInvariance, PTL

(* In the main loop the networks count all inputs that are not assumed     *)
(* false, each of them once.                                               *)
THEOREM CountsCorrect == Spec => []NoInputLost
<1>1. IInv => NoInputLost
  <2> SUFFICES ASSUME IInv, pc = "solve"
               PROVE  /\ Inputs = sorted \cup unsorted \cup units
                      /\ \A m \in Without(unsorted) : Outputs(m) = Values(m)
    BY DEF NoInputLost
  <2>1. Types /\ Built
    BY DEF IInv
  <2>2. Inputs = sorted \cup unsorted \cup units
    BY <2>1 DEF Types, Built, Seen
  <2>3. ASSUME NEW m \in Without(unsorted) PROVE Outputs(m) = Values(m)
    <3>1. m \subseteq Inputs /\ m \subseteq Net
      BY <2>1, <2>2 DEF Without, Types, Net
    <3> QED  BY <2>1, <3>1, OutputsDef
  <2> QED  BY <2>2, <2>3
<1> QED  BY <1>1, CoreGuidedInvariance, PTL

(* The unsigned subtraction of gen_assumps never wraps: every bound is at  *)
(* most the number of the max variables.                                   *)
THEOREM FitCorrect == Spec => []BoundsFit
<1>1. IInv => BoundsFit
  <2> SUFFICES ASSUME IInv, pc \in {"solve", "inner"}, NEW n \in 0 .. i PROVE lb[n] <= Width
    BY DEF BoundsFit
  <2>1. n \in Obj
    BY NAssumption DEF IInv, Types, Obj
  <2> QED  BY <2>1 DEF IInv, Fit
<1> QED  BY <1>1, CoreGuidedInvariance, PTL

(* After the first maximum some model has the bounds found, and all inputs *)
(* that are not sorted false in it.                                        *)
THEOREM PrefixReachableCorrect == Spec => []PrefixReachable
<1>1. IInv => PrefixReachable
  BY PrefixModel DEF PrefixReachable, Searching
<1> QED  BY <1>1, CoreGuidedInvariance, PTL

(* The verdicts are true: "o" comes with a leximax-optimal solution, "u"   *)
(* with a problem that has none.                                           *)
THEOREM CoreGuidedVerdict == Spec => []VerdictSound
BY CoreGuidedInvariance, PTL DEF IInv

(* The order of LeximaxSpec is that of CoreGuided.                         *)
LEMMA SameOrder ==
  /\ \A u, v : Promise!Better(u, v) <=> Better(u, v)
  /\ \A v, F : Promise!Optimal(v, F) <=> Optimal(v, F)
<1>1. \A S : Promise!Cardinality(S) = Cardinality(S)
  BY DEF Promise!Cardinality, Cardinality
<1>2. \A v, n, k : Promise!AtMostAbove(v, n, k) <=> AtMostAbove(v, n, k)
  BY <1>1 DEF Promise!AtMostAbove, AtMostAbove, Promise!Above, Above, Promise!Obj, Obj
<1>3. \A v, n : Promise!Maximum(v, n) = Maximum(v, n)
  BY <1>2 DEF Promise!Maximum, Maximum, Promise!Value, Value
<1>4. \A u, v : Promise!Better(u, v) <=> Better(u, v)
  BY <1>3 DEF Promise!Better, Better, Promise!SameMaxima, SameMaxima, Promise!Obj, Obj
<1>5. \A v, F : Promise!Optimal(v, F) <=> Optimal(v, F)
  BY <1>4 DEF Promise!Optimal, Optimal
<1> QED  BY <1>4, <1>5

(* The core-guided algorithms keep the promise of LeximaxSpec: they hold a *)
(* solution that only gets better, and stop with a true verdict.           *)
THEOREM CoreGuidedRefinement == Spec => Implements
<1>1. /\ \A u, v : Promise!Better(u, v) <=> Better(u, v)
      /\ \A v, F : Promise!Optimal(v, F) <=> Optimal(v, F)
  BY SameOrder
<1>2. Init => Promise!SpecInit
  BY DEF Init, Promise!SpecInit, feasible
<1>3. IInv /\ [Next]_vars => [Promise!SpecNext]_(Promise!svars)
  <2> SUFFICES ASSUME IInv, [Next]_vars PROVE [Promise!SpecNext]_(Promise!svars)
    OBVIOUS
  <2>1. CASE CheckSat
    <3>1. feasible' = feasible /\ (models = {} => feasible = {})
      BY <2>1 DEF CheckSat, feasible
    <3> QED  BY <2>1, <3>1 DEF IInv, Control, CheckSat, Promise!SpecNext, Promise!Refute,
               Promise!Find
  <2>2. ASSUME NEW m \in models, best' = BestOf(Values(m), best), models' = models,
               status = "s", status' = status, best \in feasible
        PROVE  [Promise!SpecNext]_(Promise!svars)
    <3>1. feasible' = feasible /\ Values(m) \in feasible
      BY <2>2 DEF feasible
    <3>2. CASE Better(Values(m), best)
      BY <1>1, <2>2, <3>1, <3>2 DEF BestOf, Promise!SpecNext, Promise!Improve
    <3>3. CASE ~ Better(Values(m), best)
      BY <2>2, <3>1, <3>3 DEF BestOf, Promise!svars
    <3> QED  BY <3>2, <3>3
  <2>3. CASE DisjointSat \/ DisjointEnd \/ SolveSat \/ InnerSat
    <3>1. models' = models /\ status' = status /\ status = "s" /\ best \in feasible
      BY <2>3 DEF IInv, Control, DisjointSat, DisjointEnd, SolveSat, InnerSat
    <3>2. \E m \in models : best' = BestOf(Values(m), best)
      BY <2>3 DEF DisjointSat, DisjointEnd, SolveSat, InnerSat, CoreGuidedModels, Without
    <3> QED  BY <2>2, <3>1, <3>2
  <2>4. CASE Finish
    <3>1. /\ status = "s" /\ Optimal(best, feasible) /\ best' = best /\ status' = "o"
          /\ feasible' = feasible
      BY <2>4 DEF IInv, Control, Finish, feasible
    <3> QED  BY <1>1, <3>1 DEF Promise!SpecNext, Promise!Conclude
  <2>5. CASE DisjointUnsat \/ IncreaseLb \/ NewInputs \/ UNCHANGED vars
    <3>1. models' = models /\ status' = status /\ best' = best
      BY <2>5 DEF DisjointUnsat, IncreaseLb, NewInputs, vars
    <3> QED  BY <3>1 DEF feasible, Promise!svars
  <2> QED  BY <2>1, <2>3, <2>4, <2>5 DEF Next
<1>4. Spec => Promise!AbstractSpec
  BY <1>2, <1>3, CoreGuidedInvariance, PTL DEF Spec, Promise!AbstractSpec
<1> QED  BY <1>4 DEF Implements

-----------------------------------------------------------------------------
(* The enumeration of maximal satisfiable subsets *)

MssTypes ==
  /\ models \subseteq SUBSET Inputs
  /\ best \in Vector \cup {NoVector}
  /\ options \in MssOptions
  /\ pc \in {"start", "enumerate", "search", "complete", "stopped"}
  /\ mss \subseteq Inputs /\ todo \subseteq Inputs /\ mss \cap todo = {}

MssControl ==
  /\ pc = "start" => best = NoVector /\ blocked = {}
  /\ pc # "start" /\ models # {} => best \in Vector
  /\ pc \in {"enumerate", "search"} => models # {}

(***************************************************************************)
(* During a search some model of the subset has been seen, so that the     *)
(* solution held is as good; and the inputs that are neither in the subset *)
(* nor to be tried are true in all its models.                             *)
(***************************************************************************)
Search ==
  pc = "search" =>
    /\ \E m \in Satisfying(mss) : best_max <= Largest(Values(m))
    /\ \A m \in Satisfying(mss) : Inputs \ (mss \cup todo) \subseteq m

MssIInv == MssTypes /\ MssControl /\ Search /\ FirstMaximumKept

-----------------------------------------------------------------------------
(* Counting inputs.                                                        *)
LEMMA LeastDef ==
  ASSUME NEW S, S \subseteq Nat, S # {}
  PROVE  Least(S) \in S
BY LeastElement DEF Least

(* The largest value is the first maximum.                                 *)
LEMMA LargestDef ==
  ASSUME NEW v \in Vector
  PROVE  /\ Largest(v) = Maximum(v, 0) /\ Largest(v) \in Value /\ Largest(v) \in Int
         /\ \A j \in Obj : v[j] <= Largest(v)
         /\ \E j \in Obj : v[j] = Largest(v)
<1> DEFINE S == {v[j] : j \in Obj}
<1>1. S \subseteq Value /\ S # {}
  BY Objectives DEF Vector
<1>2. Largest(v) \in S /\ \A b \in S : b <= Largest(v)
  <2> HIDE DEF S
  <2>1. Most(S) \in S /\ \A b \in S : b <= Most(S)
    BY <1>1, MostDef
  <2> QED  BY <2>1 DEF Largest, S
<1>3. PICK j \in Obj : v[j] = Largest(v)
  BY <1>2
<1>4. Largest(v) \in Value /\ Maximum(v, 0) \in Value /\ v[j] <= Maximum(v, 0)
  BY <1>1, <1>2, FirstMaximum, MaximumDef
<1>5. Above(v, Largest(v)) = {}
  BY <1>1, <1>2, <1>4, SizeAssumption DEF Above, Value
<1>6. Maximum(v, 0) <= Largest(v)
  BY <1>4, <1>5, FS_EmptySet, EncodingCorrect DEF AtMostAbove
<1> QED  BY <1>2, <1>3, <1>4, <1>6, SizeAssumption DEF Value

(***************************************************************************)
(* The bounds of mss_choose_obj.  The inputs of S are false, those of T    *)
(* are not tried yet: of objective j at most Upper(S, j) inputs are true,  *)
(* and if the others are true, at least those.                             *)
(***************************************************************************)
LEMMA UpperDef ==
  ASSUME NEW S, NEW T, S \subseteq Inputs, T \subseteq Inputs, S \cap T = {}, NEW j \in Obj
  PROVE  /\ Upper(S, j) \in Value /\ Upper(S, j) \in Int
         /\ Cardinality(Of(T, j)) \in Nat
         /\ Upper(S, j) - Cardinality(Of(T, j)) = Cardinality(Of(Inputs \ (S \cup T), j))
         /\ Upper(S, j) - Cardinality(Of(T, j)) \in Nat
<1>1. /\ Of(Inputs \ (S \cup T), j) = Of(Inputs, j) \ (Of(S, j) \cup Of(T, j))
      /\ Of(Inputs, j) \cap (Of(S, j) \cup Of(T, j)) = Of(S, j) \cup Of(T, j)
      /\ Of(S, j) \cap Of(T, j) = {}
  BY DEF Of
<1>2. /\ IsFiniteSet(Of(S, j)) /\ IsFiniteSet(Of(T, j)) /\ IsFiniteSet(Of(Inputs, j))
      /\ Cardinality(Of(S, j)) \in Nat /\ Cardinality(Of(T, j)) \in Nat
      /\ Cardinality(Of(Inputs, j)) \in Value
      /\ Cardinality(Of(S, j)) <= Cardinality(Of(Inputs, j))
  BY OfCount
<1>3. Cardinality(Of(S, j) \cup Of(T, j))
        = Cardinality(Of(S, j)) + Cardinality(Of(T, j)) - Cardinality({})
  BY <1>1, <1>2, FS_Union
<1>4. Cardinality(Of(Inputs \ (S \cup T), j))
        = Cardinality(Of(Inputs, j)) - Cardinality(Of(S, j) \cup Of(T, j))
  BY <1>1, <1>2, FS_Difference
<1>5. Cardinality({}) = 0
  BY FS_EmptySet
<1>6. Inputs \ (S \cup T) \subseteq Inputs /\ Cardinality(Of(Inputs \ (S \cup T), j)) \in Nat
  <2>1. Inputs \ (S \cup T) \subseteq Inputs
    OBVIOUS
  <2> QED  BY <2>1, OfCount
<1> QED  BY <1>2, <1>3, <1>4, <1>5, <1>6, SizeAssumption DEF Upper, Value

LEMMA ModelUpper ==
  ASSUME NEW S, NEW m, S \subseteq Inputs, m \subseteq Inputs, m \cap S = {}, NEW j \in Obj
  PROVE  Values(m)[j] <= Upper(S, j)
<1>1. /\ Values(m)[j] = Cardinality(Of(m, j)) /\ Cardinality(Of(m, j)) \in Nat
  BY ValuesVector, OfCount
<1>2. /\ Upper(S, j) \in Int /\ Cardinality(Of(m, j)) \in Nat
      /\ Upper(S, j) - Cardinality(Of(m, j)) = Cardinality(Of(Inputs \ (S \cup m), j))
  BY UpperDef
<1>3. Cardinality(Of(Inputs \ (S \cup m), j)) \in Nat
  BY OfCount
<1> QED  BY <1>1, <1>2, <1>3

LEMMA ModelLower ==
  ASSUME NEW S, NEW T, NEW m, S \subseteq Inputs, T \subseteq Inputs, S \cap T = {},
         m \subseteq Inputs, Inputs \ (S \cup T) \subseteq m, NEW j \in Obj
  PROVE  Upper(S, j) - Cardinality(Of(T, j)) <= Values(m)[j]
<1>1. Values(m)[j] = Cardinality(Of(m, j)) /\ IsFiniteSet(Of(m, j))
  BY ValuesVector, OfCount
<1>2. Of(Inputs \ (S \cup T), j) \in SUBSET Of(m, j)
  BY DEF Of
<1>3. Cardinality(Of(Inputs \ (S \cup T), j)) <= Cardinality(Of(m, j))
  BY <1>1, <1>2, FS_Subset
<1> QED  BY <1>1, <1>3, UpperDef

-----------------------------------------------------------------------------
(* A model that was seen: the solution held is as good, and it never gets  *)
(* worse.                                                                  *)
LEMMA HoldBest ==
  ASSUME MssTypes, NEW m \in models, Hold(m)
  PROVE  /\ best' \in Vector
         /\ best_max' <= Largest(Values(m))
         /\ best \in Vector => best_max' <= best_max
<1>1. Values(m) \in Vector
  BY ValuesVector DEF MssTypes
<1>2. best_max' = Largest(best') /\ best_max = Largest(best)
  BY DEF best_max
<1>3. CASE best = NoVector
  BY <1>1, <1>2, <1>3, LargestDef, NoVectorAssumption DEF Hold
<1>4. CASE best \in Vector
  <2>1. best' = BestOf(Values(m), best)
    BY <1>4, NoVectorAssumption DEF Hold
  <2>2. best' \in Vector
    BY <1>1, <1>4, <2>1 DEF BestOf
  <2>3. Maximum(best', 0) <= Maximum(best, 0)
    BY <1>1, <1>4, <2>1, HeldFirst
  <2>4. Maximum(best', 0) <= Maximum(Values(m), 0)
    <3>1. Maximum(best, 0) \in Int /\ Maximum(Values(m), 0) \in Int
      BY <1>1, <1>4, MaximumDef, SizeAssumption DEF Value
    <3>2. SameMaxima(Values(m), best, 0)
      BY DEF SameMaxima
    <3>3. CASE Better(Values(m), best)
      BY <2>1, <3>1, <3>3 DEF BestOf
    <3>4. CASE ~ Better(Values(m), best)
      BY <2>1, <3>1, <3>2, <3>4, Objectives DEF BestOf, Better
    <3> QED  BY <3>3, <3>4
  <2> QED  BY <1>1, <1>2, <1>4, <2>2, <2>3, <2>4, LargestDef
<1> QED  BY <1>3, <1>4 DEF MssTypes

(* mss_add_falsified adds untried inputs that are false in the model.      *)
LEMMA AddDef ==
  ASSUME options \in MssOptions, NEW m, NEW S, NEW T, Add(m, S, T)
  PROVE  \E A \in SUBSET (T \ m) : mss' = S \cup A /\ todo' = T \ A
<1>1. options.add_cls \in 0 .. 2
  BY MssOptionsAssumption
<1>2. PICK A \in Falsified(m, S, T) : mss' = S \cup A /\ todo' = T \ A
  BY DEF Add
<1>3. A \in SUBSET (T \ m)
  <2>1. CASE options.add_cls = 0
    BY <1>2, <2>1 DEF Falsified
  <2>2. CASE options.add_cls = 1
    BY <1>2, <2>2 DEF Falsified
  <2>3. CASE options.add_cls = 2
    BY <1>2, <2>3 DEF Falsified
  <2> QED  BY <1>1, <2>1, <2>2, <2>3
<1> QED  BY <1>2, <1>3

(***************************************************************************)
(* As long as every objective can still get below the largest value held,  *)
(* the search goes on, with an input to try: the model that was seen shows *)
(* that some objective is not below it yet.                                *)
(***************************************************************************)
LEMMA Choice ==
  ASSUME MssIInv, pc = "search", ~ CannotImprove
  PROVE  /\ \E j \in Obj : Upper(mss, j) > 0
         /\ ChosenObj \in Obj
         /\ Of(todo, ChosenObj) # {}
<1>1. /\ best \in Vector /\ mss \subseteq Inputs /\ todo \subseteq Inputs /\ mss \cap todo = {}
      /\ models \subseteq SUBSET Inputs
  BY DEF MssIInv, MssTypes, MssControl
<1>2. \A j \in Obj : /\ Upper(mss, j) \in Value /\ Upper(mss, j) \in Int
                     /\ Cardinality(Of(todo, j)) \in Nat
                     /\ Upper(mss, j) - Cardinality(Of(todo, j)) \in Nat
  BY <1>1, UpperDef
<1>3. best_max \in Int
  BY <1>1, LargestDef DEF best_max
<1>4. \A j \in Obj : Upper(mss, j) - Cardinality(Of(todo, j)) < best_max
  BY <1>2, <1>3 DEF CannotImprove
<1>5. PICK k \in Obj : Upper(mss, k) >= best_max
  <2>1. PICK m \in Satisfying(mss) : best_max <= Largest(Values(m))
    BY DEF MssIInv, Search
  <2>2. m \subseteq Inputs /\ m \cap mss = {} /\ Values(m) \in Vector
    BY <1>1, <2>1, ValuesVector DEF Satisfying, Unblocked
  <2>3. PICK j \in Obj : Values(m)[j] = Largest(Values(m))
    BY <2>2, LargestDef
  <2>4. Values(m)[j] <= Upper(mss, j) /\ Largest(Values(m)) \in Int
    BY <1>1, <2>2, ModelUpper, LargestDef
  <2> QED  BY <1>2, <1>3, <2>1, <2>3, <2>4
<1>6. ASSUME NEW j \in Obj, Upper(mss, j) >= best_max PROVE Of(todo, j) # {}
  <2>1. Cardinality(Of(todo, j)) # 0
    BY <1>2, <1>3, <1>4, <1>6
  <2> QED  BY <2>1, FS_EmptySet
<1>7. Upper(mss, k) > 0
  BY <1>2, <1>3, <1>4, <1>5
<1> DEFINE bounds == {Upper(mss, j) : j \in Obj}
           most == Most(bounds)
           top == {j \in Obj : Upper(mss, j) = most}
           open == {j \in Obj : Of(todo, j) # {}}
<1>8. most \in bounds /\ Upper(mss, k) <= most
  <2>1. bounds \subseteq Value /\ bounds # {} /\ Upper(mss, k) \in bounds
    BY <1>2
  <2> HIDE DEF bounds
  <2> QED  BY <2>1, MostDef
<1>9. Least(top) \in top /\ Least(open) \in open
  <2>1. top \subseteq Nat /\ top # {} /\ open \subseteq Nat /\ open # {}
    BY <1>5, <1>6, <1>8, Objectives
  <2> HIDE DEF top, open
  <2> QED  BY <2>1, LeastDef
<1>10. Least(top) \in Obj /\ Of(todo, Least(top)) # {}
  <2>1. Least(top) \in Obj /\ Upper(mss, Least(top)) = most
    BY <1>9
  <2> HIDE DEF top, most
  <2>2. Upper(mss, Least(top)) >= best_max
    BY <1>2, <1>3, <1>5, <1>8, <2>1
  <2> QED  BY <1>6, <2>1, <2>2
<1>11. Least(open) \in Obj /\ Of(todo, Least(open)) # {} /\ open # {}
  BY <1>9
<1>12. ChosenObj = Least(top) \/ ChosenObj = Least(open)
  BY <1>11 DEF ChosenObj
<1> QED  BY <1>7, <1>10, <1>11, <1>12

(* What a search that has stopped blocks is no better than what is held.   *)
LEMMA BlockSound ==
  ASSUME MssIInv, pc = "search", ChosenObj = -1, NEW m \in Satisfying(mss)
  PROVE  best_max <= Largest(Values(m))
<1>1. /\ best \in Vector /\ mss \subseteq Inputs /\ todo \subseteq Inputs /\ mss \cap todo = {}
      /\ m \subseteq Inputs
  BY DEF MssIInv, MssTypes, MssControl, Satisfying, Unblocked
<1>2. CannotImprove
  BY Choice, Objectives
<1>3. PICK j \in Obj : Upper(mss, j) - Cardinality(Of(todo, j)) >= best_max
  BY <1>2 DEF CannotImprove
<1>4. Upper(mss, j) - Cardinality(Of(todo, j)) <= Values(m)[j]
  BY <1>1, ModelLower DEF MssIInv, Search
<1>5. /\ Values(m) \in Vector /\ Values(m)[j] <= Largest(Values(m))
      /\ Values(m)[j] \in Int /\ Largest(Values(m)) \in Int /\ best_max \in Int
  BY <1>1, ValuesVector, LargestDef, OfCount DEF best_max
<1>6. Upper(mss, j) - Cardinality(Of(todo, j)) \in Nat
  BY <1>1, UpperDef
<1> QED  BY <1>3, <1>4, <1>5, <1>6

-----------------------------------------------------------------------------
(* The steps, one lemma each.                                              *)
LEMMA MssInitInv == MssInit => MssIInv
BY ProblemsAssumption DEF MssInit, MssIInv, MssTypes, MssControl, Search, FirstMaximumKept

LEMMA MssCheckSatInv == MssIInv /\ MssCheckSat => MssIInv'
<1> SUFFICES ASSUME MssIInv, MssCheckSat PROVE MssIInv'
  OBVIOUS
<1>1. /\ MssTypes /\ blocked = {} /\ UNCHANGED <<models, options, blocked, mss, todo>>
      /\ pc' \in {"complete", "enumerate"}
  BY DEF MssIInv, MssControl, MssCheckSat
<1>2. CASE models = {} /\ pc' = "complete" /\ UNCHANGED best
  BY <1>1, <1>2 DEF MssIInv, MssTypes, MssControl, Search, FirstMaximumKept
<1>3. CASE pc' = "enumerate" /\ \E m \in models : Hold(m)
  <2>1. best' \in Vector /\ models # {}
    BY <1>1, <1>3, HoldBest
  <2>2. Unblocked' = models
    BY <1>1 DEF Unblocked
  <2> QED  BY <1>1, <1>3, <2>1, <2>2 DEF MssIInv, MssTypes, MssControl, Search, FirstMaximumKept
<1> QED  BY <1>2, <1>3 DEF MssCheckSat

(* A better solution leaves what was blocked no better.                    *)
LEMMA KeptByHold ==
  ASSUME MssIInv, pc \in {"enumerate", "search"}, NEW m \in models, Hold(m),
         UNCHANGED <<models, blocked>>, pc' = "search"
  PROVE  FirstMaximumKept'
<1>1. best \in Vector /\ MssTypes
  BY DEF MssIInv, MssControl
<1>2. best' \in Vector /\ best_max' <= best_max
  BY <1>1, HoldBest
<1>3. SUFFICES ASSUME NEW k \in models, k \notin Unblocked
               PROVE  best_max' <= Largest(Values(k))
  BY DEF FirstMaximumKept, Unblocked
<1>4. best_max <= Largest(Values(k))
  BY <1>3 DEF MssIInv, FirstMaximumKept
<1>5. best_max \in Int /\ best_max' \in Int /\ Largest(Values(k)) \in Int
  BY <1>1, <1>2, <1>3, LargestDef, ValuesVector DEF best_max, MssTypes
<1> QED  BY <1>2, <1>4, <1>5

LEMMA StartInv == MssIInv /\ Start => MssIInv'
<1> SUFFICES ASSUME MssIInv, Start PROVE MssIInv'
  OBVIOUS
<1>1. PICK m \in Unblocked : Hold(m) /\ Add(m, {}, Inputs)
  BY DEF Start
<1>2. /\ MssTypes /\ pc = "enumerate" /\ pc' = "search" /\ m \in models
      /\ UNCHANGED <<models, options, blocked>>
  BY <1>1 DEF MssIInv, Start, Unblocked
<1>3. PICK A \in SUBSET (Inputs \ m) : mss' = {} \cup A /\ todo' = Inputs \ A
  BY <1>1, <1>2, AddDef DEF MssTypes
<1>4. best' \in Vector /\ best_max' <= Largest(Values(m))
  BY <1>1, <1>2, HoldBest
<1>5. MssTypes' /\ MssControl'
  BY <1>2, <1>3, <1>4 DEF MssTypes, MssControl
<1>6. Search'
  <2>1. m \in Satisfying(mss)'
    BY <1>1, <1>2, <1>3 DEF Satisfying, Unblocked
  <2>2. Inputs \ (mss' \cup todo') = {}
    BY <1>3
  <2> QED  BY <1>4, <2>1, <2>2 DEF Search
<1>7. FirstMaximumKept'
  BY <1>1, <1>2, KeptByHold
<1> QED  BY <1>5, <1>6, <1>7 DEF MssIInv

LEMMA TestSatInv == MssIInv /\ TestSat => MssIInv'
<1> SUFFICES ASSUME MssIInv, TestSat PROVE MssIInv'
  OBVIOUS
<1>0. PICK x \in todo : \E m \in Satisfying(mss \cup {x}) :
        Hold(m) /\ Add(m, mss \cup {x}, todo \ {x})
  BY DEF TestSat, Of
<1>1. PICK m \in Satisfying(mss \cup {x}) : Hold(m) /\ Add(m, mss \cup {x}, todo \ {x})
  BY <1>0
<1>2. /\ MssTypes /\ pc = "search" /\ pc' = "search" /\ m \in models
      /\ UNCHANGED <<models, options, blocked>>
  BY <1>1 DEF MssIInv, TestSat, Satisfying, Unblocked
<1>3. PICK A \in SUBSET ((todo \ {x}) \ m) :
        mss' = (mss \cup {x}) \cup A /\ todo' = (todo \ {x}) \ A
  BY <1>1, <1>2, AddDef DEF MssTypes
<1>4. best' \in Vector /\ best_max' <= Largest(Values(m))
  BY <1>1, <1>2, HoldBest
<1>5. MssTypes' /\ MssControl'
  BY <1>1, <1>2, <1>3, <1>4 DEF MssTypes, MssControl
<1>6. Search'
  <2>1. m \in Satisfying(mss)'
    BY <1>1, <1>2, <1>3 DEF Satisfying, Unblocked
  <2>2. ASSUME NEW k \in Satisfying(mss)' PROVE Inputs \ (mss' \cup todo') \subseteq k
    <3>1. k \in Satisfying(mss)
      BY <1>2, <1>3 DEF Satisfying, Unblocked
    <3>2. mss' \cup todo' = mss \cup todo
      BY <1>1, <1>3
    <3> QED  BY <1>2, <3>1, <3>2 DEF MssIInv, Search
  <2> QED  BY <1>4, <2>1, <2>2 DEF Search
<1>7. FirstMaximumKept'
  BY <1>1, <1>2, KeptByHold
<1> QED  BY <1>5, <1>6, <1>7 DEF MssIInv

LEMMA TestUnsatInv == MssIInv /\ TestUnsat => MssIInv'
<1> SUFFICES ASSUME MssIInv, TestUnsat PROVE MssIInv'
  OBVIOUS
<1>1. PICK x \in todo : Satisfying(mss \cup {x}) = {} /\ todo' = todo \ {x}
  BY DEF TestUnsat, Of
<1>2. pc = "search" /\ UNCHANGED <<models, status, best, options, pc, blocked, mss>>
  BY DEF TestUnsat
<1>3. MssTypes' /\ MssControl' /\ FirstMaximumKept'
  BY <1>1, <1>2 DEF MssIInv, MssTypes, MssControl, FirstMaximumKept, best_max, Unblocked
<1>4. Search'
  <2>1. ASSUME NEW k \in Satisfying(mss) PROVE x \in k
    BY <1>1 DEF Satisfying
  <2>2. \A k \in Satisfying(mss) : Inputs \ (mss \cup todo') \subseteq k
    BY <1>1, <1>2, <2>1 DEF MssIInv, Search
  <2>3. Satisfying(mss)' = Satisfying(mss) /\ best_max' = best_max
    BY <1>2 DEF Satisfying, Unblocked, best_max
  <2>4. \E m \in Satisfying(mss) : best_max <= Largest(Values(m))
    BY <1>2 DEF MssIInv, Search
  <2> QED  BY <1>2, <2>2, <2>3, <2>4 DEF Search
<1> QED  BY <1>3, <1>4 DEF MssIInv

LEMMA BlockInv == MssIInv /\ Block => MssIInv'
<1> SUFFICES ASSUME MssIInv, Block PROVE MssIInv'
  OBVIOUS
<1>1. /\ pc = "search" /\ ChosenObj = -1 /\ mss' = {} /\ todo' = {}
      /\ UNCHANGED <<models, best, options>>
      /\ \/ mss = {} /\ pc' = "complete" /\ blocked' = blocked
         \/ pc' = "enumerate" /\ blocked' = blocked \cup {mss}
  BY DEF Block
<1>2. MssTypes' /\ MssControl' /\ Search'
  BY <1>1 DEF MssIInv, MssTypes, MssControl, Search
<1>3. FirstMaximumKept'
  <2> SUFFICES ASSUME NEW m \in models, pc' = "complete" \/ m \notin Unblocked'
               PROVE  best_max <= Largest(Values(m))
    BY <1>1 DEF FirstMaximumKept, best_max
  <2>1. CASE m \notin Unblocked
    BY <1>1, <2>1 DEF MssIInv, FirstMaximumKept
  <2>2. CASE m \in Unblocked
    <3>1. m \in Satisfying(mss)
      BY <1>1, <2>2 DEF Satisfying, Unblocked
    <3> QED  BY <1>1, <3>1, BlockSound
  <2> QED  BY <2>1, <2>2
<1> QED  BY <1>2, <1>3 DEF MssIInv

LEMMA QuietInv == MssIInv /\ (Complete \/ Limit \/ Interrupt) => MssIInv'
<1> SUFFICES ASSUME MssIInv, Complete \/ Limit \/ Interrupt PROVE MssIInv'
  OBVIOUS
<1>1. /\ pc \in {"enumerate", "search"}
      /\ pc' = "stopped" \/ (pc' = "complete" /\ Unblocked = {})
      /\ UNCHANGED <<models, status, best, options, blocked, mss, todo>>
  BY DEF Complete, Limit, Interrupt
<1> QED  BY <1>1 DEF MssIInv, MssTypes, MssControl, Search, FirstMaximumKept, best_max, Unblocked

(***************************************************************************)
(* The inductive invariant of the enumeration.                             *)
(***************************************************************************)
THEOREM MssInvariance == MssSpec => []MssIInv
<1>1. MssIInv /\ [MssNext]_mss_vars => MssIInv'
  <2> SUFFICES ASSUME MssIInv, [MssNext]_mss_vars PROVE MssIInv'
    OBVIOUS
  <2>1. CASE MssNext
    BY <2>1, MssCheckSatInv, StartInv, TestSatInv, TestUnsatInv, BlockInv, QuietInv DEF MssNext
  <2>2. CASE UNCHANGED mss_vars
    BY <2>2
    DEF mss_vars, MssIInv, MssTypes, MssControl, Search, FirstMaximumKept, best_max, Satisfying, Unblocked
  <2> QED  BY <2>1, <2>2
<1> QED  BY MssInitInv, <1>1, PTL DEF MssSpec

(***************************************************************************)
(* mss_choose_obj never takes an input from an empty list, nor divides by  *)
(* zero.                                                                   *)
(***************************************************************************)
THEOREM ChoiceCorrect == MssSpec => []ChoiceValid
<1>1. MssIInv => ChoiceValid
  BY Choice DEF ChoiceValid
<1> QED  BY <1>1, MssInvariance, PTL

(***************************************************************************)
(* No solution that is blocked has a smaller largest value than the one    *)
(* held, and a complete enumeration has found the least.                   *)
(***************************************************************************)
THEOREM FirstMaximumKeptCorrect == MssSpec => []FirstMaximumKept
<1>1. MssIInv => FirstMaximumKept
  BY DEF MssIInv
<1> QED  BY <1>1, MssInvariance, PTL

-----------------------------------------------------------------------------
(***************************************************************************)
(* What makes the enumeration end: a search only tries inputs that it has  *)
(* not tried, and the subset that it blocks was not blocked before, for    *)
(* the solver still has a model of it.  Inputs are finite, and so are      *)
(* their subsets.                                                          *)
(***************************************************************************)
TriesFewer == todo' \in SUBSET todo /\ todo' # todo
BlocksMore == blocked \in SUBSET blocked' /\ blocked' # blocked /\ blocked' \subseteq SUBSET Inputs
Advances ==
  [][/\ TestSat \/ TestUnsat => TriesFewer
     /\ Block /\ pc' = "enumerate" => BlocksMore]_mss_vars

LEMMA TestFewer == MssIInv /\ (TestSat \/ TestUnsat) => TriesFewer
<1>1. MssIInv /\ TestSat => TriesFewer
  <2> SUFFICES ASSUME MssIInv, TestSat PROVE TriesFewer
    OBVIOUS
  <2>1. PICK x \in todo : \E m \in Satisfying(mss \cup {x}) : Add(m, mss \cup {x}, todo \ {x})
    BY DEF TestSat, Of
  <2>2. PICK m : Add(m, mss \cup {x}, todo \ {x})
    BY <2>1
  <2>3. \E A \in SUBSET ((todo \ {x}) \ m) : todo' = (todo \ {x}) \ A
    BY <2>2, AddDef DEF MssIInv, MssTypes
  <2> QED  BY <2>1, <2>3 DEF TriesFewer
<1>2. TestUnsat => TriesFewer
  BY DEF TestUnsat, Of, TriesFewer
<1> QED  BY <1>1, <1>2

(***************************************************************************)
(* The blocking clauses are sets of inputs.                                *)
(***************************************************************************)
BlockedInputs == blocked \subseteq SUBSET Inputs

LEMMA BlockMore == MssIInv /\ BlockedInputs /\ Block /\ pc' = "enumerate" => BlocksMore
<1> SUFFICES ASSUME MssIInv, BlockedInputs, Block, pc' = "enumerate" PROVE BlocksMore
  OBVIOUS
<1>1. pc = "search" /\ blocked' = blocked \cup {mss} /\ mss \subseteq Inputs
  BY DEF Block, MssIInv, MssTypes
<1>2. PICK m \in Unblocked : m \cap mss = {}
  BY <1>1 DEF MssIInv, Search, Satisfying
<1>3. mss \notin blocked
  BY <1>2 DEF Unblocked
<1> QED  BY <1>1, <1>3 DEF BlocksMore, BlockedInputs

LEMMA BlockedInputsKept == MssIInv /\ BlockedInputs /\ [MssNext]_mss_vars => BlockedInputs'
<1> SUFFICES ASSUME MssIInv, BlockedInputs, [MssNext]_mss_vars PROVE BlockedInputs'
  OBVIOUS
<1>1. blocked' = blocked \/ blocked' = blocked \cup {mss}
  BY DEF MssNext, mss_vars, MssCheckSat, Start, Complete, Limit, Interrupt, TestSat, TestUnsat, Block
<1> QED  BY <1>1 DEF BlockedInputs, MssIInv, MssTypes

(***************************************************************************)
(* Every test of a search leaves fewer inputs to try, and every blocking   *)
(* clause is new: "no subset is found again".                              *)
(***************************************************************************)
THEOREM EnumerationAdvances == MssSpec => Advances
<1>1. MssInit => BlockedInputs
  BY DEF MssInit, BlockedInputs
<1>2. MssIInv /\ BlockedInputs /\ [MssNext]_mss_vars =>
        [/\ TestSat \/ TestUnsat => TriesFewer
         /\ Block /\ pc' = "enumerate" => BlocksMore]_mss_vars
  BY TestFewer, BlockMore
<1> QED  BY <1>1, <1>2, BlockedInputsKept, MssInvariance, PTL DEF MssSpec, Advances
=============================================================================
