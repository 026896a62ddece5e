-------------------------- MODULE IterationsProofs --------------------------
(***************************************************************************)
(* Proofs about the two algorithms that minimise the maxima one after the  *)
(* other without cores of the objectives: NonCore, for every number and    *)
(* size of objectives, every problem, every search mode and every answer   *)
(* of the SAT solver, and Ilp, for every point at which a run of the ILP   *)
(* solver may be stopped.                                                  *)
(***************************************************************************)
EXTENDS NonCore, Ilp, LeximaxProofs

(* Searches with sorting networks *)

(***************************************************************************)
(* The inductive invariant.  The unit clauses of the iterations before i   *)
(* pin the maxima of the solution held, those of iteration i follow the    *)
(* search, and those to come are not there yet.                            *)
(***************************************************************************)
Control ==
  /\ pc = "start" => /\ status = "?" /\ i = 0
                     /\ allUb = Size
  /\ pc \in {"encode", "search"} => status = "s" /\ best \in feasible
  /\ pc = "done" => status \in {"u", "o"}

Units ==
  /\ pc \in {"encode", "search"} => Maximum(best, 0) <= allUb
  /\ \A j \in 0 .. i-1 : cap[j] = Maximum(best, j) /\ floor[j] = Maximum(best, j)
  /\ \A j \in Obj : \/ j > i
                    \/ j = i /\ pc \in {"start", "encode"}
                    => cap[j] = Size /\ floor[j] = 0

Search ==
  pc = "search" =>
    /\ floor[i] <= lb /\ lb <= ub
    /\ ub = Maximum(best, i) /\ cap[i] = ub
    /\ \A v \in feasible : SameMaxima(v, best, i) => lb <= Maximum(v, i)

IInv ==
  /\ TypeOK /\ Control /\ Units /\ Search
  /\ PrefixOptimal /\ VerdictSound /\ NoErrorExit

-----------------------------------------------------------------------------
(* Every maximum of a feasible vector is a value. *)
LEMMA FeasibleMaximum ==
  ASSUME TypeOK, NEW v \in feasible, NEW j \in Nat
  PROVE  v \in Vector /\ Maximum(v, j) \in Value /\ Maximum(v, j) \in Int
BY MaximumDef, SizeAssumption DEF TypeOK, SpecTypeOK, Value

LEMMA BoundRange ==
  ASSUME TypeOK, lb < ub
  PROVE  Bound \in Value /\ lb <= Bound /\ Bound < ub
<1>1. lb \in Nat /\ ub \in Nat /\ ub <= Size /\ Size \in Nat
  BY SizeAssumption DEF TypeOK, Value
<1>2. mode \in {"bin", "lin_su", "lin_us"}
  BY ModesAssumption DEF TypeOK
<1>3. CASE mode = "bin"
  <2>1. Bound = lb + (ub - lb) \div 2
    BY <1>3 DEF Bound
  <2> QED  BY <2>1, <1>1 DEF Value
<1>4. CASE mode = "lin_su"
  BY <1>1, <1>4 DEF Bound, Value
<1>5. CASE mode = "lin_us"
  BY <1>1, <1>5 DEF Bound, Value
<1> QED  BY <1>2, <1>3, <1>4, <1>5

(* No clause added so far excludes a solution that agrees with the one held *)
(* on the maxima fixed and is not worse on the current one.                 *)
LEMMA NothingLost ==
  ASSUME IInv, pc = "search", NEW v \in feasible, SameMaxima(v, best, i),
         Maximum(v, i) <= ub, NEW k \in Value, Maximum(v, i) <= k, lb <= k
  PROVE  v \in Models(k) /\ Allowed(v)
<1> USE DEF IInv
<1>1. /\ i \in Nat /\ i \in Obj /\ 0 \in Obj /\ best \in feasible
      /\ \A j \in 0 .. i : j \in Obj /\ j \in Nat
  BY NAssumption DEF TypeOK, Obj, Control
<1>2. /\ lb \in Int /\ ub \in Value /\ allUb \in Int /\ k \in Int
      /\ ub \in Int /\ cap \in [Obj -> Value] /\ floor \in [Obj -> Value]
  BY SizeAssumption DEF TypeOK, Value
<1>3. Maximum(v, 0) <= Maximum(best, 0)
  <2>1. CASE i = 0
    BY <2>1 DEF Search
  <2>2. CASE i > 0
    BY <2>2, <1>1, FeasibleMaximum DEF SameMaxima
  <2> QED  BY <1>1, <2>1, <2>2
<1>4. ASSUME NEW j \in Obj PROVE v[j] <= allUb
  <2>1. v[j] <= Maximum(v, 0) /\ v[j] \in Int
    BY FirstMaximum, FeasibleMaximum, SizeAssumption DEF Vector, Value
  <2>2. Maximum(best, 0) <= allUb
    BY DEF Units
  <2> QED  BY <1>1, <1>2, <1>3, <2>1, <2>2, FeasibleMaximum
<1>5. ASSUME NEW j \in 0 .. i PROVE AtMostAbove(v, j, cap[j]) /\ floor[j] <= cap[j]
  <2>1. CASE j = i
    <3>1. cap[i] = ub /\ floor[i] <= lb /\ lb <= ub
      BY DEF Search
    <3>2. floor[i] \in Int
      BY <1>1, <1>2, SizeAssumption DEF Value
    <3> QED  BY <2>1, <3>1, <3>2, <1>1, <1>2, EncodingCorrect, FeasibleMaximum
  <2>2. CASE j \in 0 .. i-1
    <3>1. cap[j] = Maximum(v, j) /\ floor[j] = Maximum(v, j)
      BY <2>2 DEF Units, SameMaxima
    <3> QED  BY <3>1, <1>1, FeasibleMaximum, MaximumDef
  <2> QED  BY <1>1, <2>1, <2>2
<1>6. Allowed(v)
  BY <1>4, <1>5 DEF Allowed
<1>7. AtMostAbove(v, i, k)
  BY <1>1, EncodingCorrect, FeasibleMaximum
<1>8. floor[i] <= k
  <2>1. floor[i] <= lb
    BY DEF Search
  <2>2. floor[i] \in Int
    BY <1>1, <1>2, SizeAssumption DEF Value
  <2> QED  BY <2>1, <2>2, <1>2
<1> QED  BY <1>6, <1>7, <1>8 DEF Models, AllowedUpTo

(* A model the solver finds below the upper bound agrees with the solution  *)
(* held on the maxima fixed, hence is better.                               *)
LEMMA ModelBetter ==
  ASSUME IInv, pc = "search", NEW k \in Value, k < ub, NEW v \in Models(k)
  PROVE  /\ v \in feasible /\ SameMaxima(v, best, i)
         /\ Maximum(v, i) <= k /\ Better(v, best)
<1> USE DEF IInv
<1>1. /\ v \in feasible /\ best \in feasible /\ i \in Obj /\ i \in Nat
      /\ \A j \in 0 .. i : j \in Obj /\ j \in Nat
      /\ cap \in [Obj -> Value]
  BY NAssumption DEF Models, TypeOK, Obj, Control
<1>2. Maximum(v, i) <= k
  BY <1>1, EncodingCorrect, FeasibleMaximum DEF Models, AllowedUpTo
<1>3. ASSUME NEW j \in 0 .. i-1 PROVE Maximum(v, j) <= Maximum(best, j)
  <2>1. AtMostAbove(v, j, cap[j]) /\ cap[j] = Maximum(best, j)
    BY <1>1 DEF Models, AllowedUpTo, Allowed, Units
  <2> QED  BY <1>1, <2>1, EncodingCorrect, FeasibleMaximum
<1>4. SameMaxima(v, best, i)
  <2>1. \A j \in 0 .. i-1 :
          SameMaxima(v, best, j) => Maximum(best, j) <= Maximum(v, j)
    BY <1>1 DEF PrefixOptimal
  <2> QED  BY <1>1, <1>3, <2>1, PrefixForced, FeasibleMaximum
<1>5. Maximum(v, i) < Maximum(best, i)
  <2>1. ub = Maximum(best, i)
    BY DEF Search
  <2>2. k \in Int /\ ub \in Int
    BY SizeAssumption DEF TypeOK, Value
  <2> QED  BY <1>1, <1>2, <2>1, <2>2, FeasibleMaximum
<1> QED  BY <1>1, <1>2, <1>4, <1>5 DEF Better

-----------------------------------------------------------------------------
(* The invariant holds initially, and every action preserves it. *)
LEMMA InitInv == Init => IInv
<1> SUFFICES ASSUME Init PROVE IInv
  OBVIOUS
<1>1. /\ 0 \in Obj /\ 0 \in Value /\ Size \in Value
      /\ \A j \in 0 .. i-1 : FALSE
  BY NAssumption, SizeAssumption DEF Obj, Value, Init
<1>2. TypeOK
  BY <1>1, FormulasAssumption DEF Init, SpecInit, TypeOK, SpecTypeOK
<1>3. Control /\ Search /\ NoErrorExit /\ VerdictSound /\ PrefixOptimal
  BY DEF Init, SpecInit, Control, Search, NoErrorExit, VerdictSound,
         PrefixOptimal
<1>4. Units
  BY <1>1 DEF Init, Units
<1> QED  BY <1>2, <1>3, <1>4 DEF IInv

LEMMA CheckSatInv == IInv /\ CheckSat => IInv'
<1> SUFFICES ASSUME IInv, CheckSat PROVE IInv'
  OBVIOUS
<1> USE DEF IInv, CheckSat
<1>1. /\ i = 0 /\ allUb = Size /\ 0 \in Obj
      /\ \A j \in 0 .. i-1 : FALSE
  BY NAssumption DEF Control, Obj
<1>2. CASE Refute /\ pc' = "done"
  <2>1. TypeOK' /\ Control' /\ Search' /\ NoErrorExit' /\ VerdictSound'
    BY <1>2 DEF Refute, TypeOK, SpecTypeOK, Control, Search, NoErrorExit,
                VerdictSound
  <2>2. Units' /\ PrefixOptimal'
    BY <1>1, <1>2 DEF Refute, Units, PrefixOptimal
  <2> QED  BY <2>1, <2>2
<1>3. CASE Find /\ pc' = "encode"
  <2>1. best' \in feasible /\ best' \in Vector
    BY <1>3 DEF Find, TypeOK, SpecTypeOK
  <2>2. TypeOK' /\ Control' /\ Search' /\ NoErrorExit' /\ VerdictSound'
    BY <1>3, <2>1 DEF Find, TypeOK, SpecTypeOK, Control, Search, NoErrorExit,
                      VerdictSound
  <2>3. Maximum(best', 0) <= allUb'
    BY <1>1, <2>1, MaximumDef, SizeAssumption DEF Value
  <2>4. Units' /\ PrefixOptimal'
    BY <1>1, <1>3, <2>3 DEF Find, Units, PrefixOptimal
  <2> QED  BY <2>2, <2>4
<1> QED  BY <1>2, <1>3

LEMMA EncodeInv == IInv /\ Encode => IInv'
<1> SUFFICES ASSUME IInv, Encode PROVE IInv'
  OBVIOUS
<1> USE DEF IInv, Encode
<1>1. /\ i \in Obj /\ i \in Nat /\ best \in feasible
      /\ cap[i] = Size /\ floor[i] = 0
      /\ cap \in [Obj -> Value] /\ allUb \in Value
  BY NAssumption DEF TypeOK, Obj, Control, Units
<1>2. Maximum(best, i) \in Value /\ Maximum(best, 0) \in Value
  BY <1>1, FeasibleMaximum
<1>3. Least(Size, Maximum(best, i)) = Maximum(best, i)
  BY <1>2, SizeAssumption DEF Least, Value
<1>4. allUb' \in Value /\ Maximum(best, 0) <= allUb'
  BY <1>1, <1>2, SizeAssumption DEF Least, Value, Units
<1>5. TypeOK'
  BY <1>1, <1>2, <1>3, <1>4, SizeAssumption DEF TypeOK, SpecTypeOK, Value
<1>6. Control' /\ NoErrorExit' /\ VerdictSound' /\ PrefixOptimal'
  BY DEF Control, NoErrorExit, VerdictSound, PrefixOptimal
<1>7. Units'
  BY <1>1, <1>4 DEF Units, Obj
<1>8. Search'
  <2>1. cap'[i] = Maximum(best, i) /\ floor'[i] = 0 /\ lb' = 0
    BY <1>1, <1>3
  <2>2. \A v \in feasible : 0 <= Maximum(v, i)
    BY <1>1, FeasibleMaximum DEF Value
  <2> QED  BY <1>2, <2>1, <2>2 DEF Search, Value, SameMaxima
<1> QED  BY <1>5, <1>6, <1>7, <1>8

LEMMA SearchSatInv == IInv /\ SearchSat => IInv'
<1> SUFFICES ASSUME IInv, SearchSat PROVE IInv'
  OBVIOUS
<1>1. /\ pc = "search" /\ lb <= ub /\ lb # ub /\ TypeOK
      /\ lb \in Int /\ ub \in Int
  BY SizeAssumption DEF IInv, SearchSat, Search, TypeOK, Value
<1>2. Bound \in Value /\ lb <= Bound /\ Bound < ub
  BY <1>1, BoundRange
<1>3. PICK v \in Models(Bound) : /\ best' = BestOf(v, best)
                                 /\ ub' = Maximum(best', i)
                                 /\ cap' = [cap EXCEPT ![i] = Least(@, ub')]
  BY DEF SearchSat
<1>4. /\ v \in feasible /\ SameMaxima(v, best, i)
      /\ Maximum(v, i) <= Bound /\ Better(v, best)
  BY <1>1, <1>2, <1>3, ModelBetter
<1>5. best' = v
  BY <1>3, <1>4 DEF BestOf
<1> USE DEF IInv, SearchSat
<1>6. /\ i \in Obj /\ i \in Nat /\ best \in feasible
      /\ cap \in [Obj -> Value] /\ allUb \in Value /\ cap[i] = ub
  BY <1>1 DEF TypeOK, Obj, Control, Search
<1>7. /\ Maximum(v, i) \in Value /\ Maximum(v, i) \in Int /\ Bound \in Int
      /\ Maximum(v, 0) \in Int /\ Maximum(best, 0) \in Int /\ allUb \in Int
  BY <1>1, <1>2, <1>4, <1>6, FeasibleMaximum, SizeAssumption DEF Value
<1>8. ub' = Maximum(v, i) /\ cap'[i] = Maximum(v, i) /\ ub' < ub
      /\ cap' = [cap EXCEPT ![i] = Maximum(v, i)]
  <2>1. ub' = Maximum(v, i)
    BY <1>3, <1>5
  <2>2. Maximum(v, i) < ub
    BY <1>1, <1>2, <1>4, <1>7
  <2>3. Least(cap[i], ub') = Maximum(v, i)
    BY <1>1, <1>6, <1>7, <2>1, <2>2 DEF Least
  <2>4. cap' = [cap EXCEPT ![i] = Maximum(v, i)]
    BY <1>3, <2>3
  <2> QED  BY <1>6, <2>1, <2>2, <2>4
<1>9. Maximum(v, 0) <= allUb
  <2>1. Maximum(best, 0) <= allUb
    BY <1>1 DEF Units
  <2>2. CASE i = 0
    BY <1>1, <1>2, <1>4, <1>7, <2>1, <2>2 DEF Search
  <2>3. CASE i > 0
    BY <1>4, <1>6, <1>7, <2>1, <2>3 DEF SameMaxima
  <2> QED  BY <1>6, <2>2, <2>3
<1>10. TypeOK'
  BY <1>1, <1>4, <1>5, <1>7, <1>8 DEF TypeOK, SpecTypeOK
<1>11. Control' /\ NoErrorExit' /\ VerdictSound'
  BY <1>1, <1>4, <1>5 DEF Control, NoErrorExit, VerdictSound
<1>12. PrefixOptimal'
  <2> SUFFICES ASSUME NEW u \in feasible, NEW j \in 0 .. i-1,
                      SameMaxima(u, v, j)
               PROVE  Maximum(v, j) <= Maximum(u, j)
    BY <1>5 DEF PrefixOptimal
  <2>1. SameMaxima(u, best, j) /\ Maximum(v, j) = Maximum(best, j)
    BY <1>4, <1>6 DEF SameMaxima
  <2> QED  BY <1>1, <2>1 DEF PrefixOptimal
<1>13. Units'
  <2>1. \A j \in 0 .. i-1 : Maximum(v, j) = Maximum(best, j)
    BY <1>4 DEF SameMaxima
  <2> QED  BY <1>1, <1>5, <1>6, <1>8, <1>9, <2>1 DEF Units, Obj
<1>14. Search'
  <2>1. \A u \in feasible : SameMaxima(u, v, i) => SameMaxima(u, best, i)
    BY <1>4 DEF SameMaxima
  <2>2. floor[i] <= lb /\ lb <= Maximum(v, i)
    BY <1>1, <1>4 DEF Search
  <2> QED  BY <1>1, <1>5, <1>8, <2>1, <2>2 DEF Search
<1> QED  BY <1>10, <1>11, <1>12, <1>13, <1>14

LEMMA SearchUnsatInv == IInv /\ SearchUnsat => IInv'
<1> SUFFICES ASSUME IInv, SearchUnsat PROVE IInv'
  OBVIOUS
<1>1. /\ pc = "search" /\ lb <= ub /\ lb # ub /\ TypeOK
      /\ lb \in Nat /\ ub \in Nat /\ Size \in Nat /\ ub <= Size
      /\ best \in feasible /\ ub = Maximum(best, i)
  BY SizeAssumption DEF IInv, SearchUnsat, Search, TypeOK, Value, Control
<1>2. Bound \in Value /\ lb <= Bound /\ Bound < ub /\ Bound \in Nat
  BY <1>1, BoundRange DEF Value
(* The solution held satisfies the formula with every bound from ub on.    *)
<1>3. ASSUME NEW k \in Value, ub <= k PROVE best \in Models(k)
  <2>1. k \in Nat
    BY DEF Value
  <2> QED  BY <1>1, <1>3, <2>1, NothingLost DEF SameMaxima
<1>4. PICK p \in Cores, several \in BOOLEAN :
        /\ lb' = IF p = EmptyCore THEN lb ELSE CoreBound(p)
        /\ pc' = IF p # EmptyCore /\ CoreBound(p) <= lb THEN "exit" ELSE pc
        /\ floor' = IF several
                    THEN [floor EXCEPT ![i] = Greatest(@, CoreBound(p))]
                    ELSE floor
  BY DEF SearchUnsat
<1>5. p # EmptyCore
  <2>1. Size \in Value
    BY <1>1 DEF Value
  <2>2. Models(Size) # {}
    BY <1>1, <1>3, <2>1
  <2> QED  BY <1>1, <1>2, <2>2 DEF Cores, EmptyCore
<1>6. /\ p \in 0 .. Size - Bound - 1 /\ Models(Size - p - 1) = {}
      /\ Size - p - 1 \in Value /\ p \in Nat
      /\ CoreBound(p) = Size - p
  BY <1>1, <1>2, <1>5 DEF Cores, EmptyCore, CoreBound, Value
<1>7. Size - p - 1 < ub
  BY <1>1, <1>3, <1>6
<1>8. /\ lb' = Size - p /\ lb' > lb /\ lb' <= ub /\ pc' = "search"
      /\ lb' \in Nat /\ lb' \in Value
  BY <1>1, <1>2, <1>4, <1>5, <1>6, <1>7 DEF Value
<1>9. i \in Obj /\ i \in Nat /\ floor \in [Obj -> Value] /\ floor[i] <= lb
  BY <1>1, NAssumption DEF IInv, TypeOK, Obj, Search
<1>10. floor' \in [Obj -> Value] /\ floor'[i] <= lb'
       /\ \A j \in Obj : j # i => floor'[j] = floor[j]
  <2>1. floor[i] \in Nat
    BY <1>9, SizeAssumption DEF Value
  <2>2. CASE several
    <3>1. floor' = [floor EXCEPT ![i] = Greatest(floor[i], Size - p)]
      BY <1>4, <1>6, <2>2
    <3>2. Greatest(floor[i], Size - p) = lb'
      BY <1>1, <1>8, <1>9, <2>1 DEF Greatest
    <3> QED  BY <1>8, <1>9, <3>1, <3>2
  <2>3. CASE ~ several
    BY <1>1, <1>4, <1>8, <1>9, <2>1, <2>3
  <2> QED  BY <2>2, <2>3
<1> USE DEF IInv, SearchUnsat
<1>11. TypeOK'
  BY <1>1, <1>8, <1>10 DEF TypeOK, SpecTypeOK
<1>12. Control' /\ NoErrorExit' /\ VerdictSound' /\ PrefixOptimal'
  BY <1>1, <1>8 DEF Control, NoErrorExit, VerdictSound, PrefixOptimal
<1>13. Units'
  BY <1>1, <1>8, <1>9, <1>10 DEF Units, Obj
<1>14. Search'
  <2> SUFFICES ASSUME NEW v \in feasible, SameMaxima(v, best, i)
               PROVE  lb' <= Maximum(v, i)
    BY <1>1, <1>8, <1>10 DEF Search
  <2>1. Maximum(v, i) \in Int
    BY <1>1, <1>9, FeasibleMaximum
  <2>2. ASSUME Maximum(v, i) <= Size - p - 1 PROVE FALSE
    BY <1>1, <1>2, <1>6, <1>7, <2>1, <2>2, NothingLost
  <2> QED  BY <1>1, <1>6, <1>8, <2>1, <2>2
<1> QED  BY <1>11, <1>12, <1>13, <1>14

(* When the bounds meet no feasible vector that agrees on the maxima fixed *)
(* improves on the current one.                                            *)
LEMMA ProvedOptimal ==
  ASSUME IInv, pc = "search", lb = ub,
         NEW v \in feasible, NEW j \in 0 .. i, SameMaxima(v, best, j)
  PROVE  Maximum(best, j) <= Maximum(v, j)
<1>1. CASE j = i
  BY <1>1 DEF IInv, Search
<1>2. CASE j \in 0 .. i-1
  BY <1>2 DEF IInv, PrefixOptimal
<1> QED  BY <1>1, <1>2, NAssumption DEF IInv, TypeOK, Obj

LEMMA FixMaximumInv == IInv /\ FixMaximum => IInv'
<1> SUFFICES ASSUME IInv, FixMaximum PROVE IInv'
  OBVIOUS
<1> USE DEF IInv, FixMaximum
<1>1. /\ i \in Obj /\ i \in Nat /\ N \in Nat /\ best \in feasible
      /\ i + 1 \in Obj
      /\ cap \in [Obj -> Value] /\ floor \in [Obj -> Value]
      /\ cap[i] = Maximum(best, i) /\ floor[i] <= Maximum(best, i)
      /\ Maximum(best, i) \in Value /\ Maximum(best, i) \in Nat
      /\ floor[i] \in Nat
  <2>1. /\ i \in Obj /\ i \in Nat /\ N \in Nat /\ i + 1 \in Obj
        /\ cap \in [Obj -> Value] /\ floor \in [Obj -> Value]
    BY NAssumption DEF TypeOK, Obj
  <2>2. best \in feasible
    BY DEF Control
  <2>3. cap[i] = Maximum(best, i) /\ floor[i] <= Maximum(best, i)
    BY DEF Search
  <2> QED  BY <2>1, <2>2, <2>3, FeasibleMaximum, SizeAssumption DEF Value
<1>2. /\ Least(cap[i], Maximum(best, i)) = Maximum(best, i)
      /\ Greatest(floor[i], Maximum(best, i)) = Maximum(best, i)
  BY <1>1 DEF Least, Greatest
<1>3. /\ cap' = [cap EXCEPT ![i] = Maximum(best, i)]
      /\ floor' = [floor EXCEPT ![i] = Maximum(best, i)]
  BY <1>2
<1>4. TypeOK'
  BY <1>1, <1>3 DEF TypeOK, SpecTypeOK
<1>5. Control' /\ Search' /\ NoErrorExit' /\ VerdictSound'
  BY DEF Control, Search, NoErrorExit, VerdictSound
<1>6. PrefixOptimal'
  BY <1>1, ProvedOptimal DEF PrefixOptimal
<1>7. Units'
  <2>1. Maximum(best, 0) <= allUb
    BY DEF Units
  <2>2. ASSUME NEW j \in 0 .. i
        PROVE  cap'[j] = Maximum(best, j) /\ floor'[j] = Maximum(best, j)
    BY <1>1, <1>3, <2>2 DEF Units, Obj
  <2>3. ASSUME NEW j \in Obj, j > i PROVE cap'[j] = Size /\ floor'[j] = 0
    BY <1>1, <1>3, <2>3 DEF Units, Obj
  <2> QED  BY <1>1, <2>1, <2>2, <2>3 DEF Units, Obj
<1> QED  BY <1>4, <1>5, <1>6, <1>7

LEMMA FinishInv == IInv /\ Finish => IInv'
<1> SUFFICES ASSUME IInv, Finish PROVE IInv'
  OBVIOUS
<1>1. Optimal(best, feasible)
  <2>1. /\ pc = "search" /\ lb = ub /\ i = N-1 /\ best \in feasible
        /\ Obj = 0 .. i
    BY NAssumption DEF IInv, Finish, Control, Obj
  <2> SUFFICES ASSUME NEW v \in feasible, NEW j \in Obj,
                      SameMaxima(v, best, j), Maximum(v, j) < Maximum(best, j)
               PROVE  FALSE
    BY <2>1 DEF Optimal, Better
  <2>2. Maximum(best, j) <= Maximum(v, j)
    BY <2>1, ProvedOptimal
  <2>3. Maximum(best, j) \in Int /\ Maximum(v, j) \in Int
    BY <2>1, FeasibleMaximum, NAssumption DEF IInv, Obj
  <2> QED  BY <2>2, <2>3
<1> USE DEF IInv, Finish
<1>2. TypeOK' /\ Control' /\ Search' /\ NoErrorExit'
  BY DEF TypeOK, SpecTypeOK, Control, Search, NoErrorExit
<1>3. VerdictSound'
  BY <1>1 DEF VerdictSound
<1>4. Units' /\ PrefixOptimal'
  BY NAssumption DEF Units, PrefixOptimal, Obj
<1> QED  BY <1>2, <1>3, <1>4

THEOREM Invariance == Spec => []IInv
<1>1. IInv /\ [Next]_vars => IInv'
  <2> SUFFICES ASSUME IInv, [Next]_vars PROVE IInv'
    OBVIOUS
  <2>1. CASE UNCHANGED vars
    BY <2>1 DEF vars, IInv, TypeOK, SpecTypeOK, Control, Units, Search,
                PrefixOptimal, VerdictSound, NoErrorExit
  <2> QED  BY <2>1, CheckSatInv, EncodeInv, SearchSatInv, SearchUnsatInv,
              FixMaximumInv, FinishInv DEF Next
<1> QED  BY <1>1, InitInv, PTL DEF Spec

(* TypeOK holds for every problem, and with it the other conjuncts of the  *)
(* invariant: the maxima fixed are optimal, the verdicts are true, and the *)
(* error exit of update_lb is not taken.                                   *)
THEOREM TypeCorrect == Spec => []TypeOK
BY Invariance, PTL DEF IInv

THEOREM PrefixCorrect == Spec => []PrefixOptimal
BY Invariance, PTL DEF IInv

THEOREM VerdictCorrect == Spec => []VerdictSound
BY Invariance, PTL DEF IInv

THEOREM NoError == Spec => []NoErrorExit
BY Invariance, PTL DEF IInv

-----------------------------------------------------------------------------
(* A better solution agrees with the one held on the maxima fixed. *)
LEMMA BetterAgrees ==
  ASSUME IInv, pc \in {"encode", "search"}, NEW v \in feasible,
         v = best \/ Better(v, best)
  PROVE  SameMaxima(v, best, i) /\ Maximum(v, i) <= Maximum(best, i)
<1>1. /\ i \in Obj /\ i \in Nat /\ best \in feasible
      /\ \A j \in Obj : j \in Nat
  BY NAssumption DEF IInv, TypeOK, Obj, Control
<1>2. CASE v = best
  BY <1>1, <1>2, FeasibleMaximum DEF IInv, SameMaxima
<1>3. CASE Better(v, best)
  <2>1. PICK d \in Obj : SameMaxima(v, best, d) /\ Maximum(v, d) < Maximum(best, d)
    BY <1>3 DEF Better
  <2>2. Maximum(v, d) \in Int /\ Maximum(best, d) \in Int
    BY <1>1, FeasibleMaximum DEF IInv
  <2>3. ~ (d \in 0 .. i-1)
    BY <1>1, <2>1, <2>2 DEF IInv, PrefixOptimal
  <2>4. d >= i /\ d \in Int
    BY <1>1, <2>3 DEF Obj
  <2>5. SameMaxima(v, best, i)
    BY <1>1, <2>1, <2>4 DEF SameMaxima
  <2>6. Maximum(v, i) <= Maximum(best, i)
    <3>1. CASE d = i
      BY <2>1, <2>2, <3>1
    <3>2. CASE d > i
      BY <1>1, <2>1, <2>4, <3>2, FeasibleMaximum DEF SameMaxima, IInv
    <3> QED  BY <1>1, <2>4, <3>1, <3>2
  <2> QED  BY <2>5, <2>6
<1> QED  BY <1>2, <1>3

(* The search interval always holds the optimum, and the clauses added to  *)
(* the incremental solver exclude neither the solution held nor a better   *)
(* one.                                                                    *)
THEOREM BoundsCorrect == Spec => []BoundsSound
<1>1. IInv => BoundsSound
  <2> SUFFICES ASSUME IInv, pc = "search" PROVE BoundsSound
    BY DEF BoundsSound
  <2>1. /\ best \in feasible /\ lb <= ub /\ ub = Maximum(best, i)
        /\ lb \in Int /\ ub \in Value /\ i \in Nat
    BY SizeAssumption, NAssumption DEF IInv, Control, Search, TypeOK, Value, Obj
  <2>2. ASSUME NEW v \in feasible, v = best \/ Better(v, best)
        PROVE  Allowed(v) /\ lb <= Maximum(v, i)
    <3>1. SameMaxima(v, best, i) /\ Maximum(v, i) <= ub
      BY <2>1, <2>2, BetterAgrees
    <3>2. Allowed(v)
      BY <2>1, <3>1, NothingLost
    <3> QED  BY <3>1, <3>2 DEF IInv, Search
  <2> QED  BY <2>1, <2>2 DEF BoundsSound
<1> QED  BY <1>1, Invariance, PTL

THEOREM KeepsBetterCorrect == Spec => []KeepsBetter
<1>1. IInv => KeepsBetter
  <2> SUFFICES ASSUME IInv, pc \in {"encode", "search"}, NEW v \in feasible,
                      v = best \/ Better(v, best), NEW j \in 0 .. i-1
               PROVE  floor[j] <= Maximum(v, j) /\ Maximum(v, j) <= cap[j]
    BY DEF KeepsBetter
  <2>1. floor[j] = Maximum(v, j) /\ cap[j] = Maximum(v, j)
    BY BetterAgrees DEF IInv, Units, SameMaxima
  <2>2. Maximum(v, j) \in Int
    BY FeasibleMaximum, NAssumption DEF IInv, TypeOK, Obj
  <2> QED  BY <2>1, <2>2
<1> QED  BY <1>1, Invariance, PTL

(* What an answer of the solver does to the search. *)
LEMMA SatNarrows ==
  ASSUME IInv, SearchSat
  PROVE  /\ lb' = lb /\ ub' < ub
         /\ best' \in feasible /\ Better(best', best)
<1>1. /\ pc = "search" /\ lb <= ub /\ lb # ub /\ TypeOK
      /\ lb \in Int /\ ub \in Int /\ i \in Nat
  BY SizeAssumption, NAssumption
     DEF IInv, SearchSat, Search, TypeOK, Value, Obj
<1>2. Bound \in Value /\ lb <= Bound /\ Bound < ub
  BY <1>1, BoundRange
<1>3. PICK v \in Models(Bound) : best' = BestOf(v, best) /\ ub' = Maximum(best', i)
  BY DEF SearchSat
<1>4. v \in feasible /\ Maximum(v, i) <= Bound /\ Better(v, best)
  BY <1>1, <1>2, <1>3, ModelBetter
<1>5. best' = v
  BY <1>3, <1>4 DEF BestOf
<1>6. Maximum(v, i) \in Int /\ Bound \in Int
  BY <1>1, <1>2, <1>4, FeasibleMaximum, SizeAssumption DEF Value
<1> QED  BY <1>1, <1>2, <1>3, <1>4, <1>5, <1>6 DEF SearchSat

(* Every answer of the solver makes progress. *)
THEOREM NarrowsCorrect == Spec => Narrows
<1> DEFINE A == pc = "search" /\ pc' = "search" =>
                  \/ lb' = lb /\ ub' < ub /\ Better(best', best)
                  \/ lb' > lb /\ ub' = ub /\ best' = best
<1>1. IInv /\ IInv' /\ [Next]_vars => [A]_vars
  <2> SUFFICES ASSUME IInv, IInv', Next, pc = "search", pc' = "search"
               PROVE  A
    OBVIOUS
  <2>1. CASE SearchSat
    BY <2>1, SatNarrows
  <2>2. CASE SearchUnsat
    <3>1. PICK p \in Cores :
            /\ lb' = IF p = EmptyCore THEN lb ELSE CoreBound(p)
            /\ pc' = IF p # EmptyCore /\ CoreBound(p) <= lb THEN "exit" ELSE pc
      BY <2>2 DEF SearchUnsat
    <3>2. lb \in Int /\ Size \in Int /\ Bound \in Nat /\ ub \in Nat
      <4>1. lb \in Nat /\ ub \in Nat /\ lb < ub
        BY <2>2, SizeAssumption DEF IInv, TypeOK, Value, Search, SearchUnsat
      <4> QED  BY <4>1, BoundRange, SizeAssumption DEF IInv, Value
    <3>3. p # EmptyCore
      <4>1. Size \in Value /\ ub <= Size /\ lb <= Size /\ ub = Maximum(best, i)
            /\ best \in feasible /\ SameMaxima(best, best, i)
            /\ ub <= ub
        BY SizeAssumption
           DEF Value, IInv, TypeOK, Search, Control, SameMaxima
      <4>2. Models(Size) # {}
        BY <4>1, NothingLost
      <4> QED  BY <4>2, <3>1, <3>2 DEF Cores, EmptyCore
    <3>4. CoreBound(p) \in Int
      BY <3>1, <3>2, <3>3 DEF Cores, EmptyCore, CoreBound
    <3> QED  BY <2>2, <3>1, <3>2, <3>3, <3>4 DEF SearchUnsat
  <2> QED  BY <2>1, <2>2 DEF Next, CheckSat, Encode, FixMaximum, Finish
<1>2. Spec => [][A]_vars
  BY <1>1, Invariance, PTL DEF Spec
<1> QED  BY <1>2 DEF Narrows

(* Refinement: while it runs, optimise holds a solution that only gets     *)
(* better, and it stops with a true verdict.                               *)
THEOREM Refinement == Spec => Implements
<1>1. Init => SpecInit
  BY DEF Init
<1>2. IInv /\ IInv' /\ [Next]_vars => [SpecNext]_svars
  <2> SUFFICES ASSUME IInv, IInv', [Next]_vars PROVE [SpecNext]_svars
    OBVIOUS
  <2>1. CASE CheckSat
    BY <2>1 DEF CheckSat, SpecNext
  <2>2. CASE SearchSat
    <3>1. status = "s"
      BY <2>2 DEF IInv, Control, SearchSat
    <3>2. Improve
      BY <2>2, <3>1, SatNarrows DEF Improve, SearchSat
    <3> QED  BY <3>2 DEF SpecNext
  <2>3. CASE Finish
    <3>1. status = "s" /\ Optimal(best', feasible') /\ best' = best
          /\ feasible' = feasible
      BY <2>3 DEF IInv, Control, VerdictSound, Finish
    <3>2. Conclude
      BY <2>3, <3>1 DEF Conclude, Finish
    <3> QED  BY <3>2 DEF SpecNext
  <2>4. CASE Encode \/ SearchUnsat \/ FixMaximum \/ UNCHANGED vars
    BY <2>4 DEF Encode, SearchUnsat, FixMaximum, vars, svars
  <2> QED  BY <2>1, <2>2, <2>3, <2>4 DEF Next
<1>3. Spec => AbstractSpec
  BY <1>1, <1>2, Invariance, PTL DEF Spec, AbstractSpec
<1> QED  BY <1>3 DEF Implements

-----------------------------------------------------------------------------
(* The ILP-based algorithm *)

(***************************************************************************)
(* The inductive invariant.  The maxima of the solution held are within    *)
(* the values fixed, and none of its objectives exceeds a relaxation       *)
(* bound (Held).  If no run was stopped, the values fixed are the maxima   *)
(* themselves, and those are the least (Exact).                            *)
(***************************************************************************)
IlpTypes ==
  /\ SpecTypeOK
  /\ pc \in {"start", "call", "done", "exit"}
  /\ i \in Obj
  /\ fixed \in [Obj -> Value] /\ relax \in [Obj -> Value]
  /\ cut \in BOOLEAN

IlpControl ==
  /\ pc = "start" => status = "?" /\ i = 0 /\ ~ cut
  /\ pc = "call" => status = "s"
  /\ status \in {"s", "o"} => best \in feasible

Held ==
  pc = "call" =>
    \A n \in 0 .. i-1 : Maximum(best, n) <= fixed[n] /\ Maximum(best, 0) <= relax[n]

LeastUpTo(b, n) ==
  \A m \in 0 .. n-1 : \A v \in feasible : SameMaxima(v, b, m) => Maximum(b, m) <= Maximum(v, m)

Exact ==
  pc = "call" /\ ~ cut =>
    /\ \A n \in 0 .. i-1 : fixed[n] = Maximum(best, n)
    /\ LeastUpTo(best, i)

IlpInv == IlpTypes /\ IlpControl /\ Held /\ Exact /\ SolvedIsOptimal

-----------------------------------------------------------------------------
LEMMA FeasibleValue ==
  ASSUME IlpTypes, NEW v \in feasible, NEW n \in Nat
  PROVE  v \in Vector /\ Maximum(v, n) \in Value /\ Maximum(v, n) \in Int
BY MaximumDef, SizeAssumption DEF IlpTypes, SpecTypeOK, Value

LEMMA Indices == Obj \subseteq Nat /\ 0 \in Obj
BY NAssumption DEF Obj

LEMMA EarlierIndex ==
  ASSUME IlpTypes, NEW n \in 0 .. i-1
  PROVE  n \in Obj /\ fixed[n] \in Value /\ relax[n] \in Value
<1>1. n \in Obj
  BY NAssumption DEF IlpTypes, Obj
<1> QED  BY <1>1 DEF IlpTypes

(* The bound on the relaxation is the first maximum of the solution held:  *)
(* no objective exceeds it.                                                *)
LEMMA RelaxBound ==
  ASSUME IlpTypes, best \in feasible
  PROVE  ilp_bound \in Value /\ Maximum(best, 0) <= ilp_bound
<1> DEFINE S == {best[j] : j \in Obj}
<1>1. best \in Vector /\ S \subseteq Value /\ S # {}
  BY Indices DEF IlpTypes, SpecTypeOK, Vector
<1>2. \E a \in S : \A b \in S : b <= a
  <2> HIDE DEF S
  <2> QED  BY <1>1, GreatestElement
<1>3. ilp_bound \in S /\ \A b \in S : b <= ilp_bound
  BY <1>2 DEF ilp_bound, Largest
<1>4. ilp_bound \in Value
  BY <1>1, <1>3
<1>5. Above(best, ilp_bound) = {}
  BY <1>1, <1>3, SizeAssumption DEF Above, Vector, Value
<1>6. AtMostAbove(best, 0, ilp_bound)
  BY <1>5, FS_EmptySet DEF AtMostAbove
<1> QED  BY <1>1, <1>4, <1>6, EncodingCorrect

(* What it means to be within the bounds of an iteration.                  *)
LEMMA BoundedBy ==
  ASSUME NEW v \in Vector, NEW n \in Obj, NEW k \in Value, NEW b \in Value,
         Maximum(v, n) <= k, n = 0 \/ Maximum(v, 0) <= b
  PROVE  Bounded(v, n, k, b)
<1>1. AtMostAbove(v, n, k)
  BY EncodingCorrect, Indices
<1>2. ASSUME NEW j \in Obj PROVE v[j] <= k + IF n = 0 THEN 0 ELSE b
  <2>1. v[j] <= Maximum(v, 0) /\ Maximum(v, 0) \in Value /\ v[j] \in Value
    BY FirstMaximum, MaximumDef DEF Vector
  <2> QED  BY <2>1, SizeAssumption DEF Value
<1> QED  BY <1>1, <1>2 DEF Bounded

LEMMA BoundedMaximum ==
  ASSUME NEW v \in Vector, NEW n \in Obj, NEW k \in Value, NEW b, Bounded(v, n, k, b)
  PROVE  Maximum(v, n) <= k
BY EncodingCorrect, Indices DEF Bounded

-----------------------------------------------------------------------------
(* The solution held satisfies the constraints of the earlier iterations.  *)
LEMMA HeldConstraints ==
  ASSUME IlpInv, pc = "call"
  PROVE  Constraints(best) /\ Reached(best, Maximum(best, i))
<1>1. best \in feasible /\ best \in Vector /\ i \in Obj
  BY DEF IlpInv, IlpControl, IlpTypes, SpecTypeOK
<1>2. Constraints(best)
  <2> SUFFICES ASSUME NEW n \in 0 .. i-1 PROVE Bounded(best, n, fixed[n], relax[n])
    BY DEF Constraints
  <2>1. n \in Obj /\ fixed[n] \in Value /\ relax[n] \in Value
    BY EarlierIndex DEF IlpInv
  <2>2. Maximum(best, n) <= fixed[n] /\ Maximum(best, 0) <= relax[n]
    BY DEF IlpInv, Held
  <2> QED  BY <1>1, <2>1, <2>2, BoundedBy
<1>3. Bounded(best, i, Maximum(best, i), ilp_bound)
  <2>1. Maximum(best, i) \in Value
    BY <1>1, FeasibleValue, Indices DEF IlpInv
  <2>2. ilp_bound \in Value /\ Maximum(best, 0) <= ilp_bound
    BY <1>1, RelaxBound DEF IlpInv
  <2>3. Maximum(best, i) <= Maximum(best, i)
    BY <2>1, SizeAssumption DEF Value
  <2> QED  BY <1>1, <2>1, <2>2, <2>3, BoundedBy
<1> QED  BY <1>2, <1>3 DEF Reached

(* A solution that agrees with the one held on the maxima fixed satisfies  *)
(* the constraints, if these maxima are exact.                             *)
LEMMA AgreesConstraints ==
  ASSUME IlpInv, pc = "call", ~ cut, NEW v \in feasible, SameMaxima(v, best, i)
  PROVE  Constraints(v) /\ Reached(v, Maximum(v, i))
<1>1. /\ best \in feasible /\ best \in Vector /\ v \in Vector
      /\ i \in Obj /\ i \in Nat
  BY Indices DEF IlpInv, IlpControl, IlpTypes, SpecTypeOK
<1>2. \A n \in Nat : Maximum(v, n) \in Value /\ Maximum(best, n) \in Value
  BY <1>1, MaximumDef
<1>3. i = 0 \/ Maximum(v, 0) = Maximum(best, 0)
  BY <1>1 DEF SameMaxima
<1>4. Constraints(v)
  <2> SUFFICES ASSUME NEW n \in 0 .. i-1 PROVE Bounded(v, n, fixed[n], relax[n])
    BY DEF Constraints
  <2>1. n \in Obj /\ fixed[n] \in Value /\ relax[n] \in Value
    BY EarlierIndex DEF IlpInv
  <2>2. Maximum(v, n) = fixed[n] /\ Maximum(v, 0) <= relax[n]
    BY <1>1, <1>3 DEF IlpInv, Exact, Held, SameMaxima
  <2>3. Maximum(v, n) <= fixed[n]
    BY <2>1, <2>2, SizeAssumption DEF Value
  <2> QED  BY <1>1, <2>1, <2>2, <2>3, BoundedBy
<1>5. Bounded(v, i, Maximum(v, i), ilp_bound)
  <2>1. ilp_bound \in Value /\ Maximum(best, 0) <= ilp_bound
    BY <1>1, RelaxBound DEF IlpInv
  <2>2. Maximum(v, i) <= Maximum(v, i)
    BY <1>1, <1>2, SizeAssumption DEF Value
  <2> QED  BY <1>1, <1>2, <1>3, <2>1, <2>2, BoundedBy
<1> QED  BY <1>4, <1>5 DEF Reached

(* A solution that satisfies the constraints agrees on the maxima fixed,   *)
(* if these are exact; and so does one that is no worse.                   *)
LEMMA ConstraintsAgree ==
  ASSUME IlpInv, pc = "call", ~ cut, NEW v \in feasible, Constraints(v)
  PROVE  SameMaxima(v, best, i)
<1>1. /\ best \in feasible /\ best \in Vector /\ v \in Vector
      /\ i \in Obj /\ i \in Nat
  BY Indices DEF IlpInv, IlpControl, IlpTypes, SpecTypeOK
<1>2. \A n \in 0 .. i-1 : Maximum(v, n) <= Maximum(best, n)
  <2> TAKE n \in 0 .. i-1
  <2>1. n \in Obj /\ fixed[n] \in Value
    BY EarlierIndex DEF IlpInv
  <2>2. Maximum(v, n) <= fixed[n]
    BY <1>1, <2>1, BoundedMaximum DEF Constraints
  <2> QED  BY <2>2 DEF IlpInv, Exact
<1>3. \A n \in 0 .. i-1 : SameMaxima(v, best, n) => Maximum(best, n) <= Maximum(v, n)
  BY DEF IlpInv, Exact, LeastUpTo
<1> QED  BY <1>1, <1>2, <1>3, PrefixForced

LEMMA NoWorseAgrees ==
  ASSUME IlpTypes, NEW b \in feasible, NEW v \in feasible, NEW n \in Nat, n <= N,
         LeastUpTo(b, n), ~ Better(b, v)
  PROVE  SameMaxima(v, b, n)
<1>1. b \in Vector /\ v \in Vector
  BY DEF IlpTypes, SpecTypeOK
<1> DEFINE D == {m \in 0 .. n-1 : Maximum(v, m) # Maximum(b, m)}
<1>2. SUFFICES ASSUME D # {} PROVE FALSE
  BY DEF SameMaxima
<1>3. PICK d \in D : \A m \in D : d <= m
  <2>1. D \subseteq Nat
    OBVIOUS
  <2> HIDE DEF D
  <2> QED  BY <1>2, <2>1, LeastElement
<1>4. SameMaxima(v, b, d) /\ SameMaxima(b, v, d)
  BY <1>3 DEF SameMaxima
<1>5. Maximum(v, d) \in Int /\ Maximum(b, d) \in Int /\ d \in Obj
  BY <1>1, <1>3, MaximumDef, SizeAssumption, NAssumption DEF Value, Obj
<1>6. Maximum(b, d) <= Maximum(v, d)
  BY <1>3, <1>4 DEF LeastUpTo
<1>7. Maximum(b, d) < Maximum(v, d)
  BY <1>3, <1>5, <1>6
<1> QED  BY <1>4, <1>5, <1>7 DEF Better

-----------------------------------------------------------------------------
(* What every step that ends a run does to the solution held.              *)
LEMMA NewSolution ==
  ASSUME IlpInv, pc = "call", NEW v \in feasible, Constraints(v), NEW b,
         b = best \/ b = BestOf(v, best)
  PROVE  /\ b \in feasible
         /\ Constraints(b)
         /\ Maximum(b, 0) <= Maximum(best, 0)
<1>1. best \in feasible /\ best \in Vector /\ v \in Vector
  BY DEF IlpInv, IlpControl, IlpTypes, SpecTypeOK
<1>2. CASE b = best
  <2>1. Maximum(best, 0) <= Maximum(best, 0)
    BY <1>1, FeasibleValue DEF IlpInv
  <2> QED  BY <1>1, <1>2, <2>1, HeldConstraints
<1>3. CASE b = BestOf(v, best)
  <2>1. Maximum(b, 0) <= Maximum(best, 0)
    BY <1>1, <1>3, HeldFirst
  <2> QED  BY <1>1, <1>3, <2>1, HeldConstraints DEF BestOf
<1> QED  BY <1>2, <1>3

(* The invariant but for what is exact is kept by every such step.         *)
LEMMA FixHeld ==
  ASSUME IlpInv, pc = "call", best' \in feasible, Constraints(best'),
         Maximum(best', 0) <= Maximum(best, 0), Fix, feasible' = feasible, cut' \in BOOLEAN
  PROVE  IlpTypes' /\ IlpControl' /\ Held'
<1>1. /\ best \in feasible /\ best' \in Vector /\ status = "s"
      /\ i \in Obj /\ i \in Nat
  BY Indices DEF IlpInv, IlpControl, IlpTypes, SpecTypeOK
<1>2. \A n \in Nat : Maximum(best', n) \in Value
  BY <1>1, MaximumDef
<1>3. ilp_bound \in Value /\ Maximum(best, 0) <= ilp_bound
  BY <1>1, RelaxBound DEF IlpInv
<1>4. Maximum(best, 0) \in Int /\ Maximum(best', 0) \in Int /\ Size \in Nat
  BY <1>1, <1>2, FeasibleValue, SizeAssumption DEF IlpInv, Value
<1>5. /\ fixed' = [fixed EXCEPT ![i] = Maximum(best', i)]
      /\ relax' = [relax EXCEPT ![i] = ilp_bound]
      /\ \/ pc' = "done" /\ status' = "o" /\ i' = i
         \/ pc' = pc /\ status' = "s" /\ i' = i + 1 /\ i # N-1
  BY <1>1 DEF Fix
<1>6. i' \in Obj
  BY <1>1, <1>5, NAssumption DEF Obj
<1>7. IlpTypes'
  BY <1>1, <1>2, <1>3, <1>5, <1>6 DEF IlpInv, IlpTypes, SpecTypeOK
<1>8. IlpControl'
  BY <1>1, <1>5 DEF IlpControl
<1>9. Held'
  <2> SUFFICES ASSUME pc' = "call", NEW n \in 0 .. i
               PROVE  Maximum(best', n) <= fixed'[n] /\ Maximum(best', 0) <= relax'[n]
    BY <1>1, <1>5 DEF Held
  <2>1. CASE n = i
    BY <1>1, <1>2, <1>3, <1>4, <1>5, <2>1 DEF IlpInv, IlpTypes, Value
  <2>2. CASE n < i
    <3>1. n \in Obj /\ n \in 0 .. i-1 /\ n # i
      BY <1>1, <2>2, NAssumption DEF Obj
    <3>2. fixed'[n] = fixed[n] /\ relax'[n] = relax[n] /\ fixed[n] \in Value /\ relax[n] \in Value
      BY <1>5, <3>1 DEF IlpInv, IlpTypes
    <3>3. Maximum(best', n) <= fixed[n]
      BY <1>1, <3>1, <3>2, BoundedMaximum DEF Constraints
    <3>4. Maximum(best, 0) <= relax[n]
      BY <3>1 DEF IlpInv, Held
    <3> QED  BY <1>4, <3>2, <3>3, <3>4 DEF Value
  <2> QED  BY <1>1, <2>1, <2>2
<1> QED  BY <1>7, <1>8, <1>9

(* The least value of the ith maximum that the constraints allow.          *)
LEMMA OptimumDef ==
  ASSUME IlpInv, pc = "call"
  PROVE  /\ Optimum \in Value
         /\ \A u \in feasible, k \in Value : Reached(u, k) => Optimum <= k
<1> DEFINE S == {k \in Value : \E u \in feasible : Reached(u, k)}
<1>1. best \in feasible /\ i \in Nat
  BY Indices DEF IlpInv, IlpControl, IlpTypes
<1>2. S \subseteq Nat /\ S # {}
  BY <1>1, HeldConstraints, FeasibleValue, SizeAssumption DEF IlpInv, Value
<1>3. \E k \in S : \A m \in S : k <= m
  <2> HIDE DEF S
  <2> QED  BY <1>2, LeastElement
<1>4. Optimum \in S /\ \A m \in S : Optimum <= m
  BY <1>3 DEF Optimum, Smallest
<1> QED  BY <1>4

(* The vector held after a run that was solved: it keeps the maxima that   *)
(* are fixed, and its ith one is the least as well.                        *)
LEMMA SolvedLeast ==
  ASSUME IlpInv, pc = "call", ~ cut, NEW v \in feasible, Reached(v, Optimum)
  PROVE  SameMaxima(BestOf(v, best), best, i) /\ LeastUpTo(BestOf(v, best), i + 1)
<1> DEFINE b == BestOf(v, best)
<1>1. /\ best \in feasible /\ best \in Vector /\ v \in Vector
      /\ i \in Obj /\ i \in Nat
  BY Indices DEF IlpInv, IlpControl, IlpTypes, SpecTypeOK
<1>2. \A u \in feasible : \A n \in Nat : Maximum(u, n) \in Int
  BY FeasibleValue DEF IlpInv
<1>3. SameMaxima(v, best, i)
  BY ConstraintsAgree DEF Reached
<1>4. Maximum(v, i) <= Optimum /\ Optimum \in Int
  BY <1>1, OptimumDef, BoundedMaximum, SizeAssumption DEF Reached, Value
<1>5. b = v \/ (b = best /\ ~ Better(v, best))
  BY DEF BestOf
<1>6. b \in feasible /\ SameMaxima(b, best, i)
  BY <1>1, <1>3, <1>5 DEF SameMaxima
<1>7. Maximum(b, i) <= Maximum(v, i)
  <2>1. CASE b = v
    BY <1>1, <1>2, <2>1
  <2>2. CASE b = best /\ ~ Better(v, best)
    BY <1>1, <1>2, <1>3, <2>2 DEF Better
  <2> QED  BY <1>5, <2>1, <2>2
<1> HIDE DEF b
<1>8. ASSUME NEW m \in 0 .. i, NEW u \in feasible, SameMaxima(u, b, m)
      PROVE  Maximum(b, m) <= Maximum(u, m)
  <2>1. SameMaxima(u, best, m)
    BY <1>1, <1>6, <1>8 DEF SameMaxima
  <2>2. CASE m = i
    <3>1. Reached(u, Maximum(u, i)) /\ Maximum(u, i) \in Value
      BY <1>1, <2>1, <2>2, AgreesConstraints, FeasibleValue DEF IlpInv
    <3>2. Optimum <= Maximum(u, i)
      BY <3>1, OptimumDef
    <3> QED  BY <1>1, <1>2, <1>4, <1>6, <1>7, <2>2, <3>2
  <2>3. CASE m # i
    <3>1. m \in 0 .. i-1
      BY <1>1, <2>3
    <3>2. Maximum(best, m) <= Maximum(u, m)
      BY <2>1, <3>1 DEF IlpInv, Exact, LeastUpTo
    <3> QED  BY <1>6, <3>1, <3>2 DEF SameMaxima
  <2> QED  BY <2>2, <2>3
<1>9. LeastUpTo(b, i + 1)
  BY <1>1, <1>8 DEF LeastUpTo
<1> QED  BY <1>6, <1>9 DEF b

LEMMA SolvedExact ==
  ASSUME IlpInv, Solved
  PROVE  Exact' /\ SolvedIsOptimal'
<1>1. SUFFICES ASSUME ~ cut PROVE Exact' /\ SolvedIsOptimal'
  BY DEF Solved, Exact, SolvedIsOptimal
<1>2. /\ pc = "call" /\ status = "s" /\ feasible' = feasible
      /\ i \in Obj /\ i \in Nat
  BY Indices DEF Solved, IlpInv, IlpControl, IlpTypes
<1>3. PICK v \in feasible : Reached(v, Optimum) /\ best' = BestOf(v, best)
  BY DEF Solved
<1>4. SameMaxima(best', best, i) /\ LeastUpTo(best', i + 1)
  BY <1>1, <1>2, <1>3, SolvedLeast
<1>5. best' \in feasible
  BY <1>2, <1>3 DEF BestOf, IlpInv, IlpControl
<1>6. /\ fixed' = [fixed EXCEPT ![i] = Maximum(best', i)]
      /\ \/ pc' = "done" /\ i = N-1
         \/ pc' = pc /\ status' = "s" /\ i' = i + 1
  BY <1>2 DEF Solved, Fix
<1>7. Exact'
  <2>1. ASSUME NEW n \in 0 .. i PROVE fixed'[n] = Maximum(best', n)
    <3>1. CASE n = i
      BY <1>2, <1>6, <3>1 DEF IlpInv, IlpTypes
    <3>2. CASE n # i
      <4>1. n \in 0 .. i-1
        BY <1>2, <3>2
      <4>2. fixed[n] = Maximum(best, n) /\ fixed'[n] = fixed[n]
        BY <1>1, <1>2, <1>6, <3>2, <4>1, EarlierIndex DEF IlpInv, Exact, IlpTypes
      <4> QED  BY <1>4, <4>1, <4>2 DEF SameMaxima
    <3> QED  BY <3>1, <3>2
  <2>2. CASE pc' = "call"
    <3>1. i' = i + 1 /\ i' - 1 = i
      BY <1>2, <1>6, <2>2
    <3>2. /\ \A n \in 0 .. i'-1 : fixed'[n] = Maximum(best', n)
          /\ LeastUpTo(best', i')
      BY <1>4, <2>1, <3>1
    <3> QED  BY <1>2, <3>2 DEF Exact, LeastUpTo
  <2> QED  BY <2>2 DEF Exact
<1>8. SolvedIsOptimal'
  <2> SUFFICES ASSUME status' = "o", NEW u \in feasible, Better(u, best') PROVE FALSE
    BY <1>2, <1>5 DEF SolvedIsOptimal, Optimal
  <2>1. i = N-1
    BY <1>6
  <2>2. PICK a \in Obj : SameMaxima(u, best', a) /\ Maximum(u, a) < Maximum(best', a)
    BY DEF Better
  <2>3. Maximum(best', a) <= Maximum(u, a)
    BY <1>2, <1>4, <2>1, <2>2 DEF LeastUpTo, Obj
  <2>4. Maximum(u, a) \in Int /\ Maximum(best', a) \in Int
    BY <1>5, FeasibleValue, Indices DEF IlpInv
  <2> QED  BY <2>2, <2>3, <2>4
<1> QED  BY <1>7, <1>8

-----------------------------------------------------------------------------
LEMMA IlpInitInv == IlpInit => IlpInv
<1> SUFFICES ASSUME IlpInit PROVE IlpInv
  OBVIOUS
<1>1. SpecTypeOK
  BY FormulasAssumption DEF IlpInit, SpecInit, SpecTypeOK
<1>2. 0 \in Obj /\ 0 \in Value
  BY Indices, SizeAssumption DEF Value
<1>3. IlpTypes
  BY <1>1, <1>2 DEF IlpInit, IlpTypes
<1> QED  BY <1>3 DEF IlpInit, SpecInit, IlpInv, IlpControl, Held, Exact, SolvedIsOptimal

LEMMA IlpCheckSatInv == IlpInv /\ IlpCheckSat => IlpInv'
<1> SUFFICES ASSUME IlpInv, IlpCheckSat PROVE IlpInv'
  OBVIOUS
<1>1. /\ IlpTypes /\ status = "?" /\ i = 0 /\ i' = 0 /\ ~ cut'
      /\ UNCHANGED <<feasible, ilp_solver, fixed, relax, cut>>
      /\ \/ pc' = "done" /\ status' = "u" /\ best' = best
         \/ pc' = "call" /\ status' = "s" /\ best' \in feasible
  BY DEF IlpInv, IlpControl, IlpCheckSat, Refute, Find
<1>2. IlpTypes' /\ IlpControl'
  BY <1>1 DEF IlpTypes, SpecTypeOK, IlpControl
<1>3. 0 .. i'-1 = {}
  BY <1>1
<1>4. Held' /\ Exact' /\ SolvedIsOptimal'
  BY <1>1, <1>3 DEF Held, Exact, LeastUpTo, SolvedIsOptimal
<1> QED  BY <1>2, <1>4 DEF IlpInv

LEMMA SolvedInv == IlpInv /\ Solved => IlpInv'
<1> SUFFICES ASSUME IlpInv, Solved PROVE IlpInv'
  OBVIOUS
<1>1. PICK v \in feasible : Reached(v, Optimum) /\ best' = BestOf(v, best)
  BY DEF Solved
<1>2. best' \in feasible /\ Constraints(best') /\ Maximum(best', 0) <= Maximum(best, 0)
  BY <1>1, NewSolution DEF Solved, Reached
<1>3. pc = "call" /\ Fix /\ feasible' = feasible /\ cut' \in BOOLEAN
  BY DEF Solved, IlpInv, IlpTypes
<1>4. IlpTypes' /\ IlpControl' /\ Held'
  BY <1>2, <1>3, FixHeld
<1> QED  BY <1>4, SolvedExact DEF IlpInv

(* A run that was stopped leaves nothing to say about what is exact.       *)
LEMMA StoppedInv == IlpInv /\ (StoppedWithSolution \/ StoppedWithout) => IlpInv'
<1> SUFFICES ASSUME IlpInv, StoppedWithSolution \/ StoppedWithout PROVE IlpInv'
  OBVIOUS
<1>1. /\ pc = "call" /\ feasible' = feasible /\ cut' = TRUE
      /\ best \in feasible /\ status = "s"
  BY DEF StoppedWithSolution, StoppedWithout, IlpInv, IlpControl
<1>2. Exact' /\ SolvedIsOptimal'
  BY <1>1 DEF Exact, SolvedIsOptimal
<1>3. CASE Fix
  <2>1. PICK v \in feasible : Constraints(v) /\ (best' = best \/ best' = BestOf(v, best))
    BY <1>1, HeldConstraints DEF StoppedWithSolution, StoppedWithout, Reached
  <2>2. best' \in feasible /\ Constraints(best') /\ Maximum(best', 0) <= Maximum(best, 0)
    BY <1>1, <2>1, NewSolution
  <2>3. IlpTypes' /\ IlpControl' /\ Held'
    BY <1>1, <1>3, <2>2, FixHeld
  <2> QED  BY <1>2, <2>3 DEF IlpInv
<1>4. CASE pc' = "exit" /\ UNCHANGED <<best, status, i, fixed, relax>>
  <2>1. IlpTypes' /\ IlpControl' /\ Held'
    BY <1>1, <1>4 DEF IlpInv, IlpTypes, SpecTypeOK, IlpControl, Held
  <2> QED  BY <1>2, <2>1 DEF IlpInv
<1> QED  BY <1>3, <1>4 DEF StoppedWithSolution, StoppedWithout

(***************************************************************************)
(* The inductive invariant of optimise_ilp, whatever the runs of the       *)
(* solver return.                                                          *)
(***************************************************************************)
THEOREM IlpInvariance == IlpSpec => []IlpInv
<1>1. IlpInv /\ [IlpNext]_ilp_vars => IlpInv'
  <2> SUFFICES ASSUME IlpInv, [IlpNext]_ilp_vars PROVE IlpInv'
    OBVIOUS
  <2>1. CASE IlpNext
    BY <2>1, IlpCheckSatInv, SolvedInv, StoppedInv DEF IlpNext
  <2>2. CASE UNCHANGED ilp_vars
    BY <2>2 DEF ilp_vars, IlpInv, IlpTypes, SpecTypeOK, IlpControl, Held, Exact, LeastUpTo, SolvedIsOptimal
  <2> QED  BY <2>1, <2>2
<1> QED  BY IlpInitInv, <1>1, PTL DEF IlpSpec

(***************************************************************************)
(* No run of optimise_ilp is on an infeasible problem, and the constraints *)
(* of the runs before exclude no solution as good as the one held, unless  *)
(* a run was stopped.                                                      *)
(***************************************************************************)
THEOREM KeepsAsGoodCorrect == IlpSpec => []KeepsAsGood
<1>1. IlpInv => KeepsAsGood
  <2> SUFFICES ASSUME IlpInv, pc = "call" PROVE
        /\ \E k \in Value : Reached(best, k)
        /\ ~ cut => \A v \in feasible : ~ Better(best, v) => Constraints(v)
    BY DEF KeepsAsGood
  <2>1. best \in feasible /\ i \in Nat /\ i <= N /\ IlpTypes
    BY Indices, NAssumption DEF IlpInv, IlpControl, IlpTypes, Obj
  <2>2. Maximum(best, i) \in Value /\ Reached(best, Maximum(best, i))
    BY <2>1, HeldConstraints, FeasibleValue
  <2>3. ASSUME ~ cut, NEW v \in feasible, ~ Better(best, v) PROVE Constraints(v)
    <3>1. LeastUpTo(best, i)
      BY <2>3 DEF IlpInv, Exact
    <3>2. SameMaxima(v, best, i)
      BY <2>1, <2>3, <3>1, NoWorseAgrees
    <3> QED  BY <2>3, <3>2, AgreesConstraints
  <2> QED  BY <2>2, <2>3
<1> QED  BY <1>1, IlpInvariance, PTL

(***************************************************************************)
(* If no run was stopped, the solution optimise_ilp reports is optimal.    *)
(***************************************************************************)
THEOREM SolvedCorrect == IlpSpec => []SolvedIsOptimal
<1>1. IlpInv => SolvedIsOptimal
  BY DEF IlpInv
<1> QED  BY <1>1, IlpInvariance, PTL
=============================================================================
