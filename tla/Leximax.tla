------------------------------ MODULE Leximax ------------------------------
(***************************************************************************)
(* Objective vectors and the leximax order, the data every algorithm of    *)
(* the library works on.  The objectives are numbered from 0, as in the    *)
(* code, and so are the maxima: the 0th maximum is the largest value.      *)
(***************************************************************************)
EXTENDS Integers, FiniteSets

CONSTANTS
  N,      \* number of objective functions (m_num_objectives)
  Size    \* number of variables of the largest objective (largest_obj)

ASSUME NAssumption == N \in Nat \ {0}
ASSUME SizeAssumption == Size \in Nat

Obj == 0 .. N-1
Value == 0 .. Size

(***************************************************************************)
(* The values of the objective functions in an assignment of the           *)
(* variables (get_objective_vector).                                       *)
(***************************************************************************)
Vector == [Obj -> Value]

(***************************************************************************)
(* The constraint of iteration i on the values of the objectives: of the N *)
(* objectives at most i are relaxed (at_most), and every other one is      *)
(* bounded by the new variable (componentwise_OR).                         *)
(***************************************************************************)
Above(v, k) == {j \in Obj : v[j] > k}
AtMostAbove(v, i, k) == Cardinality(Above(v, k)) <= i

(***************************************************************************)
(* Entry i of v in descending order: the least k that at most i entries    *)
(* of v exceed.                                                            *)
(***************************************************************************)
Maximum(v, i) ==
  CHOOSE k \in Value : /\ AtMostAbove(v, i, k)
                       /\ \A m \in Value : AtMostAbove(v, i, m) => k <= m

SameMaxima(u, v, i) == \A j \in 0 .. i-1 : Maximum(u, j) = Maximum(v, j)

(***************************************************************************)
(* The first maximum in which u and v differ is smaller in u.              *)
(***************************************************************************)
Better(u, v) ==
  \E i \in Obj : SameMaxima(u, v, i) /\ Maximum(u, i) < Maximum(v, i)

(***************************************************************************)
(* set_solution: the new model replaces the one held only if it is better. *)
(***************************************************************************)
BestOf(new, old) == IF Better(new, old) THEN new ELSE old

Optimal(v, F) == v \in F /\ \A u \in F : ~ Better(u, v)
=============================================================================
