-------------------------- MODULE SolverApiProofs --------------------------
(***************************************************************************)
(* Proofs about SolverApi for every set of points and costs, and every     *)
(* number of objectives.                                                   *)
(***************************************************************************)
EXTENDS SolverApi, LeximaxProofs, SequenceTheorems

(***************************************************************************)
(* No caller optimises the object it has approximated with: main would,    *)
(* given both options.                                                     *)
(***************************************************************************)
OneCall == \A c \in Configs : c.client = "main" /\ c.optimise => c.approx = ""

(***************************************************************************)
(* The inductive invariant.  Until the first call, and until optimise has  *)
(* called the SAT solver, the object holds the formula of its caller and   *)
(* nothing else.                                                           *)
(***************************************************************************)
Empty ==
  /\ status = "?" /\ solution = NoSolution
  /\ hard = formula /\ sat = formula

Control ==
  /\ "approximate" \in calls => config.approx # ""
  /\ calls = {} => pc = "idle" /\ Empty /\ inputVars = 0
  /\ pc = "check" => Empty
  /\ pc \in {"approximate", "optimise"} => solution # NoSolution
  /\ pc = "approximate" => status \in {"s", "?"}
  /\ pc = "optimise" => status = "s"

Held ==
  /\ hard \subseteq formula /\ inputVars <= ids
  /\ solution # NoSolution => solution.point \in formula /\ inputVars <= solution.vars
  /\ pc = "approximate" => inputVars = 0

IInv == TypeOK /\ Control /\ Held /\ ReportTrue /\ SolutionCovered /\ BetterKept

-----------------------------------------------------------------------------
(* Every point has an objective vector. *)
LEMMA ValVector ==
  ASSUME TypeOK, NEW p \in Points
  PROVE  Val(p) \in Vector
<1>1. ASSUME NEW j \in Obj, j < Len(objectives) PROVE objectives[j+1][p] \in Value
  <2>1. j + 1 \in 1 .. Len(objectives)
    BY <1>1, NAssumption DEF TypeOK, Obj
  <2>2. objectives[j+1] \in [Points -> Value]
    BY <2>1, ElementOfSeq DEF TypeOK
  <2> QED  BY <2>2
<1>2. 0 \in Value
  BY SizeAssumption DEF Value
<1> QED  BY <1>1, <1>2 DEF Val, Vector

(* The vectors do not change while the objectives do not. *)
LEMMA ValUnchanged ==
  ASSUME objectives' = objectives, NEW p
  PROVE  Val(p)' = Val(p)
BY DEF Val

(***************************************************************************)
(* set_solution holds a solution afterwards: the new one, or the old one.  *)
(***************************************************************************)
LEMMA HoldResult ==
  ASSUME solution \in [point : Points, vars : Nat] \cup {NoSolution},
         NEW p \in Points, NEW v \in Nat, Hold(p, v)
  PROVE  /\ solution' \in [point : Points, vars : Nat]
         /\ solution' # NoSolution
         /\ \/ solution' = [point |-> p, vars |-> v]
            \/ solution # NoSolution /\ solution' = solution
BY NoSolutionAssumption DEF Hold

LEMMA TypeInit == Init => TypeOK
<1> SUFFICES ASSUME Init PROVE TypeOK
  OBVIOUS
<1>1. objectives \in Seq([Points -> Value]) /\ Len(objectives) <= N
  BY EmptySeq, NAssumption DEF Init
<1> QED  BY <1>1 DEF Init, TypeOK

(***************************************************************************)
(* Every step keeps the types.                                             *)
(***************************************************************************)
LEMMA TypeStep == TypeOK /\ Control /\ [Next]_vars => TypeOK'
<1> SUFFICES ASSUME TypeOK, Control, [Next]_vars PROVE TypeOK'
  OBVIOUS
<1> USE DEF TypeOK, problem
<1>1. ASSUME NEW C \in SUBSET Points, AddHardClause(C) PROVE TypeOK'
  BY <1>1 DEF AddHardClause
<1>2. ASSUME NEW c \in Costs, AddSoftClauses(c) PROVE TypeOK'
  <2>1. objectives' \in Seq([Points -> Value]) /\ Len(objectives') <= N
    BY <1>2, CostsAssumption, AppendProperties, NAssumption DEF AddSoftClauses
  <2> QED  BY <1>2, <2>1 DEF AddSoftClauses
<1>3. ASSUME AddNoSoftClauses PROVE TypeOK'
  <2>1. [p \in Points |-> 0] \in [Points -> Value]
    BY SizeAssumption DEF Value
  <2>2. objectives' \in Seq([Points -> Value]) /\ Len(objectives') <= N
    BY <1>3, <2>1, AppendProperties, NAssumption DEF AddNoSoftClauses
  <2> QED  BY <1>3, <2>2 DEF AddNoSoftClauses
<1>4. ASSUME Approximate PROVE TypeOK'
  <2>1. CASE pc' = "approximate"
    <3>1. PICK p \in Points : Hold(p, ids)
      BY <1>4, <2>1 DEF Approximate
    <3>2. solution' \in [point : Points, vars : Nat] /\ solution' # NoSolution
      BY <3>1, HoldResult
    <3>3. status' \in {"?", "s", "u", "o"} /\ calls' \subseteq {"approximate", "optimise"}
      BY <1>4 DEF Approximate
    <3>4. ids' = ids \/ ids' = ids + 1
      BY <1>4 DEF Approximate
    <3>5. ids' \in Nat
      BY <3>4
    <3>6. UNCHANGED <<config, formula, objectives, hard, sat, solver, inputVars>>
      BY <1>4 DEF Approximate
    <3> QED  BY <2>1, <3>2, <3>3, <3>5, <3>6
  <2>2. CASE pc' # "approximate"
    BY <1>4, <2>2 DEF Approximate
  <2> QED  BY <2>1, <2>2
<1>5. ASSUME ApproximateImproves PROVE TypeOK'
  <2>1. PICK p \in Points : Hold(p, ids)
    BY <1>5 DEF ApproximateImproves
  <2>2. solution' \in [point : Points, vars : Nat] /\ solution' # NoSolution
    BY <2>1, HoldResult
  <2> QED  BY <1>5, <2>2 DEF ApproximateImproves
<1>6. ASSUME Bounded PROVE TypeOK'
  BY <1>6 DEF Bounded
<1>7. ASSUME Blocked PROVE TypeOK'
  BY <1>7 DEF Blocked
<1>8. ASSUME ApproximateReturns PROVE TypeOK'
  BY <1>8 DEF ApproximateReturns
<1>9. ASSUME Optimise PROVE TypeOK'
  BY <1>9 DEF Optimise
<1>10. ASSUME CheckProblem PROVE TypeOK'
  <2>1. CASE pc' = "optimise"
    <3>1. PICK p \in Points : Hold(p, ids)
      BY <1>10, <2>1 DEF CheckProblem
    <3>2. solution' \in [point : Points, vars : Nat] /\ solution' # NoSolution
      BY <3>1, HoldResult
    <3>3. status' \in {"?", "s", "u", "o"} /\ ids' \in Nat
      BY <1>10 DEF CheckProblem
    <3>4. UNCHANGED <<config, formula, objectives, hard, sat, solver, inputVars, calls>>
      BY <1>10 DEF CheckProblem
    <3> QED  BY <2>1, <3>2, <3>3, <3>4
  <2>2. CASE pc' # "optimise"
    BY <1>10, <2>2 DEF CheckProblem
  <2> QED  BY <2>1, <2>2
<1>11. ASSUME OptimiseImproves PROVE TypeOK'
  <2>1. PICK p \in Points : Hold(p, ids)
    BY <1>11 DEF OptimiseImproves
  <2>2. solution' \in [point : Points, vars : Nat] /\ solution' # NoSolution
    BY <2>1, HoldResult
  <2> QED  BY <1>11, <2>2 DEF OptimiseImproves
<1>12. ASSUME OptimiseRestricts PROVE TypeOK'
  BY <1>12 DEF OptimiseRestricts
<1>13. ASSUME OptimiseReturns PROVE TypeOK'
  BY <1>13 DEF OptimiseReturns, Control
<1>14. ASSUME Clear PROVE TypeOK'
  <2>1. objectives' \in Seq([Points -> Value]) /\ Len(objectives') <= N
    BY <1>14, EmptySeq, NAssumption DEF Clear
  <2> QED  BY <1>14, <2>1 DEF Clear
<1>15. CASE UNCHANGED vars
  BY <1>15 DEF vars
<1> QED
  BY <1>1, <1>2, <1>3, <1>4, <1>5, <1>6, <1>7, <1>8, <1>9, <1>10, <1>11, <1>12, <1>13, <1>14, <1>15
  DEF Next

(***************************************************************************)
(* The parts of the invariant other than the types.                        *)
(***************************************************************************)
Rest == Control /\ Held /\ ReportTrue /\ SolutionCovered /\ BetterKept

LEMMA InvInit == Init => IInv
<1> SUFFICES ASSUME Init PROVE IInv
  OBVIOUS
<1>1. TypeOK
  BY TypeInit
<1>2. Rest
  BY DEF Init, Rest, Control, Empty, Held, ReportTrue, SolutionCovered, BetterKept
<1> QED  BY <1>1, <1>2 DEF IInv, Rest

LEMMA InvStep ==
  ASSUME OneCall, IInv, [Next]_vars
  PROVE  IInv'
<1>1. TypeOK'
  BY TypeStep DEF IInv
<1> USE DEF problem
<1>2. ASSUME NEW C \in SUBSET Points, AddHardClause(C) PROVE Rest'
  BY <1>2 DEF AddHardClause, IInv, TypeOK, Rest, Control, Empty, Held, ReportTrue, SolutionCovered, BetterKept
<1>3. ASSUME NEW c \in Costs, AddSoftClauses(c) PROVE Rest'
  BY <1>3 DEF AddSoftClauses, IInv, TypeOK, Rest, Control, Empty, Held, ReportTrue, SolutionCovered, BetterKept
<1>4. ASSUME AddNoSoftClauses PROVE Rest'
  BY <1>4 DEF AddNoSoftClauses, IInv, TypeOK, Rest, Control, Empty, Held, ReportTrue, SolutionCovered, BetterKept
<1>5. ASSUME Approximate PROVE Rest'
  <2>1. Empty /\ inputVars = 0 /\ ids \in Nat /\ UNCHANGED <<config, formula, hard, sat, inputVars, objectives>>
    BY <1>5 DEF Approximate, IInv, TypeOK, Control
  <2>2. CASE pc' = "approximate"
    <3>1. PICK p \in sat : Hold(p, ids)
      BY <1>5, <2>2 DEF Approximate
    <3>2. solution' = [point |-> p, vars |-> ids] /\ solution' # NoSolution
      BY <2>1, <3>1, HoldResult DEF Empty, IInv, TypeOK
    <3>3. status' = "s" /\ config.approx # "" /\ calls' # {}
      BY <1>5, <2>2 DEF Approximate
    <3>4. ids' = ids \/ ids' = ids + 1
      BY <1>5 DEF Approximate
    <3>5. solution'.point = p /\ solution'.vars = ids /\ p \in formula
      BY <2>1, <3>2 DEF Empty
    <3>6. Control'
      BY <2>1, <2>2, <3>2, <3>3 DEF Control
    <3>7. Held'
      BY <2>1, <3>4, <3>5, <2>2 DEF Empty, Held
    <3>8. SolutionCovered'
      BY <2>1, <3>5 DEF SolutionCovered
    <3>9. ReportTrue'
      BY <2>1, <3>2, <3>3, <3>5 DEF ReportTrue
    <3>10. BetterKept'
      BY <2>2 DEF BetterKept
    <3> QED  BY <3>6, <3>7, <3>8, <3>9, <3>10 DEF Rest
  <2>3. CASE pc' # "approximate"
    BY <1>5, <2>1, <2>3 DEF Approximate, IInv, Rest, Control, Empty, Held, ReportTrue, SolutionCovered, BetterKept
  <2> QED  BY <2>2, <2>3
<1>6. ASSUME ApproximateImproves PROVE Rest'
  <2>1. PICK p \in hard : Hold(p, ids)
    BY <1>6 DEF ApproximateImproves
  <2>2. \/ solution' = [point |-> p, vars |-> ids] /\ solution' # NoSolution
        \/ solution' = solution
    BY <2>1, HoldResult DEF IInv, TypeOK
  <2>3. p \in formula /\ inputVars = 0 /\ ids \in Nat
    BY <1>6 DEF ApproximateImproves, IInv, TypeOK, Held
  <2>4. /\ solution' # NoSolution
        /\ solution'.point \in formula /\ inputVars <= solution'.vars
    <3>1. CASE solution' = solution
      BY <1>6, <3>1 DEF ApproximateImproves, IInv, Control, Held
    <3>2. CASE solution' = [point |-> p, vars |-> ids] /\ solution' # NoSolution
      BY <2>3, <3>2
    <3> QED  BY <2>2, <3>1, <3>2
  <2>5. pc = "approximate" /\ pc' = pc /\ status' = status /\ status \in {"s", "?"}
    BY <1>6 DEF ApproximateImproves, IInv, Control
  <2>6. UNCHANGED <<config, formula, hard, sat, inputVars, ids, calls>>
    BY <1>6 DEF ApproximateImproves
  <2>7. Control' /\ Held'
    BY <2>3, <2>4, <2>5, <2>6 DEF IInv, Control, Held
  <2>8. ReportTrue' /\ SolutionCovered' /\ BetterKept'
    BY <2>4, <2>5, <2>6 DEF ReportTrue, SolutionCovered, BetterKept
  <2> QED  BY <2>7, <2>8 DEF Rest
<1>7. ASSUME Bounded PROVE Rest'
  BY <1>7 DEF Bounded, IInv, TypeOK, Rest, Control, Empty, Held, ReportTrue, SolutionCovered, BetterKept, Val
<1>8. ASSUME Blocked PROVE Rest'
  BY <1>8 DEF Blocked, IInv, TypeOK, Rest, Control, Empty, Held, ReportTrue, SolutionCovered, BetterKept
<1>9. ASSUME ApproximateReturns PROVE Rest'
  BY <1>9 DEF ApproximateReturns, IInv, TypeOK, Rest, Control, Empty, Held, ReportTrue, SolutionCovered, BetterKept
<1>10. ASSUME Optimise PROVE Rest'
  <2>1. calls = {}
    BY <1>10 DEF Optimise, MayOptimise, OneCall, IInv, TypeOK, Control
  <2> QED
    BY <1>10, <2>1 DEF Optimise, IInv, TypeOK, Rest, Control, Empty, Held, ReportTrue, SolutionCovered, BetterKept
<1>11. ASSUME CheckProblem PROVE Rest'
  <2>1. Empty /\ ids \in Nat /\ inputVars \in Nat /\ inputVars <= ids
         /\ UNCHANGED <<config, formula, hard, sat, inputVars, objectives, calls>>
    BY <1>11 DEF CheckProblem, IInv, TypeOK, Control, Held
  <2>2. CASE pc' = "optimise"
    <3>1. PICK p \in sat : Hold(p, ids)
      BY <1>11, <2>2 DEF CheckProblem
    <3>2. solution' = [point |-> p, vars |-> ids] /\ solution' # NoSolution
      BY <2>1, <3>1, HoldResult DEF Empty, IInv, TypeOK
    <3>3. status' = "s" /\ ids' = ids + 1 /\ calls # {}
      BY <1>11, <2>2 DEF CheckProblem, IInv, Control
    <3>4. solution'.point = p /\ solution'.vars = ids /\ p \in formula
      BY <2>1, <3>2 DEF Empty
    <3>5. Control'
      BY <2>1, <2>2, <3>2, <3>3 DEF IInv, Control
    <3>6. Held'
      BY <2>1, <2>2, <3>3, <3>4 DEF Empty, Held
    <3>7. ReportTrue' /\ SolutionCovered' /\ BetterKept'
      BY <2>1, <2>2, <3>2, <3>3, <3>4 DEF Empty, ReportTrue, SolutionCovered, BetterKept
    <3> QED  BY <3>5, <3>6, <3>7 DEF Rest
  <2>3. CASE pc' # "optimise"
    BY <1>11, <2>1, <2>3 DEF CheckProblem, IInv, Rest, Control, Empty, Held, ReportTrue, SolutionCovered, BetterKept
  <2> QED  BY <2>2, <2>3
<1>12. ASSUME OptimiseImproves PROVE Rest'
  <2>1. PICK p \in sat : Better(Val(p), Val(solution.point)) /\ Hold(p, ids)
    BY <1>12 DEF OptimiseImproves
  <2>2. solution # NoSolution /\ solution.point \in Points
    BY <1>12 DEF OptimiseImproves, IInv, TypeOK, Control
  <2>3. solution' = [point |-> p, vars |-> ids] /\ solution' # NoSolution
    BY <2>1, <2>2, NoSolutionAssumption DEF Hold, IInv, TypeOK
  <2>4. p \in formula /\ p \in Points
    BY DEF IInv, TypeOK, Held
  <2>5. BetterKept'
    <3> SUFFICES ASSUME NEW q \in formula, Better(Val(q), Val(p)) PROVE q \in sat
      BY <1>12, <2>3 DEF OptimiseImproves, BetterKept, Val
    <3>1. Val(q) \in Vector /\ Val(p) \in Vector /\ Val(solution.point) \in Vector
      BY <2>2, <2>4, ValVector DEF IInv, TypeOK
    <3>2. Better(Val(q), Val(solution.point))
      BY <2>1, <3>1, BetterTransitive
    <3> QED  BY <1>12, <3>2 DEF OptimiseImproves, IInv, BetterKept
  <2> QED
    BY <1>12, <2>3, <2>4, <2>5 DEF OptimiseImproves, IInv, TypeOK, Rest, Control, Empty, Held, ReportTrue, SolutionCovered
<1>13. ASSUME OptimiseRestricts PROVE Rest'
  <2>1. BetterKept'
    BY <1>13 DEF OptimiseRestricts, IInv, BetterKept, Val
  <2> QED
    BY <1>13, <2>1 DEF OptimiseRestricts, IInv, TypeOK, Rest, Control, Empty, Held, ReportTrue, SolutionCovered
<1>14. ASSUME OptimiseReturns PROVE Rest'
  <2>1. \A p \in formula : ~ Better(Val(p), Val(solution.point))
    BY <1>14 DEF OptimiseReturns, IInv, BetterKept
  <2>2. ReportTrue'
    BY <1>14, <2>1 DEF OptimiseReturns, IInv, Control, Held, ReportTrue, Val
  <2> QED
    BY <1>14, <2>2 DEF OptimiseReturns, IInv, TypeOK, Rest, Control, Empty, Held, SolutionCovered, BetterKept
<1>15. ASSUME Clear PROVE Rest'
  <2>1. /\ pc' = "idle" /\ calls' = {} /\ status' = "?" /\ solution' = NoSolution
        /\ hard' = formula' /\ sat' = formula' /\ inputVars' = 0 /\ ids' = 0
    BY <1>15 DEF Clear
  <2> QED  BY <2>1 DEF Rest, Control, Empty, Held, ReportTrue, SolutionCovered, BetterKept
<1>16. ASSUME UNCHANGED vars PROVE Rest'
  <2>1. Control' /\ Held' /\ SolutionCovered'
    BY <1>16 DEF vars, IInv, Control, Empty, Held, SolutionCovered
  <2>2. ReportTrue' /\ BetterKept'
    BY <1>16 DEF vars, IInv, ReportTrue, BetterKept, Val
  <2> QED  BY <2>1, <2>2 DEF Rest
<1>17. ASSUME Next PROVE Rest'
  BY <1>17, <1>2, <1>3, <1>4, <1>5, <1>6, <1>7, <1>8, <1>9, <1>10, <1>11, <1>12, <1>13, <1>14, <1>15 DEF Next
<1>18. Rest'
  BY <1>16, <1>17
<1> QED  BY <1>1, <1>18 DEF IInv, Rest

-----------------------------------------------------------------------------
(***************************************************************************)
(* The invariant holds for every caller that makes one call.               *)
(***************************************************************************)
THEOREM ApiInvariance ==
  ASSUME OneCall
  PROVE  Spec => []IInv
<1>1. Init => IInv
  BY InvInit
<1>2. IInv /\ [Next]_vars => IInv'
  BY InvStep
<1> QED  BY <1>1, <1>2, PTL DEF Spec

(* Type correctness of the life cycle.                                     *)
THEOREM ApiTypes ==
  ASSUME OneCall
  PROVE  Spec => []TypeOK
<1>1. IInv => TypeOK
  BY DEF IInv
<1> QED  BY <1>1, ApiInvariance, PTL

(***************************************************************************)
(* Whatever a call returns, the status and the solution reported are true  *)
(* of the formula of the caller, and at every moment before that.          *)
(***************************************************************************)
THEOREM ReportCorrect ==
  ASSUME OneCall
  PROVE  Spec => []ReportTrue
<1>1. IInv => ReportTrue
  BY DEF IInv
<1> QED  BY <1>1, ApiInvariance, PTL

(***************************************************************************)
(* get_solution finds a value for every input variable.                    *)
(***************************************************************************)
THEOREM CoverCorrect ==
  ASSUME OneCall
  PROVE  Spec => []SolutionCovered
<1>1. IInv => SolutionCovered
  BY DEF IInv
<1> QED  BY <1>1, ApiInvariance, PTL

(***************************************************************************)
(* The SAT solver keeps every solution that is better than the one held.   *)
(***************************************************************************)
THEOREM BetterKeptCorrect ==
  ASSUME OneCall
  PROVE  Spec => []BetterKept
<1>1. IInv => BetterKept
  BY DEF IInv
<1> QED  BY <1>1, ApiInvariance, PTL
=============================================================================
