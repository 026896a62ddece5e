-------------------------------- MODULE Packup --------------------------------
(***************************************************************************)
(* A run of packup (src/old_packup/cudf_msu.cc): the document is read      *)
(* stanza by stanza, sliced and encoded; the soft clauses are solved by an *)
(* external program, one objective after the other (opb) or all at once    *)
(* (wcnf), or handed to the leximaxIST library; then the installation or   *)
(* FAIL is printed, once.  A signal may come between any two steps, and    *)
(* its handler prints what is known and exits.                             *)
(*                                                                         *)
(* External: the program that is called on a file, which prints an optimum *)
(* or, when it is killed, any point or nothing; and the library, which is  *)
(* module SolverApi: it holds points that get better, and ends with a best *)
(* one.                                                                    *)
(***************************************************************************)
EXTENDS PackupEncoder

Ref == INSTANCE CudfSpec

CONSTANT Cases    \* pairs [doc, o] of a document and of the options

\* the options: trendy, paranoid and user (the criteria), solve (FALSE when
\* solving is disabled), mode (the formalism, or which calls to the library
\* are asked for) and limit, whether the external program may be killed
Modes == {"opb", "wcnf", "lp", "optimise", "approx", "both"}

ASSUME PackupCases == \A c \in Cases : {"doc", "o"} \subseteq DOMAIN c /\ c.o.mode \in Modes

VARIABLES
  case,     \* the document and the options
  pos,      \* the next stanza
  pr,       \* what the encoder was told so far
  e,        \* the sliced problem
  enc,      \* its encoding
  points,   \* the models of the hard clauses, as points (below)
  pc,       \* read, encode, ready, library, optimal, external, store, print or done
  status,   \* get_status() of the library
  found,    \* m_solution of the library, or temporary_model: a set of at most one point
  model,    \* ExternalWrapper::model, the same
  scores,   \* solution_weights, as far as the objectives were solved
  killed,   \* ghost: the external program was killed
  end       \* what the run ends with

vars == <<case, pos, pr, e, enc, points, pc, status, found, model, scores, killed, end>>
solving == <<status, found, model, scores, killed>>

o == case.o
Library == o.mode \in {"optimise", "approx", "both"}

NoEnd == [kind |-> "none", units |-> {}, printed |-> << >>, signal |-> FALSE]
NoEncoding == [hard |-> {}, weights |-> << >>, soft |-> << >>, vars |-> {}]

Init ==
  /\ case \in Cases
  /\ pos = 1 /\ pr = EmptyProblem /\ e = Sliced(EmptyProblem, << >>) /\ enc = NoEncoding /\ points = {}
  /\ pc = "read" /\ status = "?" /\ found = {} /\ model = {} /\ scores = << >> /\ killed = FALSE
  /\ end = NoEnd

-----------------------------------------------------------------------------
(* The valuation that is printed with a solution *)

NewScore(I) ==
  Cardinality({n \in ReadNames(pr) : ~IsAnyInstalled(pr, ReadUnits(pr, n)) /\ I \cap ReadUnits(pr, n) # {}})
RemovedScore(I) ==
  Cardinality({n \in ReadNames(pr) : IsAnyInstalled(pr, ReadUnits(pr, n)) /\ I \cap ReadUnits(pr, n) = {}})
NotUpToDateScore(I) ==
  Cardinality({n \in ReadNames(pr) : I \cap ReadUnits(pr, n) # {} /\ I \cap NeedLatest(pr, n) = {}})
ChangedScore(I) ==
  Cardinality({n \in ReadNames(pr) : \E i \in ReadUnits(pr, n) : pr.units[i].installed # (i \in I)})

\* is_any_installed: for features, in the installation that was read
AnyInstalled(vp, I) ==
  IF IsFeature(pr, vp.name) THEN IsAnyInstalled(pr, NeedFeatures(pr, vp))
  ELSE I \cap NeedPackages(pr, vp) # {}

\* the conjuncts that are not satisfied, of all that is installed
RecommendsScore(I) ==
  Cardinality({r \in UNION {{i} \X DOMAIN pr.units[i].recommends : i \in I} :
                 \A vp \in Range(pr.units[r[1]].recommends[r[2]]) : ~AnyInstalled(vp, I)})

Valuation(I) ==
  [removed |-> RemovedScore(I), notuptodate |-> NotUpToDateScore(I),
   unmet_recommends |-> RecommendsScore(I), new |-> NewScore(I), changed |-> ChangedScore(I)]

-----------------------------------------------------------------------------
(* The ends of a run *)

Stop(kind, I, signal) ==
  /\ end' = [kind |-> kind, units |-> I, signal |-> signal,
             printed |-> IF kind = "answer" THEN Valuation(I) ELSE << >>]
  /\ pc' = "done"

\* print_solution
PrintSolution(m, signal) ==
  IF m = {} THEN Stop("FAIL", {}, signal) ELSE \E p \in m : Stop("answer", p.units, signal)

-----------------------------------------------------------------------------
(* Reading, slicing and encoding *)

Read ==
  /\ pc = "read" /\ pos <= Len(case.doc)
  /\ pr' = ReadStanza(pr, case.doc[pos])
  /\ pos' = pos + 1
  /\ UNCHANGED <<case, e, enc, points, pc, solving, end>>

Slice ==
  /\ pc = "read" /\ pos > Len(case.doc)
  /\ e' = Sliced(RefineUpgradeRequest(pr), Criteria(o))
  /\ pc' = "encode"
  /\ UNCHANGED <<case, pos, pr, enc, points, solving, end>>

(***************************************************************************)
(* A point: the units that are installed, the number of soft clauses of    *)
(* every objective that are false, and the cost in the WCNF file, which    *)
(* has a split clause several times, each with its whole weight.           *)
(***************************************************************************)
Point(s, en, a) ==
  LET copies == [c \in {d \in DOMAIN en.soft : ~Satisfied(a, d)} |-> Split(en.weights, en.soft[c])]
      Falsified(k) == FoldSet(LAMBDA c, t : t + copies[c][k], 0, DOMAIN copies)
      Copies(c) == FoldLeft(LAMBDA t, k : t + k, 0, copies[c])
  IN  [units |-> {i \in s.needed : UnitVar(s, i) \in a},
       vec |-> [k \in DOMAIN en.weights |-> Falsified(k)],
       cost |-> FoldSet(LAMBDA c, t : t + Copies(c) * en.soft[c], 0, DOMAIN copies)]

Encode ==
  /\ pc = "encode"
  /\ \E pref \in {EncodeLexicographic(e)} :
     \E written \in {Written(e, pref)} :
     \E intervals \in {ProcessIntervalVariables(e, written \cup {pref.soft[k][1] : k \in DOMAIN pref.soft})} :
     \E en \in {Encoding(e, pref, written, intervals, Top(e))} :
       /\ enc' = en
       /\ points' = {Point(e, en, a) : a \in ModelsOf(Order(en.vars), en.hard)}
  /\ pc' = "ready"
  /\ UNCHANGED <<case, pos, pr, e, solving, end>>

\* Encoder::solution and ExternalWrapper::solve
Start ==
  /\ pc = "ready"
  /\ IF ~o.solve THEN Stop("unsolved", {}, FALSE)
     ELSE /\ pc' = CASE Library -> "library" [] o.mode \in {"opb", "wcnf"} -> "external" [] OTHER -> "print"
          /\ UNCHANGED end
  /\ UNCHANGED <<case, pos, pr, e, enc, points, solving>>

-----------------------------------------------------------------------------
(* solve_leximax *)

Descending(v) == SortSeq(v, LAMBDA a, b : a > b)
LexLess(a, b) == \E k \in DOMAIN a : a[k] < b[k] /\ \A j \in 1..k-1 : a[j] = b[j]
LeximaxBetter(p, q) == LexLess(Descending(p.vec), Descending(q.vec))

\* The first call on the library finds a first point, or that there is none.
FirstCall ==
  /\ pc = "library" /\ status = "?"
  /\ IF o.mode = "optimise" /\ Len(enc.weights) < 2
     THEN Stop("exit", {}, FALSE) /\ UNCHANGED <<status, found>>
     ELSE /\ IF points = {} THEN status' = "u" /\ pc' = "print" /\ UNCHANGED found
             ELSE /\ status' = "s"
                  /\ \E p \in points : found' = {p}
                  /\ UNCHANGED pc
          /\ UNCHANGED end
  /\ UNCHANGED <<case, pos, pr, e, enc, points, model, scores, killed>>

Improve ==
  /\ pc = "library" /\ status = "s"
  /\ \E p \in points : /\ \A q \in found : LeximaxBetter(p, q)
                       /\ found' = {p}
  /\ UNCHANGED <<case, pos, pr, e, enc, points, pc, status, model, scores, killed, end>>

(***************************************************************************)
(* The optimisation ends with a best point.  The approximation ends with   *)
(* any; but it does not tell the library how many variables the input has, *)
(* so that get_solution returns one entry, and print_leximax_info, which   *)
(* looks up the others, throws.  optimise() exits if it is called next.    *)
(***************************************************************************)
LastCall ==
  /\ pc = "library" /\ status = "s"
  /\ CASE o.mode = "optimise" -> /\ \A p \in points, q \in found : ~LeximaxBetter(p, q)
                                 /\ status' = "o" /\ pc' = "optimal"
                                 /\ UNCHANGED end
       [] o.mode = "approx" -> Stop("abort", {}, FALSE) /\ UNCHANGED status
       [] OTHER -> Stop("exit", {}, FALSE) /\ UNCHANGED status
  /\ UNCHANGED <<case, pos, pr, e, enc, points, found, model, scores, killed>>

GetSolution ==
  /\ pc = "optimal"
  /\ model' = found
  /\ pc' = "print"
  /\ UNCHANGED <<case, pos, pr, e, enc, points, status, found, scores, killed, end>>

-----------------------------------------------------------------------------
(* solve_it and solve_max *)

\* what satisfies the constraints on the objectives that were solved before
Candidates == {p \in points : \A j \in DOMAIN scores : p.vec[j] <= scores[j]}
MinLevel(k) == {p \in Candidates : \A q \in Candidates : p.vec[k] <= q.vec[k]}
MinCost == {p \in points : \A q \in points : p.cost <= q.cost}

\* an optimum, nothing because there is none, or whatever a killed program
\* had printed
CallExternal(candidates, best) ==
  \/ /\ \/ candidates = {} /\ found' = {}
        \/ \E p \in best : found' = {p}
     /\ UNCHANGED killed
  \/ /\ o.limit /\ killed' = TRUE
     /\ \/ found' = {}
        \/ \E p \in candidates : found' = {p}

\* the model is cleared before the new one is copied to it
Clear == IF found' = {} THEN pc' = "print" /\ UNCHANGED model
         ELSE pc' = "store" /\ model' = {}

SolveLevel ==
  /\ pc = "external" /\ o.mode = "opb" /\ enc.weights # << >>
  /\ CallExternal(Candidates, MinLevel(Len(scores) + 1))
  /\ Clear
  /\ UNCHANGED <<case, pos, pr, e, enc, points, status, scores, end>>

StoreLevel ==
  /\ pc = "store" /\ o.mode = "opb"
  /\ model' = found
  /\ \E p \in found : scores' = Append(scores, p.vec[Len(scores) + 1])
  /\ pc' = IF Len(scores') = Len(enc.weights) THEN "print" ELSE "external"
  /\ UNCHANGED <<case, pos, pr, e, enc, points, status, found, killed, end>>

\* without objectives the model is read in place
SolveOnce ==
  /\ pc = "external" /\ o.mode = "opb" /\ enc.weights = << >>
  /\ CallExternal(points, points)
  /\ model' = found' /\ pc' = "print"
  /\ UNCHANGED <<case, pos, pr, e, enc, points, status, scores, end>>

SolveMax ==
  /\ pc = "external" /\ o.mode = "wcnf"
  /\ CallExternal(points, MinCost)
  /\ Clear
  /\ UNCHANGED <<case, pos, pr, e, enc, points, status, scores, end>>

StoreMax ==
  /\ pc = "store" /\ o.mode = "wcnf"
  /\ model' = found /\ pc' = "print"
  /\ UNCHANGED <<case, pos, pr, e, enc, points, status, found, scores, killed, end>>

Conclude ==
  /\ pc = "print"
  /\ PrintSolution(model, FALSE)
  /\ UNCHANGED <<case, pos, pr, e, enc, points, solving>>

-----------------------------------------------------------------------------
(***************************************************************************)
(* SIG_handler.  Once the library is called, its solution is printed if    *)
(* the status is s and the library knows how many variables there are;     *)
(* otherwise the model is emptied, and print_leximax_info throws when it   *)
(* looks up the variables of a soft clause.                                *)
(***************************************************************************)
Called == Library /\ pc \in {"library", "optimal", "print"}

Signal ==
  /\ pc # "done"
  /\ IF ~Called THEN PrintSolution(model, TRUE) /\ UNCHANGED model
     ELSE IF status = "s" /\ o.mode = "optimise"
     THEN PrintSolution(found, TRUE) /\ model' = found
     ELSE /\ model' = {}
          /\ IF enc.soft = << >> THEN Stop("FAIL", {}, TRUE) ELSE Stop("abort", {}, TRUE)
  /\ UNCHANGED <<case, pos, pr, e, enc, points, status, found, scores, killed>>

Next ==
  \/ Read \/ Slice \/ Encode \/ Start
  \/ FirstCall \/ Improve \/ LastCall \/ GetSolution
  \/ SolveLevel \/ StoreLevel \/ SolveOnce \/ SolveMax \/ StoreMax
  \/ Conclude \/ Signal

Spec == Init /\ [][Next]_vars

-----------------------------------------------------------------------------
(* Correctness *)

Packages == Ref!DocPackages(case.doc)
Request == Ref!DocRequest(case.doc)
Solutions == Ref!ValidInstallations(Packages, Request)

Decls == <<[prop |-> "recommends", type |-> "vpkgformula", default |-> [set |-> TRUE, val |-> << >>], enum |-> {}]>>

\* the criteria of packup in the words of mccs
Measure(word, I) ==
  Ref!Measure(Packages, Decls,
              [crit |-> IF word = "unmet_recommends" THEN "nunsat" ELSE word, prop |-> "recommends", opt |-> TRUE],
              I)
Signed(c, I) == IF c.max THEN -Measure(c.word, I) ELSE Measure(c.word, I)
Costs(I) == [k \in DOMAIN e.lex |-> Signed(e.lex[k], I)]

(***************************************************************************)
(* The models of the hard clauses are exactly the valid installations of   *)
(* the needed units, for every valuation of the variables of features,     *)
(* intervals and criteria that can be completed: no interval variable, no  *)
(* link between intervals, no edge and no clause for packages that are not *)
(* removed excludes one, and none lets a set pass that breaks a dependency *)
(* or a request.                                                           *)
(***************************************************************************)
EncodingExact ==
  pc = "ready" =>
    {p.units : p \in points} = {I \in Solutions : I \subseteq e.needed}

\* the weight of the criterion at position k
WeightOf(k) ==
  EncodeLexicographic([e EXCEPT !.lex = SubSeq(e.lex, k + 1, Len(e.lex))]).total + 1

(***************************************************************************)
(* For every installation there is a model in which all the objectives     *)
(* have at once the least numbers of false clauses, and these are what the *)
(* criteria measure ("The objective function is EXACTLY the number of      *)
(* changed packages", Encoder.cc:880).  A criterion without soft clauses   *)
(* shares the weight of another, and is 0; a maximised one is compared by  *)
(* differences.  A point has a natural number for every objective.         *)
(***************************************************************************)
ObjectivesExact ==
  pc = "ready" =>
    LET Of(w) == {k \in DOMAIN e.lex : WeightOf(k) = w}
        Sum(S, I) == FoldSet(LAMBDA k, t : t + Signed(e.lex[k], I), 0, S)
        least == {p \in points : \A q \in points : q.units = p.units => \A k \in DOMAIN p.vec : p.vec[k] <= q.vec[k]}
    IN  /\ enc.weights \in Seq(Nat) /\ \A p \in points : p.vec \in [DOMAIN enc.weights -> Nat]
        /\ {p.units : p \in least} = {p.units : p \in points}
        /\ \A k \in DOMAIN enc.weights : LET S == Of(enc.weights[k]) IN
             IF \E j \in S : e.lex[j].max
             THEN \A p, q \in least : p.vec[k] - q.vec[k] = Sum(S, p.units) - Sum(S, q.units)
             ELSE \A p \in least : p.vec[k] = Sum(S, p.units)

Better(I, J) ==
  IF o.mode = "optimise" THEN LexLess(Descending(Costs(I)), Descending(Costs(J)))
  ELSE LexLess(Costs(I), Costs(J))

FeatureRecommended ==
  \E i \in Units(pr) : \E k \in DOMAIN pr.units[i].recommends :
    \E vp \in Range(pr.units[i].recommends[k]) : IsFeature(pr, vp.name)

AnswerValid == end.kind = "answer" => end.units \in Solutions

AnswerBest ==
  end.kind = "answer" /\ ~end.signal /\ ~killed => \A J \in Solutions : ~Better(J, end.units)

\* no point is better for the objectives that were solved, one after the other
LevelsBest ==
  end.kind = "answer" /\ o.mode = "opb" /\ ~killed =>
    \A p \in points, q \in model :
      ~LexLess(SubSeq(p.vec, 1, Len(scores)), SubSeq(q.vec, 1, Len(scores)))

PrintedTrue ==
  end.kind = "answer" =>
    \A word \in DOMAIN end.printed \ (IF FeatureRecommended THEN {"unmet_recommends"} ELSE {}) :
      end.printed[word] = Measure(word, end.units)

EndsJustified ==
  /\ end.kind = "FAIL" => Solutions = {} \/ end.signal \/ killed \/ o.mode = "lp"
  /\ end.kind = "exit" => o.mode = "both" \/ (o.mode = "optimise" /\ Len(enc.weights) < 2)
  /\ end.kind = "abort" => end.signal \/ o.mode = "approx"

(***************************************************************************)
(* Whatever is printed is justified, also by the signal handler.  An       *)
(* installation is valid in the whole universe, and its valuation is that  *)
(* of the criteria (recommended features excepted); if the run was not cut *)
(* short, no valid installation is better, although the units that were    *)
(* sliced away were never looked at, and if the program of a later         *)
(* objective was interrupted, none is better for the objectives solved.    *)
(* FAIL is printed only if there is none, or a signal or a killed program  *)
(* left nothing, or the formalism is lp; a run that ends otherwise has     *)
(* fewer than two objectives, or called the approximation, or was          *)
(* interrupted.                                                            *)
(***************************************************************************)
AnswerJustified == AnswerValid /\ AnswerBest /\ LevelsBest /\ PrintedTrue /\ EndsJustified
=============================================================================
