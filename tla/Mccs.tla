--------------------------------- MODULE Mccs ---------------------------------
(***************************************************************************)
(* A run of mccs (src/mccs-1.1/sources/cudf.c): the document is read       *)
(* stanza by stanza, the problem is reduced, the integer program is built, *)
(* and one of the back ends solves its objectives one after the other,     *)
(* each with the values of the objectives before it as equations; then the *)
(* installation or FAIL is printed.                                        *)
(*                                                                         *)
(* The solvers behind the back ends (CPLEX, Gurobi, GLPK, lp_solve, the    *)
(* programs run on LP and OPB files) are external: one call returns some   *)
(* optimum of the program, or that there is none, or, where the back end   *)
(* handles it, that its time is over.  GLPK may also have finished without *)
(* a word about that there is none.                                        *)
(***************************************************************************)
EXTENDS MccsCriteria, CudfSpec

CONSTANT Cases    \* pairs [doc, o] of a document and of the options

\* the options: comb and crits from -lexicographic[...] and its like (comb is
\* "none" when none is given), agg, deagg, cov, noreduce, nosolve, and the
\* back end with, for the two that may run out of time, limit
BackEnds == {"scip", "coin", "pblib", "cplex", "gurobi", "glpk", "lpsolve"}

ASSUME CasesAssumption ==
  \A c \in Cases : /\ {"doc", "o"} \subseteq DOMAIN c
                   /\ c.o.backend \in BackEnds
                   /\ c.o.limit => c.o.backend \in {"scip", "cplex"}

VARIABLES
  case,     \* the document and the options
  pos,      \* the next stanza of the document
  u,        \* the globals of the parser
  pc,       \* parse, reduce, allocate, generate, solve, print or done
  pb,       \* the problem that is solved: its packages and its names
  objs,     \* the objectives, functions from columns to coefficients
  built,    \* the combiner with its columns
  cand,     \* the points of the integer program as it stands
  iobj,     \* the objective to solve next
  status,   \* status of solve(), 0 or 1
  sol,      \* the packages of the solution that was read, or Unread
  limited,  \* ghost: a time limit was hit
  lost,     \* the solver holds no solution any more (init_solutions fails)
  out       \* what the run ends with

vars == <<case, pos, u, pc, pb, built, objs, cand, iobj, status, sol, limited, lost, out>>
solving == <<built, objs, cand, iobj, status, sol, limited, lost>>

Unread == {0}
NoProblem == [pkgs |-> {}, names |-> {}]
NoOut == [kind |-> "none", inst |-> {}]

o == case.o

-----------------------------------------------------------------------------
(* The criteria of the command line *)

\* get_criteria_lambda: the weight of a word, and the sign before it
Lambda(t) == IF t.sign = "+" THEN -t.lambda ELSE t.lambda

Criterion0(crit, lambda, prop, opt, crits) ==
  [crit |-> crit, lambda |-> lambda, prop |-> prop, opt |-> opt, crits |-> crits]

RECURSIVE Criterion(_)
\* process_criteria: a sign, a word, a weight; "+leximax" is a leximin
Criterion(t) ==
  LET Is(crit, l) == Criterion0(crit, l, t.prop, t.opt, [k \in DOMAIN t.crits |-> Criterion(t.crits[k])])
  IN  IF t.word \in {"leximax", "leximin"}
      THEN Is(IF (t.word = "leximax") = (t.sign = "-") THEN "leximax" ELSE "leximin", 1)
      ELSE Is(t.word, Lambda(t))

\* the options -lexicographic, -agregate, ... and their criteria
GivenCombiner == Criterion0(o.comb, 1, "", FALSE, [k \in DOMAIN o.crits |-> Criterion(o.crits[k])])

DefaultCombiner ==
  Criterion0("lexicographic", 1, "", FALSE, <<Criterion0("removed", 1, "", FALSE, << >>)>>)

combiner == IF o.comb = "none" THEN DefaultCombiner ELSE GivenCombiner

RECURSIVE NeedsIntegers(_)
NeedsIntegers(c) == c.crit \in Leximaxes \/ \E k \in DOMAIN c.crits : NeedsIntegers(c.crits[k])

-----------------------------------------------------------------------------
Init ==
  /\ case \in Cases
  /\ pos = 1 /\ u = EmptyUniverse /\ pc = "parse" /\ pb = NoProblem
  /\ built = << >> /\ objs = << >> /\ cand = {} /\ iobj = 1 /\ status = 0 /\ sol = Unread
  /\ limited = FALSE /\ lost = FALSE /\ out = NoOut

Stop(kind, inst) ==
  /\ out' = [kind |-> kind, inst |-> inst]
  /\ pc' = "done"

-----------------------------------------------------------------------------
(* Reading the document *)

Parse ==
  /\ pc = "parse" /\ pos <= Len(case.doc)
  /\ u' = ReadStanza(u, case.doc[pos])
  /\ IF u'.error THEN Stop("refused", {}) ELSE UNCHANGED <<pc, out>>
  /\ pos' = pos + 1
  /\ UNCHANGED <<case, pb, solving>>

EndOfInput ==
  /\ pc = "parse" /\ pos > Len(case.doc)
  /\ pc' = "reduce"
  /\ UNCHANGED <<case, pos, u, pb, solving, out>>

\* check_property, can_reduce, compute_reduced_CUDF and initialize
Reduce ==
  /\ pc = "reduce"
  /\ pb' = IF CanReduce(combiner, 1) /\ ~o.noreduce THEN Reduced(u, Processed(u, combiner)) ELSE Whole(u)
  /\ IF NeedsIntegers(combiner) /\ o.backend = "pblib"
     THEN Stop("exit", {})
     ELSE pc' = "allocate" /\ UNCHANGED out
  /\ UNCHANGED <<case, pos, u, solving>>

-----------------------------------------------------------------------------
(* The integer program *)

env == [u |-> u, pb |-> pb, cov |-> o.cov]
FirstNew == Len(u.pkgs) + 1
FirstCrit == FirstOf(Upgrades(u), FirstNew, Len(u.request.upgrade) + 1)
LastCol == built.next - 1

\* the criteria learn the problem, and get their columns
Allocate ==
  /\ pc = "allocate"
  /\ built' = Allocated(env, combiner, FirstCrit)
  /\ pc' = "generate"
  /\ UNCHANGED <<case, pos, u, pb, objs, cand, iobj, status, sol, limited, lost, out>>

Program ==
  Written(RequestRows(u, pb, o, FirstNew)
            \cup PackageRows(u, pb, o)
            \cup CriteriaRows(env, built))

Lhs(co, a) == FoldSet(LAMBDA x, s : s + co[x] * a[x], 0, DOMAIN co)
Holds(r, a) == CASE r.op = ">=" -> Lhs(r.co, a) >= r.b
                 [] r.op = "<=" -> Lhs(r.co, a) <= r.b
                 [] r.op = "="  -> Lhs(r.co, a) = r.b

(***************************************************************************)
(* The points of the program.  They are found column by column, a row      *)
(* being checked as soon as all its columns have a value.                  *)
(***************************************************************************)
Points(rows) ==
  LET cols == ById(pb.pkgs \cup FirstNew .. LastCol)
      ranges == Ranges(built)
      Values(x) == IF x \in DOMAIN ranges THEN ranges[x][1] .. ranges[x][2] ELSE 0..1
      Due(x) == {r \in rows : Max(DOMAIN r.co) = x}
      Extend(A, x) == LET due == Due(x)
                      IN  {a \in {b @@ (x :> v) : b \in A, v \in Values(x)} : \A r \in due : Holds(r, a)}
  IN  FoldLeft(Extend, {<< >>}, cols)

Inst(a) == {i \in pb.pkgs : a[i] = 1}

\* Upgrade requests are looked at first, then the criteria give their rows,
\* then come the install requests and the packages.
Generate ==
  /\ pc = "generate"
  /\ IF pb.pkgs = {} \/ \E k \in DOMAIN u.request.upgrade : Upgrades(u)[k].sets = << >>
     THEN Stop("FAIL", {}) /\ UNCHANGED <<objs, cand>>
     ELSE IF NullCriterion(built)
     THEN Stop("crash", {}) /\ UNCHANGED <<objs, cand>>
     ELSE IF Hopeless(u, pb)
     THEN Stop("FAIL", {}) /\ UNCHANGED <<objs, cand>>
     ELSE IF NullPackage(u, pb)
     THEN Stop("crash", {}) /\ UNCHANGED <<objs, cand>>
     ELSE IF o.nosolve
     THEN Stop("FAIL", {}) /\ UNCHANGED <<objs, cand>>
     ELSE /\ objs' = Objectives(built)
          /\ cand' = Points(Program)
          /\ pc' = "solve"
          /\ UNCHANGED out
  /\ UNCHANGED <<case, pos, u, pb, built, iobj, status, sol, limited, lost>>

-----------------------------------------------------------------------------
(* The back ends *)

Value(k, a) == Lhs(objs[k], a)
Optimal(k) == {a \in cand : \A b \in cand : Value(k, a) <= Value(k, b)}
Empty(k) == objs[k] = << >>

\* the next objective with a coefficient
NonEmpty(k) == Min({j \in k .. Len(objs) : ~Empty(j)} \cup {Len(objs) + 1})

Return(st) == status' = st /\ pc' = "print"

\* Some optimum is read; the value of the objective becomes an equation.
Read(k) == /\ sol' \in {Inst(a) : a \in Optimal(k)}
           /\ cand' = Optimal(k)

Solver(names) ==
  /\ pc = "solve" /\ o.backend \in names
  /\ UNCHANGED <<case, pos, u, pb, built, objs, lost, out>>

\* lp_solver::solve, for a program that prints as SCIP does: a solution is
\* read at every objective
Scip ==
  LET k == NonEmpty(iobj)
  IN  /\ Solver({"scip"})
      /\ \/ /\ k > Len(objs) \/ cand = {}
            /\ Return(status)
            /\ UNCHANGED <<cand, iobj, sol, limited>>
         \/ /\ k <= Len(objs) /\ cand # {}
            /\ Read(k)
            /\ status' = 1 /\ iobj' = k + 1
            /\ UNCHANGED <<pc, limited>>

\* ... whose time is over, with some solution or with none
ScipTimeOut ==
  LET k == NonEmpty(iobj)
  IN  /\ Solver({"scip"}) /\ o.limit /\ k <= Len(objs)
      /\ limited' = TRUE
      /\ \/ /\ Return(status)
            /\ UNCHANGED <<cand, iobj, sol>>
         \/ \E a \in cand :
              /\ sol' = Inst(a)
              /\ cand' = {b \in cand : Value(k, b) = Value(k, a)}
              /\ status' = 1 /\ iobj' = k + 1
              /\ UNCHANGED pc

\* ... and as COIN does: the solution of the last objective only is read
Coin ==
  LET k == NonEmpty(iobj)
  IN  /\ Solver({"coin"})
      /\ \/ /\ k > Len(objs) \/ cand = {}
            /\ Return(status)
            /\ UNCHANGED <<cand, iobj, sol>>
         \/ /\ k <= Len(objs) /\ cand # {}
            /\ IF k = Len(objs) THEN Read(k) ELSE cand' = Optimal(k) /\ UNCHANGED sol
            /\ status' = 1 /\ iobj' = k + 1
            /\ UNCHANGED pc
      /\ UNCHANGED limited

\* pblib_solver::solve gives up at once when there is no optimum
Pblib ==
  LET k == NonEmpty(iobj)
  IN  /\ Solver({"pblib"})
      /\ \/ /\ k > Len(objs)
            /\ Return(status)
            /\ UNCHANGED <<cand, iobj, sol>>
         \/ /\ k <= Len(objs) /\ cand = {}
            /\ Return(0)
            /\ UNCHANGED <<cand, iobj, sol>>
         \/ /\ k <= Len(objs) /\ cand # {}
            /\ Read(k)
            /\ status' = 1 /\ iobj' = k + 1
            /\ UNCHANGED pc
      /\ UNCHANGED limited

\* first_objective: the last one, if no objective has a coefficient
FirstObjective(k) == Min({NonEmpty(k), Len(objs)})

\* cplex_solver::end_objectives and solve, which keep a solution each time
Cplex ==
  LET k == FirstObjective(iobj)
  IN  /\ Solver({"cplex"})
      /\ \/ /\ cand = {}
            /\ Return(0)
            /\ UNCHANGED <<cand, iobj, sol>>
         \/ /\ cand # {}
            /\ Read(k)
            /\ iobj' = NonEmpty(k + 1)
            /\ IF iobj' > Len(objs) THEN Return(1) ELSE UNCHANGED <<pc, status>>
      /\ UNCHANGED limited

\* with a solution of the current objective the run ends; without one, the
\* stored solution of the objective before is the answer, if there is one
CplexTimeOut ==
  /\ pc = "solve" /\ o.backend = "cplex" /\ o.limit
  /\ limited' = TRUE
  /\ \/ /\ \E a \in cand : sol' = Inst(a)
        /\ Return(1)
        /\ UNCHANGED lost
     \/ /\ Return(IF sol = Unread THEN 0 ELSE 1)
        /\ lost' = TRUE
        /\ UNCHANGED sol
  /\ UNCHANGED <<case, pos, u, pb, built, objs, cand, iobj, out>>

\* gurobi_solver::solve; the solution is read at the end by init_solutions
Gurobi ==
  LET k == FirstObjective(iobj)
  IN  /\ Solver({"gurobi"})
      /\ \/ /\ cand = {}
            /\ Return(0)
            /\ UNCHANGED <<cand, iobj, sol>>
         \/ /\ cand # {}
            /\ iobj' = NonEmpty(k + 1)
            /\ IF iobj' > Len(objs)
               THEN Read(k) /\ Return(1)
               ELSE cand' = Optimal(k) /\ UNCHANGED <<sol, pc, status>>
      /\ UNCHANGED limited

\* Every objective is solved, also an empty one.  Without a point nothing can
\* be read, and the value of the objective that is added excludes nothing more.
EveryObjective ==
  /\ IF cand = {} THEN UNCHANGED <<cand, sol>> ELSE Read(iobj)
  /\ iobj' = iobj + 1
  /\ IF iobj = Len(objs) THEN Return(1) ELSE UNCHANGED <<pc, status>>
  /\ UNCHANGED limited

\* the solver says that there is no solution
NoSolution == cand = {} /\ Return(0) /\ UNCHANGED <<cand, iobj, sol, limited>>

(***************************************************************************)
(* glpk_solver::solve looks at the code glp_intopt returns and never at    *)
(* glp_mip_status.  The code tells that there is no solution if the        *)
(* presolver or the relaxation shows it, but is 0 if only the search finds *)
(* that no point of the relaxation is integral; which of the two it is, is *)
(* left open.  After a code other than 0 no objective is solved any more.  *)
(***************************************************************************)
Glpk == Solver({"glpk"}) /\ (EveryObjective \/ NoSolution)

\* A mutant: the result of the last call is not tested.
LpsolveUntested == Solver({"lpsolve"}) /\ EveryObjective

\* lpsolve_solver::solve tests the result of the last call, which is not
\* OPTIMAL, SUBOPTIMAL or PRESOLVED if there is no solution
Lpsolve == Solver({"lpsolve"}) /\ ((cand # {} /\ EveryObjective) \/ NoSolution)

-----------------------------------------------------------------------------
(* The end of main *)

\* init_solutions fails when CPLEX has no solution; a solution that was never
\* read is whatever malloc returned, or the columns GLPK holds
Conclude ==
  /\ pc = "print"
  /\ CASE status = 0 -> Stop("FAIL", {})
       [] status = 1 /\ lost -> Stop("exit", {})
       [] OTHER -> \E I \in (IF sol = Unread THEN SUBSET pb.pkgs ELSE {sol}) : Stop("answer", I)
  /\ UNCHANGED <<case, pos, u, pb, solving>>

Next ==
  \/ Parse \/ EndOfInput \/ Reduce \/ Allocate \/ Generate
  \/ Scip \/ ScipTimeOut \/ Coin \/ Pblib \/ Cplex \/ CplexTimeOut \/ Gurobi \/ Glpk \/ Lpsolve
  \/ Conclude

Spec == Init /\ [][Next]_vars

-----------------------------------------------------------------------------
(* Correctness *)

RECURSIVE Costs(_, _, _, _)
(***************************************************************************)
(* The costs of an installation for a criterion or a combiner, to be       *)
(* minimised in lexicographic order.                                       *)
(***************************************************************************)
Costs(P, decls, c, I) ==
  LET Sub == [k \in DOMAIN c.crits |-> Costs(P, decls, c.crits[k], I)]
      All == FlattenSeq(Sub)
      Sum == FoldLeft(LAMBDA a, x : a + x, 0, All)
  IN  CASE c.crit \in {"lexicographic", "lexagregate", "lexsemiagregate"} -> All
        [] c.crit = "agregate" -> <<c.lambda * Sum>>
        [] c.crit = "leximax"  -> SortSeq(All, LAMBDA a, b : a > b)
        [] c.crit = "leximin"  -> LET q == SortSeq(All, LAMBDA a, b : a < b) IN [k \in DOMAIN q |-> -q[k]]
        [] c.crit = "lexleximax" -> <<All[1]>> \o SortSeq(Tail(All), LAMBDA a, b : a > b)
        [] OTHER -> <<c.lambda * Measure(P, decls, c, I)>>

LexLess(a, b) == \E k \in DOMAIN a : a[k] < b[k] /\ \A j \in 1..k-1 : a[j] = b[j]
Dominates(a, b) == a # b /\ \A k \in DOMAIN a : a[k] <= b[k]

\* The weights of lexagregate and lexsemiagregate are the ranges of the
\* criteria after them, so that only a better value of every criterion is
\* sure to be preferred.
Better(c, a, b) ==
  IF c.crit \in {"lexagregate", "lexsemiagregate"} THEN Dominates(a, b) ELSE LexLess(a, b)

Packages == DocPackages(case.doc)
Request  == DocRequest(case.doc)
Solutions == ValidInstallations(Packages, Request)
Value0(J) == Costs(Packages, Declarations(case.doc), combiner, J)

(***************************************************************************)
(* Documents for which the code asks for more than the document does: a    *)
(* kept feature becomes a kept version, and of a disjunction that the      *)
(* package itself satisfies the disjuncts after it are still asked for.    *)
(***************************************************************************)
SatisfiesOwn(p) ==
  \E k \in DOMAIN p.depends : \E j \in 1 .. Len(p.depends[k]) - 1 :
    \E f \in Offers(p) : Answers(f, p.depends[k][j])

Stricter ==
  \/ \E i \in Initial(Packages) : Packages[i].keep = "feature"
  \/ \E i \in DOMAIN Packages : SatisfiesOwn(Packages[i])

Constants(f) == \E k \in DOMAIN f : \E vp \in Range(f[k]) : vp \in {VTrue, VFalse}

Kept(p) == IF p.keep = "feature" THEN [p EXCEPT !.keep = "version"] ELSE p

(***************************************************************************)
(* What the parser builds is what the document says, although a package is *)
(* only complete when the next stanza starts, and the tables of a feature  *)
(* are filled by the fields of many packages in the order they come: a     *)
(* document is refused only if it is not well formed, and otherwise every  *)
(* package is listed with its fields, every feature has its providers, and *)
(* the highest installed version of every name, which an upgrade must not  *)
(* go below, is that of the packages and the features that are installed.  *)
(***************************************************************************)
ParsedTrue ==
  /\ out.kind = "refused" => ~WellFormed(case.doc)
  /\ pc = "reduce" =>
       /\ WellFormed(case.doc)
       /\ u.pkgs = [i \in DOMAIN Packages |-> Kept(Packages[i])]
       /\ u.listed = DOMAIN Packages
       /\ u.provs = UNION {{<<f[1], f[2], i>> : f \in Features0(Packages[i])} : i \in DOMAIN Packages}
       /\ \A n \in AllNames(u) :
            HighestInstalled(u, n) = Max({0} \cup InstalledVersions(Packages, Initial(Packages), n))
       /\ u.request = Request

(***************************************************************************)
(* Before the first objective is solved, the points of the integer program *)
(* are exactly the valid installations of the packages of the problem: no  *)
(* row of a request, a package or a criterion, in any of the forms that    *)
(* the options choose, excludes one or lets a set pass that is not one.    *)
(***************************************************************************)
RowsExact ==
  pc = "solve" /\ iobj = 1 /\ sol = Unread /\ ~limited =>
    LET found == {Inst(a) : a \in cand}
        valid == {J \in Solutions : J \subseteq pb.pkgs}
    IN  found \subseteq valid /\ (Stricter \/ found = valid)

\* answers that are printed although no solution was read: GLPK finishes the
\* search of a program without a point, and COIN's solution is only read at the
\* last objective, which is skipped if it is empty
NeverRead ==
  /\ sol = Unread
  /\ \/ o.backend = "glpk" /\ cand = {} /\ (Solutions = {} \/ Stricter)
     \/ o.backend = "coin" /\ Empty(Len(objs))

(***************************************************************************)
(* The installation that is printed is valid in the whole universe, not in *)
(* the reduced problem only, whatever the back end and the objective after *)
(* which its time was over, unless it was never read: that only happens to *)
(* GLPK when there is no valid installation, and to COIN when the last     *)
(* objective is empty (glpk_solver.c:74, lp_solver.c:228).                 *)
(***************************************************************************)
AnswerValid == out.kind = "answer" => NeverRead \/ Valid(Packages, Request, out.inst)

(***************************************************************************)
(* No valid installation is better for the criteria of the command line    *)
(* than one that was read and printed: the reduction removed none, the     *)
(* columns of the criteria and of leximax measure what their names say,    *)
(* and solving the objectives one after the other is the order of the      *)
(* combiner.                                                               *)
(***************************************************************************)
AnswerBest ==
  out.kind = "answer" /\ sol # Unread /\ ~limited /\ ~Stricter =>
    \A J \in Solutions : ~Better(combiner, Value0(J), Value0(out.inst))

(***************************************************************************)
(* A run that ends without an installation has a reason: FAIL means that   *)
(* there is none, unless it was not asked for one, its time was over       *)
(* before the first one, or the back end had no objective to solve; the    *)
(* other ends are those of leximax on an OPB solver, of a solution that    *)
(* CPLEX has lost, and of the constants true! and false!.                  *)
(***************************************************************************)
EndJustified ==
  /\ out.kind = "FAIL" =>
       \/ o.nosolve \/ Solutions = {} \/ Stricter \/ pb.pkgs = {}
       \/ limited /\ sol = Unread
       \/ o.backend \in {"scip", "coin", "pblib"} /\ \A k \in DOMAIN objs : Empty(k)
  /\ out.kind = "exit" =>
       \/ o.backend = "pblib" /\ NeedsIntegers(combiner)
       \/ o.backend = "cplex" /\ limited
  /\ out.kind = "crash" =>
       \E i \in DOMAIN Packages :
         \/ Constants(Packages[i].depends)
         \/ \E k \in DOMAIN Packages[i].props :
              LET q == Packages[i].props[k] IN Decl(u, q.prop).type = "vpkgformula" /\ Constants(q.val)
=============================================================================
