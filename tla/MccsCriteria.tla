----------------------------- MODULE MccsCriteria -----------------------------
(***************************************************************************)
(* The criteria of mccs and their combiners                                *)
(* (src/mccs-1.1/sources/..._criteria.c and ..._combiner.c): the columns   *)
(* each of them allocates, its part of an objective or of a row, its rows  *)
(* and its bounds.                                                         *)
(*                                                                         *)
(* A criterion is [crit, lambda, prop, opt, crits]: crits are those of a   *)
(* combiner, opt is onlynew for count and with_providers for nunsat.  e is *)
(* the environment [u, pb, cov] of the criteria: the universe, the problem *)
(* (reduced or not) and the option -cov.  Allocated adds the members that  *)
(* initialize and set_variable_range give to the object of a criterion.    *)
(***************************************************************************)
EXTENDS MccsRows

Abs(x) == IF x < 0 THEN -x ELSE x
Get(co, x) == IF x \in DOMAIN co THEN co[x] ELSE 0

Named(e) == {n \in e.pb.names : AllVersions(e.u, n) # {}}
Multi(e, n) == Cardinality(AllVersions(e.u, n)) > 1
WasInstalled(e, n) == InstalledOf(e.u, n) # {}
Only(e, n) == Min(AllVersions(e.u, n))

\* the names that have a column, in the order of their columns
InOrder(e, S) == Ranked(S, LAMBDA a, b : Only(e, a) < Only(e, b))

(***************************************************************************)
(* The shape of a simple criterion: cols, what its columns count; more,    *)
(* the number of other columns; pk, the packages whose own columns it      *)
(* uses, and how; lb and ub; conj, the conjunctions of nunsat.             *)
(***************************************************************************)
Nothing == [cols |-> << >>, more |-> 0, pk |-> << >>, lb |-> 0, ub |-> 0, conj |-> << >>]

OnNames(e, names, C, sign(_), lb, ub) ==
  [Nothing EXCEPT !.cols = InOrder(e, C),
                  !.pk = [i \in {Only(e, n) : n \in names \ C} |-> sign(i)],
                  !.lb = lb, !.ub = ub]

RemovedShape(e) ==
  LET names == {n \in Named(e) : WasInstalled(e, n)}
      C == {n \in names : Multi(e, n) \/ ~e.cov}
  IN  OnNames(e, names, C, LAMBDA i : -1, -Cardinality(names \ C), Cardinality(C))

NewShape(e) ==
  LET names == {n \in Named(e) : ~WasInstalled(e, n)}
  IN  OnNames(e, names, {n \in names : Multi(e, n)}, LAMBDA i : 1, 0, Cardinality(names))

ChangedShape(e) ==
  LET names == Named(e)
      C == {n \in names : Multi(e, n) \/ (WasInstalled(e, n) /\ ~e.cov)}
  IN  OnNames(e, names, C, LAMBDA i : IF e.u.pkgs[i].installed THEN -1 ELSE 1,
              -Cardinality({n \in names \ C : WasInstalled(e, n)}), Cardinality(names))

NotUpToDateShape(e) ==
  LET C == {n \in Named(e) : Multi(e, n)}
  IN  OnNames(e, C, C, LAMBDA i : 0, 0, Cardinality(C))

CountShape(e, c) ==
  LET d == Decl(e.u, c.prop).default
      def == IF d.set THEN d.val ELSE 0
      P == {i \in e.pb.pkgs : ~(c.opt /\ e.u.pkgs[i].installed)}
      Val(i) == IF HasProperty(e.u.pkgs[i], c.prop) THEN PropertyOf(e.u.pkgs[i], c.prop) ELSE def
      Total(T(_)) == FoldSet(LAMBDA i, a : IF T(c.lambda * Val(i)) THEN a + c.lambda * Val(i) ELSE a, 0, P)
  IN  [Nothing EXCEPT
         !.pk = [i \in {j \in P : HasProperty(e.u.pkgs[j], c.prop) \/ def # 0} |-> Val(i)],
         !.lb = Total(LAMBDA x : x < 0), !.ub = Total(LAMBDA x : x > 0)]

(***************************************************************************)
(* nunsat looks at every conjunction of every package.  initialize counts  *)
(* the packages of its disjuncts with their repetitions, add_constraints   *)
(* those that do not have a coefficient yet.                               *)
(***************************************************************************)
Recommended(e, c, i) ==
  IF HasProperty(e.u.pkgs[i], c.prop) THEN PropertyOf(e.u.pkgs[i], c.prop) ELSE << >>

\* what the packages of a scan that have no coefficient yet give to the rows
Conjunction(i, disjuncts, st, fresh) ==
  [i |-> i,
   counted |-> Len(st.all) - st.from,
   all  |-> Range(st.all),
   nb   |-> IF VTrue \in Range(disjuncts) THEN 0 ELSE Cardinality(fresh),
   last |-> IF fresh = {} THEN i ELSE st.all[Max(fresh)],
   null |-> \E k2 \in DOMAIN disjuncts :
              disjuncts[k2] = VFalse /\ \A k1 \in 1..k2 : disjuncts[k1] # VTrue]

Fresh(st) == {k2 \in st.from + 1 .. Len(st.all) : \A k1 \in 1..k2-1 : st.all[k1] # st.all[k2]}
Scanned(i, disjuncts, st) == Conjunction(i, disjuncts, st, Fresh(st))

Conjunctions(e, c) ==
  FlattenSeq([k \in DOMAIN ById(e.pb.pkgs) |->
    LET i == ById(e.pb.pkgs)[k]
        Real(disjuncts) == SelectSeq(disjuncts, LAMBDA vp : vp \notin {VTrue, VFalse})
        One(disjuncts) == Scanned(i, disjuncts, Scan(e.u, i, Real(disjuncts), c.opt))
    IN  [j \in DOMAIN Recommended(e, c, i) |-> One(Recommended(e, c, i)[j])]])

\* a column for each conjunction with a package, another for two and more
NunsatShape(q) ==
  LET asked == SelectSeq(q, LAMBDA x : x.counted > 0)
  IN  [Nothing EXCEPT !.cols = asked, !.more = Len(SelectSeq(q, LAMBDA x : x.counted > 1)),
                      !.ub = Len(asked), !.conj = q]

Shape(e, c) ==
  CASE c.crit = "removed" -> RemovedShape(e)
    [] c.crit = "new"     -> NewShape(e)
    [] c.crit = "changed" -> ChangedShape(e)
    [] c.crit = "notuptodate" -> NotUpToDateShape(e)
    [] c.crit = "count"  /\ HasProp(e.u, c) -> CountShape(e, c)
    [] c.crit = "nunsat" /\ HasProp(e.u, c) -> NunsatShape(Conjunctions(e, c))
    [] OTHER -> Nothing

-----------------------------------------------------------------------------
(* Columns *)

Leximaxes == {"leximax", "leximin", "lexleximax", "lexleximin"}

\* how many criteria the leximax part of a combiner has
N(c) == IF c.crit \in {"lexleximax", "lexleximin"} THEN Len(c.crits) - 1 ELSE Len(c.crits)

RECURSIVE Allocated(_, _, _)
(***************************************************************************)
(* initialize, and then set_variable_range or column_allocation with the   *)
(* first free column: first, the first column of a criterion itself, comes *)
(* after those of the criteria in it; next is the first one still free.    *)
(***************************************************************************)
Allocated(e, c, free) ==
  LET Free(q) == IF q = << >> THEN free ELSE Last(q).next
      Add(q, d) == Append(q, Allocated(e, d, Free(q)))
      Made(subs, s) ==
        [crit |-> c.crit, lambda |-> c.lambda, crits |-> subs, first |-> Free(subs),
         next |-> Free(subs) + (IF c.crit \in Leximaxes THEN 2 * N(c) + N(c) * N(c) ELSE Len(s.cols) + s.more)] @@ s
  IN  Made(FoldLeft(Add, << >>, c.crits), Shape(e, c))

ColU(c, k) == c.first + k - 1
ColY(c, k) == c.first + N(c) + k - 1
ColL(c, i, j) == c.first + 2 * N(c) + (i - 1) * N(c) + j - 1

-----------------------------------------------------------------------------
(* Bounds *)

RECURSIVE RangeOf(_)

\* each criterion with the range of the one after it
LexagregateRange(c) ==
  FoldRight(LAMBDA d, st : [prev |-> RangeOf(d),
                            sum |-> st.sum + Abs(c.lambda) * RangeOf(d) * st.prev],
            c.crits, [prev |-> 1, sum |-> 0]).sum

AgregateRange(c) == FoldLeft(LAMBDA a, d : a + Abs(c.lambda) * RangeOf(d), 0, c.crits)

\* bound_range
RangeOf(c) ==
  CASE c.crit = "count" -> c.ub - c.lb
    [] c.crit \in SimpleCriteria -> Abs(c.lambda) * (c.ub - c.lb)
    [] c.crit = "lexagregate" -> LexagregateRange(c)
    [] OTHER -> AgregateRange(c)

RECURSIVE Bound(_, _)

\* the end of the range that lambda turns into the upper (up) or lower one
Scaled(c, up) == c.lambda * (IF (c.lambda >= 0) = up THEN c.ub ELSE c.lb)

\* the conditional expression takes the product for its condition
RemovedBound(c, up) == IF (c.lambda > 0) = up THEN c.ub ELSE c.lb

\* lb and ub have lambda in them
CountBound(c, up) == IF up THEN c.ub ELSE c.lb

LexagregateBound(c, up) ==
  FoldRight(LAMBDA d, st : [lam |-> RangeOf(d),
                            sum |-> st.sum + c.lambda * st.lam * Bound(d, (c.lambda >= 0) = up)],
            c.crits, [lam |-> 1, sum |-> 0]).sum

AgregateBound(c, up) ==
  FoldLeft(LAMBDA a, d : a + c.lambda * Bound(d, (c.lambda >= 0) = up), 0, c.crits)

\* upper_bound (up) and lower_bound
Bound(c, up) ==
  CASE c.crit = "removed" -> RemovedBound(c, up)
    [] c.crit = "count"   -> CountBound(c, up)
    [] c.crit \in SimpleCriteria -> Scaled(c, up)
    [] c.crit = "lexagregate" -> LexagregateBound(c, up)
    [] OTHER -> AgregateBound(c, up)

\* the criteria that get a column u: lexleximin meant to leave out the first
InLeximax(c) == (IF c.crit = "lexleximax" THEN 2 ELSE 1) .. Len(c.crits)
HighestBound(c) == Max({Bound(c.crits[k], TRUE) : k \in InLeximax(c)})
LowestBound(c) == Min({Bound(c.crits[k], FALSE) : k \in InLeximax(c)})

\* the column u of the k-th criterion
UOf(c, k) == ColU(c, k - Min(InLeximax(c)) + 1)

RECURSIVE Ranges(_)
\* initialize_intvars and the first half of objective_generation: the ranges
\* of the columns that are not binary, the last one set for a column first
Ranges(c) ==
  LET nested == FoldLeft(LAMBDA a, d : Ranges(d) @@ a, << >>, c.crits)
      Ys == {ColY(c, i) : i \in 1..N(c)}
  IN  IF c.crit \in Leximaxes /\ InLeximax(c) # {}
      THEN nested
             @@ [x \in Ys |-> <<LowestBound(c), HighestBound(c)>>]
             @@ [x \in {UOf(c, k) : k \in InLeximax(c)} |->
                   LET d == c.crits[CHOOSE k \in InLeximax(c) : UOf(c, k) = x]
                   IN  <<Bound(d, FALSE), Bound(d, TRUE)>>]
      ELSE nested

-----------------------------------------------------------------------------
(* Objectives *)

\* the columns that a criterion counts with
OnColumns(c, k) == Const(c.first .. c.first + Len(c.cols) - 1, k)

\* in a row, new does not add to the coefficient that a package has
OldWeight(c, isRow, co, i) == IF isRow /\ c.crit = "new" THEN 0 ELSE Get(co, i)

\* the packages that count themselves, for want of a column
OnPackages(c, k, isRow, co) == [i \in DOMAIN c.pk |-> k * c.pk[i] + OldWeight(c, isRow, co, i)]

\* add_criteria_to_objective and add_criteria_to_constraint of a simple
\* criterion
AddSimple(c, lambda, isRow, co) ==
  OnColumns(c, lambda * c.lambda) @@ OnPackages(c, lambda * c.lambda, isRow, co) @@ co

Sense(c) == IF c.crit \in {"leximin", "lexleximin"} THEN -1 ELSE 1

RECURSIVE AddTo(_, _, _, _)

AddAgregate(c, lambda, isRow, objs) ==
  FoldLeft(LAMBDA os, d : AddTo(d, lambda * c.lambda, isRow, os), objs, c.crits)

\* from the last criterion to the first, each weighted by the ranges after it
AddLexagregate(c, lambda, isRow, objs) ==
  FoldRight(LAMBDA d, st :
              [os |-> AddTo(d, st.lam, isRow, st.os),
               lam |-> IF RangeOf(d) = 0 THEN st.lam ELSE st.lam * RangeOf(d)],
            c.crits, [os |-> objs, lam |-> lambda * c.lambda]).os

\* a leximax used as a criterion starts new objectives, and is not in a row
AddLeximax(c, isRow, objs) ==
  IF isRow \/ N(c) = 0 THEN objs
  ELSE [objs EXCEPT ![Len(objs)] = (ColY(c, 1) :> Sense(c)) @@ @]
         \o [i \in 1 .. N(c) - 1 |-> ColY(c, i + 1) :> Sense(c)]

\* ... and of any criterion: objs ends in the objective (or row) that is being
\* built
AddTo(c, lambda, isRow, objs) ==
  CASE c.crit \in SimpleCriteria -> [objs EXCEPT ![Len(objs)] = AddSimple(c, lambda, isRow, @)]
    [] c.crit = "agregate" -> AddAgregate(c, lambda, isRow, objs)
    [] c.crit = "lexagregate" -> AddLexagregate(c, lambda, isRow, objs)
    [] c.crit \in Leximaxes -> AddLeximax(c, isRow, objs)

RECURSIVE Pairs(_)
\* lexsemiagregate: two criteria in an objective, the first one weighted by
\* the range of the second; an odd one out is an objective of its own
Pairs(q) ==
  IF q = << >> THEN << >>
  ELSE IF Len(q) = 1 THEN AddTo(q[1], 1, FALSE, << << >> >>)
  ELSE AddTo(q[1], IF RangeOf(q[2]) = 0 THEN 1 ELSE RangeOf(q[2]), FALSE,
             AddTo(q[2], 1, FALSE, << << >> >>))
         \o Pairs(SubSeq(q, 3, Len(q)))

\* an odd one out is added twice
LexsemiagregateObjectives(c) ==
  LET n == Len(c.crits)
  IN  Pairs(c.crits) \o (IF n > 1 /\ n % 2 # 0 THEN Pairs(<<c.crits[n]>>) ELSE << >>)

LexicographicObjectives(c) ==
  FoldLeft(LAMBDA os, d : AddTo(d, 1, FALSE, Append(os, << >>)), << >>, c.crits)

\* every y in its turn
LeximaxObjectives(c) == [i \in 1..N(c) |-> ColY(c, i) :> Sense(c)]

\* the first criterion, and then every y
LexleximaxObjectives(c) == AddTo(c.crits[1], 1, FALSE, << << >> >>) \o LeximaxObjectives(c)

\* objective_generation
Objectives(c) ==
  CASE c.crit = "lexicographic" -> LexicographicObjectives(c)
    [] c.crit \in {"agregate", "lexagregate"} -> AddTo(c, 1, FALSE, << << >> >>)
    [] c.crit = "lexsemiagregate" -> LexsemiagregateObjectives(c)
    [] c.crit \in {"leximax", "leximin"} -> LeximaxObjectives(c)
    [] c.crit \in {"lexleximax", "lexleximin"} -> LexleximaxObjectives(c)

-----------------------------------------------------------------------------
(* Rows *)

Col(c, n) == c.first + (CHOOSE k \in DOMAIN c.cols : c.cols[k] = n) - 1

RemovedRows(e, c) ==
  LET Rows(n) == LET V == AllVersions(e.u, n)
                     v == Col(c, n)
                     k == Cardinality(V)
                 IN  IF k > 1 THEN {Row(Const(V, 1) @@ (v :> 1), ">=", 1), Row(Const(V, 1) @@ (v :> k), "<=", k)}
                     ELSE {Row(Const(V, 1) @@ (v :> 1), "=", 1)}
  IN  UNION {Rows(n) : n \in Range(c.cols)}

NewRows(e, c) ==
  LET Rows(n) == LET V == AllVersions(e.u, n)
                     v == Col(c, n)
                 IN  {Row(Const(V, 1) @@ (v :> -1), ">=", 0),
                      Row(Const(V, 1) @@ (v :> -Cardinality(V)), "<=", 0)}
  IN  UNION {Rows(n) : n \in Range(c.cols)}

ChangedRows(e, c) ==
  LET Rows(n) == LET V == AllVersions(e.u, n)
                     v == Col(c, n)
                     k == Cardinality(V)
                     m == Cardinality(InstalledOf(e.u, n))
                     diff == [i \in V |-> IF e.u.pkgs[i].installed THEN -1 ELSE 1]
                 IN  IF k > 1 THEN {Row(diff @@ (v :> -1), ">=", -m), Row(diff @@ (v :> -k), "<=", -m)}
                     ELSE {Row(Const(V, 1) @@ (v :> 1), "=", 1)}
  IN  UNION {Rows(n) : n \in Range(c.cols)}

NotUpToDateRows(e, c) ==
  LET Rows(n) == LET V == AllVersions(e.u, n)
                     k == Cardinality(V)
                     co == [i \in V |-> IF e.u.pkgs[i].version = HighestVersion(e.u, n) THEN 1 - k ELSE 1]
                             @@ (Col(c, n) :> -k)
                 IN  {Row(co, "<=", 0), Row(co, ">=", 1 - k)}
  IN  UNION {Rows(n) : n \in Range(c.cols)}

\* p: the conjunction is not satisfied and its package is installed; d: none
\* of its packages is installed
NunsatRows(c) ==
  LET q == c.conj
      Before(k, n) == Cardinality({j \in 1..k-1 : q[j].nb > n})
      P(k) == c.first + Before(k, 0)
      D(k) == c.first + Len(c.cols) + Before(k, 1)
      One(k) == {Row((q[k].last :> 1) @@ (P(k) :> 1), "<=", 1),
                 Row((q[k].i :> -1) @@ (q[k].last :> 1) @@ (P(k) :> 1), ">=", 0)}
      More(k) == {Row(Const(q[k].all, 1) @@ (D(k) :> 1), ">=", 1),
                  Row(Const(q[k].all, 1) @@ (D(k) :> q[k].nb), "<=", q[k].nb),
                  Row((D(k) :> -1) @@ (P(k) :> 1), "<=", 0),
                  Row((q[k].i :> -1) @@ (D(k) :> -1) @@ (P(k) :> 1), ">=", -1)}
  IN  UNION {{Row((q[k].i :> -1) @@ (P(k) :> 1), "<=", 0)} \cup (IF q[k].nb = 1 THEN One(k) ELSE More(k)) :
               k \in {j \in DOMAIN q : q[j].nb > 0}}

\* y_i is at least every u_j but those that the l_ij of i leave out
LeximaxOrder(c) ==
  LET M == HighestBound(c) - LowestBound(c)
  IN  {Row((ColY(c, i) :> Sense(c)) @@ (ColU(c, j) :> -Sense(c)) @@ (ColL(c, i, j) :> M), ">=", 0) :
         i, j \in 1..N(c)}

\* A mutant: the i-th y may leave out i of them.
LeximaxLeftLoose(c) == {Row(Const({ColL(c, i, j) : j \in 1..N(c)}, 1), "<=", i) : i \in 1..N(c)}

\* y_i may leave out i - 1 of them
LeximaxLeft(c) == {Row(Const({ColL(c, i, j) : j \in 1..N(c)}, 1), "<=", i - 1) : i \in 1..N(c)}

\* u_k is the value of the k-th criterion
LeximaxValues(c) ==
  {Row((UOf(c, k) :> -1) @@ AddTo(c.crits[k], 1, TRUE, << << >> >>)[1], "=", 0) : k \in InLeximax(c)}

RECURSIVE CriteriaRows(_, _)
\* constraint_generation and add_constraints
CriteriaRows(e, c) ==
  UNION {CriteriaRows(e, c.crits[k]) : k \in DOMAIN c.crits}
    \cup CASE c.crit = "removed" -> RemovedRows(e, c)
           [] c.crit = "new"     -> NewRows(e, c)
           [] c.crit = "changed" -> ChangedRows(e, c)
           [] c.crit = "notuptodate" -> NotUpToDateRows(e, c)
           [] c.crit = "nunsat"  -> NunsatRows(c)
           [] c.crit \in Leximaxes -> LeximaxOrder(c) \cup LeximaxLeft(c) \cup LeximaxValues(c)
           [] OTHER -> {}

RECURSIVE NullCriterion(_)
\* false! in a value that nunsat reads has no virtual package to look at
NullCriterion(c) ==
  \/ \E k \in DOMAIN c.conj : c.conj[k].null
  \/ \E k \in DOMAIN c.crits : NullCriterion(c.crits[k])

RECURSIVE CanReduce(_, _)
CanReduce(c, lambda) ==
  CASE c.crit = "removed" -> TRUE
    [] c.crit \in SimpleCriteria -> lambda >= 0 /\ c.lambda >= 0
    [] OTHER -> \A k \in DOMAIN c.crits : CanReduce(c.crits[k], lambda * c.lambda)
=============================================================================
