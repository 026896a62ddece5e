---------------------------- MODULE PackupEncoder ----------------------------
(***************************************************************************)
(* The clauses that the Encoder of packup writes for a sliced problem, and *)
(* the objective functions that ExternalWrapper::split makes of the        *)
(* weighted ones (src/old_packup/Encoder.cc, IntervalVariables,            *)
(* NotRemoved, SolverWrapperBase, ExternalWrapper).                        *)
(*                                                                         *)
(* A variable is a tuple: a package or feature version <<"pv", name,       *)
(* version>>, an interval variable <<"ru" | "rd" | "du" | "dd", name,      *)
(* version>> (require or disable, up from or down from a version), or an   *)
(* auxiliary one.  A clause is a set of literals <<variable, sign>>.       *)
(*                                                                         *)
(* In every operator e is the result of Sliced, and every unit in e.needed *)
(* has a variable.                                                         *)
(***************************************************************************)
EXTENDS PackupUnits

Iv == 3      \* set_iv(3): up to 3 versions are listed, more get an interval variable

PV(n, v) == <<"pv", n, v>>
Pos(x) == <<x, TRUE>>
Neg(x) == <<x, FALSE>>
Not(l) == <<l[1], ~l[2]>>

Unit(e, i) == e.pr.units[i]
UnitVar(e, i) == PV(Unit(e, i).name, Unit(e, i).version)

NeededUnits(e, n) == {i \in e.needed : Unit(e, i).name = n}
NeededNames(e) == {Unit(e, i).name : i \in e.needed}
UnitVersions(e, n) == {Unit(e, i).version : i \in NeededUnits(e, n)}

\* needed_feature_versions
NeededFeature(e, n) == \E f \in e.features : f[1] = n
Versions(e, n) ==
  IF NeededFeature(e, n) THEN {f[2] : f \in {g \in e.features : g[1] = n}} ELSE UnitVersions(e, n)

InfiniteProvided(e, n) == <<n, 0>> \in e.features

-----------------------------------------------------------------------------
(* Requests as clauses and as terms *)

\* The versions that an operator selects: up from one, down from one, or
\* one.  operand - 1 is unsigned, and wraps around for 0.
Selected(S, op, w) ==
  LET Up(v) == <<"u", {x \in S : x >= v}>>
      Down(v) == <<"d", {x \in S : x <= v}>>
      Below == IF w = 0 THEN <<"d", S>> ELSE Down(w - 1)
  IN  CASE op = "none" -> {Up(0)}
        [] op = "="  -> {<<"=", S \cap {w}>>}
        [] op = "!=" -> {Up(w + 1), Below}
        [] op = ">=" -> {Up(w)}
        [] op = ">"  -> {Up(w + 1)}
        [] op = "<=" -> {Down(w)}
        [] op = "<"  -> {Below}

Interval(kind, n, p) == <<kind, n, IF p[1] = "u" THEN Min(p[2]) ELSE Max(p[2])>>

\* require_up_to_clause and require_down_to_clause
RequirePart(n, p) ==
  IF p[1] # "=" /\ Cardinality(p[2]) > Iv
  THEN {Pos(Interval(IF p[1] = "u" THEN "ru" ELSE "rd", n, p))}
  ELSE {Pos(PV(n, v)) : v \in p[2]}

\* disable_up_to_term and disable_down_to_term
DisablePart(n, p) ==
  IF p[1] # "=" /\ Cardinality(p[2]) > Iv
  THEN {Pos(Interval(IF p[1] = "u" THEN "du" ELSE "dd", n, p))}
  ELSE {Neg(PV(n, v)) : v \in p[2]}

RequestToClause(e, vp) ==
  LET n == vp.name
      lits == UNION {RequirePart(n, p) : p \in Selected(Versions(e, n), vp.op, vp.version)}
  IN  IF lits = {} /\ InfiniteProvided(e, n) THEN {Pos(PV(n, 0))} ELSE lits

DisableToTerm(e, vp) ==
  LET n == vp.name
      lits == UNION {DisablePart(n, p) : p \in Selected(Versions(e, n), vp.op, vp.version)}
  IN  IF lits = {} /\ InfiniteProvided(e, n) THEN {Neg(PV(n, 0))} ELSE lits

RequestsToClause(e, list) == UNION {RequestToClause(e, vp) : vp \in Range(list)}

\* require_up_to_clause and disable_up with version 0, for a package
RequireAny(e, n) == RequirePart(n, <<"u", UnitVersions(e, n)>>)
Lowest(e, n) == Min(UnitVersions(e, n))

-----------------------------------------------------------------------------
(* Features and units *)

EncodeProvides(e) ==
  UNION {LET x == PV(f[1], f[2])
             infinite == IF f[2] # 0 /\ InfiniteProvided(e, f[1]) THEN {PV(f[1], 0)} ELSE {}
             providers == {UnitVar(e, i) : i \in FeatureUnits(e.pr, f) \cap e.needed}
         IN  {{Neg(y), Pos(x)} : y \in infinite \cup providers}
               \cup {{Neg(x)} \cup {Pos(y) : y \in infinite \cup providers}} : f \in e.features}

Implications(e, i, cnf) ==
  [k \in DOMAIN cnf |-> {Neg(UnitVar(e, i))} \cup RequestsToClause(e, cnf[k])]

EncodeDepends(e, i) == Range(Implications(e, i, Unit(e, i).depends))

\* the clauses are recorded; they get their weights later
EncodeRecommends(e, i) == Implications(e, i, Unit(e, i).recommends)

\* add_providers
ConflictProviders(e, vp) ==
  UNION {FeatureUnits(e.pr, <<vp.name, v>>) \cap e.needed :
           v \in {0} \cup {w \in Versions(e, vp.name) : Evaluate(w, vp.op, vp.version)}}

\* conflict_all: a unit does not conflict with the feature it provides itself
FeatureSelfConflict(e, i, vp) ==
  {{Neg(UnitVar(e, i)), Neg(UnitVar(e, j))} : j \in ConflictProviders(e, vp) \ {i}}

PackageSelfConflict(e, i, vp) ==
  LET S == UnitVersions(e, vp.name)
      v == Unit(e, i).version
      above == DisablePart(vp.name, <<"u", {w \in S : w >= v + 1}>>)
      below == DisablePart(vp.name, <<"d", {w \in S : w <= v - 1}>>)
  IN  IF vp.op = "none" THEN {{Neg(UnitVar(e, i)), l} : l \in above \cup below}
      ELSE {{Neg(UnitVar(e, i)), Neg(PV(vp.name, w))} : w \in {x \in S \ {v} : Evaluate(x, vp.op, vp.version)}}

NotSelfConflict(e, i, vp) == {{Neg(UnitVar(e, i)), l} : l \in DisableToTerm(e, vp)}

EncodeConflict(e, i, vp) ==
  IF \E f \in Provided(e.pr, i) : f[1] = vp.name THEN FeatureSelfConflict(e, i, vp)
  ELSE IF vp.name = Unit(e, i).name THEN PackageSelfConflict(e, i, vp)
  ELSE NotSelfConflict(e, i, vp)

EncodeConflicts(e, i) == UNION {EncodeConflict(e, i, vp) : vp \in Range(Unit(e, i).conflicts)}

EncodeUnit(e, i) == EncodeDepends(e, i) \cup EncodeConflicts(e, i)

-----------------------------------------------------------------------------
(* The request *)

\* latest_installed_..._version, over what is needed: -1 if there is none
LatestNeeded(e, n) ==
  Max({-1} \cup (IF IsFeature(e.pr, n)
                 THEN {v \in Versions(e, n) : IsInstalledFeature(e.pr, <<n, v>>)}
                 ELSE {Unit(e, i).version : i \in {j \in NeededUnits(e, n) : Unit(e, j).installed}}))

\* atmost_1 and atmost_1_feature: versions below from are disabled
AtMostOne(e, n, from) ==
  {{Neg(PV(n, v))} : v \in {w \in Versions(e, n) : w < from}}
    \cup {{Neg(PV(n, p[1])), Neg(PV(n, p[2]))} :
            p \in {q \in Versions(e, n) \X Versions(e, n) : from <= q[1] /\ q[1] < q[2]}}

EncodeUpgrade(e) ==
  {RequestToClause(e, vp) : vp \in Range(e.pr.upgrade)}
    \cup UNION {LET n == vp.name
                    latest == LatestNeeded(e, n)
                IN  (IF latest >= 0 THEN {{Pos(<<"ru", n, latest>>)}} \cup AtMostOne(e, n, latest) ELSE {})
                      \cup (IF IsFeature(e.pr, n) /\ InfiniteProvided(e, n) THEN {{Neg(PV(n, 0))}} ELSE {}) :
                  vp \in Range(e.pr.upgrade)}

EncodeInstall(e) == {RequestToClause(e, vp) : vp \in e.pr.install}

EncodeRequestRemove(e) == UNION {{{l} : l \in DisableToTerm(e, vp)} : vp \in Range(e.pr.remove)}

(***************************************************************************)
(* NotRemoved: the names of packages of which some version will be         *)
(* installed.  What every version of such a package needs in a clause of   *)
(* one literal is not removed either.                                      *)
(***************************************************************************)
UnitRequirements(e, i) ==
  {Unit(e, i).depends[k][1].name : k \in {j \in DOMAIN Unit(e, i).depends : Len(Unit(e, i).depends[j]) = 1}}

\* A mutant: what one version of the package needs.
RequiredNames_some(e, n) == UNION {UnitRequirements(e, i) : i \in NeededUnits(e, n)}

RequiredNames(e, n) ==
  {m \in UNION {UnitRequirements(e, i) : i \in NeededUnits(e, n)} :
     \A i \in NeededUnits(e, n) : m \in UnitRequirements(e, i)}

NotRemovedNames(e) ==
  LET requested == {vp.name : vp \in e.pr.install \cup Range(e.pr.upgrade)}
      f[k \in 0..Len(e.pr.units)] ==
        IF k = 0 THEN {n \in requested : ~IsFeature(e.pr, n)}
        ELSE LET S == f[k-1] IN S \cup UNION {RequiredNames(e, n) : n \in S}
  IN  f[Len(e.pr.units)]

AssertNotRemoved(e) == {RequireAny(e, n) : n \in NotRemovedNames(e) \cap NeededNames(e)}

-----------------------------------------------------------------------------
(* The criteria.  Each gives hard clauses and a sequence of soft ones. *)

WithInstalled(e) == {n \in NeededNames(e) : IsAnyInstalled(e.pr, NeededUnits(e, n))}

EncodeNew(e, max) ==
  [hard |-> {},
   soft |-> Listed({{Pos(<<IF max THEN "ru" ELSE "du", n, Lowest(e, n)>>)} :
                        n \in NeededNames(e) \ WithInstalled(e)})]

EncodeRemoved(e, max) ==
  [hard |-> {},
   soft |-> Listed({IF max THEN {Pos(<<"du", n, Lowest(e, n)>>)} ELSE RequireAny(e, n) :
                        n \in WithInstalled(e) \ NotRemovedNames(e)})]

\* all conjuncts of the recommendations of all needed units
Recommendations(e) ==
  UNION {{i} \X DOMAIN Unit(e, i).recommends : i \in e.needed}

Broken(e, r) ==
  LET x == <<"broken", Unit(e, r[1]).name, r>>
      point == <<"point", Unit(e, r[1]).name, r>>
      terms == UNION {DisableToTerm(e, vp) : vp \in Range(Unit(e, r[1]).recommends[r[2]])}
  IN  [hard |-> {{Neg(x), l} : l \in terms} \cup {{Neg(point), Pos(x)}, {Neg(point), Pos(UnitVar(e, r[1]))}},
       soft |-> {Pos(point)}]

\* minimised: the clauses that were recorded for the units get their weight
EncodeUnmetRecommends(e, max) ==
  IF max
  THEN [hard |-> UNION {Broken(e, r).hard : r \in Recommendations(e)},
        soft |-> Listed({Broken(e, r).soft : r \in Recommendations(e)})]
  ELSE [hard |-> {}, soft |-> FlattenSeq(LET ids == Listed(e.needed)
                                         IN  [k \in DOMAIN ids |-> EncodeRecommends(e, ids[k])])]

NewestNeeded(e, n) == PV(n, Max(UnitVersions(e, n)))

\* any <=> some version is installed; out <=> any and not the newest
OutOfDate(e, n) ==
  LET any == <<"any", n, 0>>
      out == <<"out", n, 0>>
      versions == {PV(n, v) : v \in UnitVersions(e, n)}
  IN  {{Pos(any), Neg(x)} : x \in versions}
        \cup {{Neg(any)} \cup {Pos(x) : x \in versions},
              {Pos(out), Neg(any), Pos(NewestNeeded(e, n))},
              {Neg(out), Pos(any)}, {Neg(out), Neg(NewestNeeded(e, n))}}

EncodeNotUpToDate(e, max) ==
  LET several == {n \in NeededNames(e) : Cardinality(NeededUnits(e, n)) > 1}
      stays == several \cap NotRemovedNames(e)
      Lit(x) == IF max THEN Not(x) ELSE x
  IN  [hard |-> UNION {OutOfDate(e, n) : n \in several \ stays},
       soft |-> Listed({{Lit(Pos(NewestNeeded(e, n)))} : n \in stays}
                           \cup {{Lit(Neg(<<"out", n, 0>>))} : n \in several \ stays})]

\* A mutant: unchanged is not implied (the encoding in the comment).
Unchanged_half(e, n) ==
  {{Neg(<<"unchanged", n, 0>>), <<UnitVar(e, i), Unit(e, i).installed>>} : i \in NeededUnits(e, n)}

\* unchanged <=> every version stays as it is
Unchanged(e, n) ==
  LET x == <<"unchanged", n, 0>>
      Changed(i) == <<UnitVar(e, i), ~Unit(e, i).installed>>
  IN  {{Neg(x), Not(Changed(i))} : i \in NeededUnits(e, n)}
        \cup {{Pos(x)} \cup {Changed(i) : i \in NeededUnits(e, n)}}

EncodeChanged(e, max) ==
  [hard |-> UNION {Unchanged(e, n) : n \in NeededNames(e)},
   soft |-> Listed({{<<<<"unchanged", n, 0>>, ~max>>} : n \in NeededNames(e)})]

EncodeCriterion(e, c) ==
  CASE c.word = "new" -> EncodeNew(e, c.max)
    [] c.word = "removed" -> EncodeRemoved(e, c.max)
    [] c.word = "unmet_recommends" -> EncodeUnmetRecommends(e, c.max)
    [] c.word = "notuptodate" -> EncodeNotUpToDate(e, c.max)
    [] c.word = "changed" -> EncodeChanged(e, c.max)

(***************************************************************************)
(* encode_lexicographic: the last criterion first.  The weight of a        *)
(* criterion is more than the sum of the weights after it; the soft        *)
(* clauses of a maximised unmet_recommends are left out of that sum.       *)
(***************************************************************************)
Nothing == [total |-> 0, weights |-> {}, hard |-> {}, soft |-> << >>]

AddCriterion(e, acc, c) ==
  LET w == acc.total + 1
      q == EncodeCriterion(e, c)
      counted == IF c.word = "unmet_recommends" /\ c.max THEN 0 ELSE Len(q.soft)
  IN  [total |-> acc.total + w * counted,
       weights |-> acc.weights \cup {w},
       hard |-> acc.hard \cup q.hard,
       soft |-> acc.soft \o [k \in DOMAIN q.soft |-> <<q.soft[k], w>>]]

EncodeLexicographic(e) == FoldLeft(LAMBDA acc, c : AddCriterion(e, acc, c), Nothing, Reverse(e.lex))

\* get_top
CriterionTop(e, c) ==
  IF c.word = "unmet_recommends" THEN Cardinality(Recommendations(e)) ELSE Cardinality(NeededNames(e))
Top(e) == 1 + FoldLeft(LAMBDA t, c : t + (t + 1) * CriterionTop(e, c), 0, e.lex)

-----------------------------------------------------------------------------
(* Interval variables *)

KindsOfInterval == {"ru", "rd", "du", "dd"}

\* the versions of a name for which there is an interval variable
Intervals(clauses, kind, n) ==
  {l[1][3] : l \in {m \in UNION clauses : m[1][1] = kind /\ m[1][2] = n}}

(***************************************************************************)
(* The versions that belong to an interval and not to the next one, and    *)
(* the next one (none: its own version).                                   *)
(***************************************************************************)
IsUp(kind) == kind \in {"ru", "du"}
Following(kind, I, v) == {w \in I : IF IsUp(kind) THEN w > v ELSE w < v}
NextInterval(kind, I, v) ==
  LET F == Following(kind, I, v)
  IN  IF F = {} THEN v ELSE IF IsUp(kind) THEN Min(F) ELSE Max(F)
Segment(e, kind, n, I, v) ==
  LET next == NextInterval(kind, I, v)
      In(x) == IF IsUp(kind) THEN x >= v /\ (next # v => x < next) ELSE x <= v /\ (next # v => x > next)
  IN  {PV(n, x) : x \in {y \in Versions(e, n) : In(y)}}
NextVars(kind, n, I, v) ==
  IF NextInterval(kind, I, v) = v THEN {} ELSE {<<kind, n, NextInterval(kind, I, v)>>}

\* the last interval also has the feature without a version
InfiniteVars(e, kind, n, I, v) ==
  IF Following(kind, I, v) = {} /\ IsFeature(e.pr, n) /\ InfiniteProvided(e, n) THEN {PV(n, 0)} ELSE {}

\* process_require_up and process_require_down
ProcessRequire(e, kind, n, I, v) ==
  {{Neg(<<kind, n, v>>)}
     \cup {Pos(x) : x \in Segment(e, kind, n, I, v) \cup NextVars(kind, n, I, v)
                            \cup (IF kind = "ru" THEN InfiniteVars(e, kind, n, I, v) ELSE {})}}

\* process_disable_up and process_disable_down
ProcessDisable(e, kind, n, I, v) ==
  {{Neg(<<kind, n, v>>), Neg(x)} : x \in Segment(e, kind, n, I, v) \cup InfiniteVars(e, kind, n, I, v)}
    \cup {{Neg(<<kind, n, v>>), Pos(x)} : x \in NextVars(kind, n, I, v)}

\* Requiring and disabling intervals that overlap exclude each other.
EncodeEdges(n, ru, rd, du, dd) ==
  {{Neg(<<"ru", n, Min({w \in ru : w >= v})>>), Neg(<<"du", n, v>>)} : v \in {x \in du : \E w \in ru : w >= x}}
    \cup {{Neg(<<"rd", n, Max({w \in rd : w <= v})>>), Neg(<<"dd", n, v>>)} :
            v \in {x \in dd : \E w \in rd : w <= x}}

ProcessIntervalVariables(e, clauses) ==
  LET Of(kind, n) == Intervals(clauses, kind, n)
      Clauses(kind, n, v) == IF kind \in {"ru", "rd"} THEN ProcessRequire(e, kind, n, Of(kind, n), v)
                             ELSE ProcessDisable(e, kind, n, Of(kind, n), v)
      names == {l[1][2] : l \in {m \in UNION clauses : m[1][1] \in KindsOfInterval}}
  IN  (UNION {UNION {Clauses(kind, n, v) : v \in Of(kind, n)} : kind \in KindsOfInterval, n \in names})
        \cup UNION {EncodeEdges(n, Of("ru", n), Of("rd", n), Of("du", n), Of("dd", n)) : n \in names}

-----------------------------------------------------------------------------
(* The whole encoding, and the objective functions *)

\* Repeated clauses add up; a clause with the top weight is hard.
Weight(soft, c) == FoldLeft(LAMBDA t, s : IF s[1] = c THEN t + s[2] ELSE t, 0, soft)

\* split: a weight is divided by the registered weights, the largest first
Split(ws, weight) ==
  LET rest[k \in 0..Len(ws)] == IF k = 0 THEN weight ELSE rest[k-1] % ws[k]
  IN  [k \in DOMAIN ws |-> rest[k-1] \div ws[k]]

\* the registered weights, sorted
LargestFirst(S) == CHOOSE q \in [1 .. Cardinality(S) -> S] : \A i, j \in DOMAIN q : i < j => q[i] > q[j]

\* what encode() writes before the interval variables
Written(e, pref) ==
  EncodeProvides(e) \cup (UNION {EncodeUnit(e, i) : i \in e.needed})
    \cup EncodeInstall(e) \cup EncodeUpgrade(e) \cup EncodeRequestRemove(e)
    \cup pref.hard \cup AssertNotRemoved(e)

(***************************************************************************)
(* The clauses when all is written: the hard ones, and the soft ones with  *)
(* their weights, and the weights of the objectives, the largest first.    *)
(***************************************************************************)
Encoding(e, pref, written, intervals, top) ==
  LET all == written \cup intervals \cup {pref.soft[k][1] : k \in DOMAIN pref.soft}
      Heavy(c) == Weight(pref.soft, c) >= top
      IsHard(c) == c \in written \/ c \in intervals \/ Heavy(c)
  IN  [hard |-> {c \in all : IsHard(c)},
       weights |-> LargestFirst(pref.weights),
       soft |-> [c \in {d \in all : ~IsHard(d) /\ Weight(pref.soft, d) > 0} |-> Weight(pref.soft, c)],
       vars |-> {l[1] : l \in UNION all} \cup {UnitVar(e, i) : i \in e.needed}]

-----------------------------------------------------------------------------
(* The models of clauses *)

Satisfied(a, c) == \E l \in c : (l[1] \in a) = l[2]

\* units and features first, what is defined by them later
Order(xs) == Listed({x \in xs : x[1] = "pv"}) \o Listed({x \in xs : x[1] # "pv"})

(***************************************************************************)
(* The models of the hard clauses, as sets of true variables.  They are    *)
(* found variable by variable, a clause being checked at its last one.     *)
(***************************************************************************)
ModelsOf(xs, clauses) ==
  LET place == [x \in Range(xs) |-> CHOOSE k \in DOMAIN xs : xs[k] = x]
      last == [c \in clauses |-> Max({0} \cup {place[l[1]] : l \in c})]
      due == [k \in 0..Len(xs) |-> {c \in clauses : last[c] = k}]
      Extend(A, x) == LET d == due[place[x]]
                      IN  {a \in A \cup {b \cup {x} : b \in A} : \A c \in d : Satisfied(a, c)}
  IN  IF due[0] # {} THEN {} ELSE FoldLeft(Extend, {{}}, xs)
=============================================================================
