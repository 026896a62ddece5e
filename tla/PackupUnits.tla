----------------------------- MODULE PackupUnits -----------------------------
(***************************************************************************)
(* The upgrade problem that packup reads from a CUDF document, and the     *)
(* units (versions of packages) that it keeps of it (src/old_packup:       *)
(* the parser's callbacks, ConverterMem, Encoder::slice).                  *)
(*                                                                         *)
(* Documents have the form of module Cudf.  The formula true! is << >>,    *)
(* and false! is << << >> >>.  A unit is its position in pr.units; a       *)
(* feature is a pair <<name, version>>, version 0 if it has none.          *)
(***************************************************************************)
EXTENDS Integers, FiniteSets, SequencesExt

\* the elements of a set in some order
Listed(S) == FoldSet(LAMBDA x, q : Append(q, x), << >>, S)

\* version_operators::evaluate
Evaluate(v, op, w) ==
  CASE op = "none" -> TRUE
    [] op = "="  -> v = w
    [] op = "!=" -> v # w
    [] op = ">=" -> v >= w
    [] op = ">"  -> v > w
    [] op = "<=" -> v <= w
    [] op = "<"  -> v < w

-----------------------------------------------------------------------------
(* Reading *)

EmptyProblem == [units |-> << >>, install |-> {}, upgrade |-> << >>, remove |-> << >>]

\* start_package; the version has no default, but every stanza has one
StartPackage(n) ==
  [name |-> n, version |-> 0, installed |-> FALSE, keep |-> "none",
   depends |-> << >>, conflicts |-> << >>, provides |-> << >>, recommends |-> << >>]

\* Lists grow, other fields are overwritten.  Properties other than
\* recommends are skipped.
PackageField(unit, f) ==
  CASE f.tag \in {"depends", "conflicts", "provides"} -> [unit EXCEPT ![f.tag] = @ \o f.val]
    [] f.tag \in {"version", "installed", "keep"} -> [unit EXCEPT ![f.tag] = f.val]
    [] f.tag = "property" /\ f.prop = "recommends" -> [unit EXCEPT !.recommends = @ \o f.val]
    [] OTHER -> unit

\* action_feature
FeatureOf(vp) == <<vp.name, IF vp.op = "none" THEN 0 ELSE vp.version>>

Exactly(n, v) == [name |-> n, op |-> "=", version |-> v]
Anything(n) == [name |-> n, op |-> "none", version |-> 0]

HandleKeep(unit) ==
  IF ~unit.installed THEN {}
  ELSE CASE unit.keep = "version" -> {Exactly(unit.name, unit.version)}
         [] unit.keep = "package" -> {Anything(unit.name)}
         [] unit.keep = "feature" ->
              {IF FeatureOf(vp)[2] = 0 THEN Anything(vp.name) ELSE Exactly(vp.name, vp.version) :
                 vp \in Range(unit.provides)}
         [] OTHER -> {}

ClosePackage(pr, unit) ==
  [pr EXCEPT !.units = Append(@, unit), !.install = @ \cup HandleKeep(unit)]

RequestField(pr, f) ==
  CASE f.tag = "install" -> [pr EXCEPT !.install = @ \cup Range(f.val)]
    [] f.tag = "remove"  -> [pr EXCEPT !.remove = @ \o f.val]
    [] f.tag = "upgrade" -> [pr EXCEPT !.upgrade = @ \o f.val]

ReadStanza(pr, s) ==
  CASE s.kind = "package" -> ClosePackage(pr, FoldLeft(PackageField, StartPackage(s.name), s.fields))
    [] s.kind = "problem" -> FoldLeft(RequestField, pr, s.fields)
    [] OTHER -> pr

-----------------------------------------------------------------------------
(* The tables of what was read *)

Units(pr) == DOMAIN pr.units
ReadUnits(pr, n) == {i \in Units(pr) : pr.units[i].name = n}
ReadNames(pr) == {pr.units[i].name : i \in Units(pr)}
Provided(pr, i) == {FeatureOf(vp) : vp \in Range(pr.units[i].provides)}
AllProvided(pr) == UNION {Provided(pr, i) : i \in Units(pr)}
IsFeature(pr, n) == \E f \in AllProvided(pr) : f[1] = n
FeatureVersions(pr, n) == {f[2] : f \in {g \in AllProvided(pr) : g[1] = n}}
FeatureUnits(pr, f) == {i \in Units(pr) : f \in Provided(pr, i)}

IsAnyInstalled(pr, S) == \E i \in S : pr.units[i].installed
IsInstalledFeature(pr, f) == IsAnyInstalled(pr, FeatureUnits(pr, f))

\* find_latest_installed_version_in_original_problem: 0 if there is none
LatestInstalled(pr, n) ==
  Max({0} \cup (IF IsFeature(pr, n) THEN {v \in FeatureVersions(pr, n) : IsInstalledFeature(pr, <<n, v>>)}
                ELSE {pr.units[i].version : i \in {j \in ReadUnits(pr, n) : pr.units[j].installed}}))

\* An upgrade without a version asks for the latest installed one at least.
RefineUpgradeRequest(pr) ==
  LET Refined(vp) ==
        IF vp.op = "none" /\ LatestInstalled(pr, vp.name) # 0
        THEN [vp EXCEPT !.op = ">=", !.version = LatestInstalled(pr, vp.name)] ELSE vp
  IN  [pr EXCEPT !.upgrade = [k \in DOMAIN @ |-> Refined(@[k])]]

-----------------------------------------------------------------------------
(* The criteria: a sequence of [word, max] *)

Minimise(word) == [word |-> word, max |-> FALSE]
Paranoid == <<Minimise("removed"), Minimise("changed")>>
Trendy == <<Minimise("removed"), Minimise("notuptodate"), Minimise("unmet_recommends"), Minimise("new")>>

\* set_criterion and set_lexicographic, one after the other
Criteria(o) ==
  (IF o.trendy THEN Trendy ELSE << >>) \o (IF o.paranoid THEN Paranoid ELSE << >>) \o o.user

ProcessRecommends(lex) == \E k \in DOMAIN lex : lex[k] = Minimise("unmet_recommends")
ProcessNotUpToDate(lex) == \E k \in DOMAIN lex : lex[k] = Minimise("notuptodate")

\* gt: what the first criterion of that name asks for
First(word, lex) == SelectInSeq(lex, LAMBDA c : c.word = word)
Minimised(word, lex) == First(word, lex) # 0 /\ ~lex[First(word, lex)].max
Maximised(word, lex) == First(word, lex) # 0 /\ lex[First(word, lex)].max

-----------------------------------------------------------------------------
(* Slicing *)

NeedPackages(pr, vp) == {i \in ReadUnits(pr, vp.name) : Evaluate(pr.units[i].version, vp.op, vp.version)}

\* all the providers of the features that match, and of those without version
NeedFeatures(pr, vp) ==
  UNION {FeatureUnits(pr, <<vp.name, v>>) :
           v \in {0} \cup {w \in FeatureVersions(pr, vp.name) : Evaluate(w, vp.op, vp.version)}}

NeedVersions(pr, vp) == IF IsFeature(pr, vp.name) THEN NeedFeatures(pr, vp) ELSE NeedPackages(pr, vp)

NeedFormula(pr, cnf) == UNION {NeedVersions(pr, vp) : vp \in UNION {Range(cnf[k]) : k \in DOMAIN cnf}}

NeedLatest(pr, n) ==
  {i \in ReadUnits(pr, n) : pr.units[i].version > 0
                              /\ \A j \in ReadUnits(pr, n) : pr.units[j].version <= pr.units[i].version}

NeedUnit(pr, lex, i) ==
  NeedFormula(pr, pr.units[i].depends)
    \cup (IF ProcessRecommends(lex) THEN NeedFormula(pr, pr.units[i].recommends) ELSE {})
    \cup (IF ProcessNotUpToDate(lex) THEN NeedLatest(pr, pr.units[i].name) ELSE {})

SliceChanged(pr, lex) ==
  {i \in Units(pr) : \/ Minimised("changed", lex) /\ pr.units[i].installed
                     \/ Maximised("changed", lex) /\ ~pr.units[i].installed}

Seeds(pr, lex) ==
  LET OfName(T(_)) == UNION {ReadUnits(pr, n) : n \in {m \in ReadNames(pr) : T(m)}}
  IN  (UNION {NeedVersions(pr, vp) : vp \in Range(pr.upgrade) \cup pr.install})
        \cup OfName(LAMBDA n : /\ Minimised("removed", lex)
                               /\ IsAnyInstalled(pr, ReadUnits(pr, n)))
        \cup OfName(LAMBDA n : /\ Maximised("new", lex)
                               /\ ~IsAnyInstalled(pr, ReadUnits(pr, n)))
        \cup {i \in Units(pr) : Maximised("unmet_recommends", lex) /\ pr.units[i].recommends # << >>}
        \cup OfName(LAMBDA n : Maximised("notuptodate", lex) /\ Cardinality(ReadUnits(pr, n)) > 1)
        \cup SliceChanged(pr, lex)

\* A mutant: packages in recommendations are not needed.
NeededFrom_noRecommends(pr, lex, S) ==
  LET f[k \in 0..Len(pr.units)] ==
        IF k = 0 THEN S
        ELSE LET T == f[k-1] IN T \cup UNION {NeedFormula(pr, pr.units[i].depends) : i \in T}
  IN  f[Len(pr.units)]

\* need, for every unit that is reached
NeededFrom(pr, lex, S) ==
  LET f[k \in 0..Len(pr.units)] ==
        IF k = 0 THEN S ELSE LET T == f[k-1] IN T \cup UNION {NeedUnit(pr, lex, i) : i \in T}
  IN  f[Len(pr.units)]

(***************************************************************************)
(* What the encoder works on: the problem, the criteria, the needed units, *)
(* and the features that these provide.                                    *)
(***************************************************************************)
Sliced(pr, lex) ==
  LET needed == NeededFrom(pr, lex, Seeds(pr, lex))
  IN  [pr |-> pr, lex |-> lex, needed |-> needed,
       features |-> UNION {Provided(pr, i) : i \in needed}]
=============================================================================
