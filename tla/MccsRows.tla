------------------------------ MODULE MccsRows -------------------------------
(***************************************************************************)
(* From the universe to the integer program of mccs: the reduction of the  *)
(* problem (src/mccs-1.1/sources/cudf_reductions.c) and the rows that the  *)
(* request and the packages give (constraint_generation.c).                *)
(*                                                                         *)
(* The column of a package is its position in u.pkgs, so that the ranks    *)
(* that compute_reduced_CUDF assigns anew are not needed; the other        *)
(* columns come after Len(u.pkgs).  A row is a record                      *)
(*   [co |-> a function from columns to coefficients, op, b].              *)
(* o holds the options of the command line: agg and deagg choose the form  *)
(* of the rows, cov the columns of the criteria.                           *)
(***************************************************************************)
EXTENDS Cudf

Row(co, op, b) == [co |-> co, op |-> op, b |-> b]
Const(S, k) == [x \in S |-> k]

\* "-lex[-a,-b]" and its like, once process_criteria has read them
SimpleCriteria == {"removed", "new", "changed", "notuptodate", "count", "nunsat"}

RECURSIVE SimpleOf(_)
SimpleOf(c) == IF c.crit \in SimpleCriteria THEN {c}
               ELSE UNION {SimpleOf(c.crits[k]) : k \in DOMAIN c.crits}

\* check_property: a criterion on a property that is not declared, or not of
\* its type, is not used
HasProp(u, c) ==
  /\ Declared(u, c.prop)
  /\ c.crit = "count"  => Decl(u, c.prop).type \in IntTypes
  /\ c.crit = "nunsat" => Decl(u, c.prop).type = "vpkgformula"

Processed(u, crit) == {c.prop : c \in {d \in SimpleOf(crit) : d.crit = "nunsat" /\ HasProp(u, d)}}

-----------------------------------------------------------------------------
(* Reduction *)

FormulaNames(f) == {vp.name : vp \in UNION {Range(f[k]) : k \in DOMAIN f}} \ {"true!", "false!"}
ListNames(l) == {vp.name : vp \in Range(l)}

\* process_package: the names that a package brings in
LinkedNames(u, props, i) ==
  {u.pkgs[i].name}
    \cup FormulaNames(u.pkgs[i].depends)
    \cup UNION {FormulaNames(PropertyOf(u.pkgs[i], p)) : p \in {q \in props : HasProperty(u.pkgs[i], q)}}

PackagesOf(u, n) == AllVersions(u, n) \cup Providers(u, n) \cup {w[2] : w \in VersionedProviders(u, n)}

RECURSIVE Reach(_, _, _)
Reach(u, props, names) ==
  LET pkgs == UNION {PackagesOf(u, n) : n \in names}
      more == names \cup UNION {LinkedNames(u, props, i) : i \in pkgs}
  IN  IF more = names THEN [pkgs |-> pkgs, names |-> names] ELSE Reach(u, props, more)

\* compute_reduced_CUDF
Reduced(u, props) ==
  Reach(u, props,
        {u.pkgs[i].name : i \in {j \in u.listed : u.pkgs[j].installed}}
          \cup ListNames(u.request.install) \cup ListNames(u.request.upgrade)
          \cup ListNames(u.request.remove))

AllNames(u) ==
  {u.pkgs[i].name : i \in DOMAIN u.pkgs} \cup {p[1] : p \in u.provs}
    \cup UNION {FormulaNames(u.pkgs[i].depends) \cup ListNames(u.pkgs[i].conflicts) : i \in DOMAIN u.pkgs}
    \cup UNION {ListNames(u.request[t]) : t \in DOMAIN u.request}

Whole(u) == [pkgs |-> DOMAIN u.pkgs, names |-> AllNames(u)]

\* use_pkg: in the reduced problem, if there is one
Use(pb, S) == S \cap pb.pkgs

-----------------------------------------------------------------------------
(* Install and Remove *)

InstallRow(u, pb, vp) == Row(Const(Use(pb, Match(u, vp)), 1), ">=", 1)

RemoveRows(u, pb, o, vp) ==
  LET S == Use(pb, Match(u, vp))
  IN  (IF o.agg THEN {Row(Const(S, 1), "=", 0)} ELSE {})
        \cup (IF o.deagg THEN {Row(Const({i}, 1), "=", 0) : i \in S} ELSE {})

-----------------------------------------------------------------------------
(* Upgrade: preprocess_upgrade walks up the versions of the package and of *)
(* the feature at the same time.                                           *)

\* st: own and prov, the versions still to be seen; rm, the packages to
\* remove; sets, the packages to choose from, by version
Elsewhere(st, v, i) == \E w \in st.prov : w[1] # v /\ w[2] = i

Unwanted(st, vp, v, i) == ~Comp(vp.op, v, vp.version) \/ Elsewhere(st, v, i)

RECURSIVE Walk(_, _, _)
Walk(u, vp, st) ==
  IF st.own = {} /\ st.prov = {} THEN st
  ELSE LET vo == IF st.own = {} THEN 0 ELSE Min(VersionsOf(u, st.own))
           v  == Max({vo} \cup (IF st.prov = {} THEN {} ELSE {Min({w[1] : w \in st.prov})}))
           here  == {i \in st.own : vo = v /\ u.pkgs[i].version = v}
           there == {w[2] : w \in {x \in st.prov : x[1] = v}}
           out1 == {i \in here : Unwanted(st, vp, v, i)}
           in1  == here \ (st.rm \cup out1)
           out2 == {i \in there : Unwanted(st, vp, v, i) \/ u.pkgs[i].name = vp.name}
           in2  == there \ (st.rm \cup out1 \cup out2)
           got  == in1 \cup in2
       IN  Walk(u, vp,
                [own  |-> st.own \ here,
                 prov |-> {w \in st.prov : w[1] # v},
                 rm   |-> st.rm \cup out1 \cup out2,
                 nb   |-> st.nb + (IF Cardinality(got) > 1 THEN 1 ELSE 0),
                 \* insert does nothing when the version is already there
                 sets |-> IF got = {} \/ v \in DOMAIN st.sets THEN st.sets ELSE st.sets @@ (v :> got)])

Upgrade(u, vp) ==
  LET hv == HighestInstalled(u, vp.name)
      own == AllVersions(u, vp.name)
      prov == VersionedProviders(u, vp.name)
      low == {i \in own : u.pkgs[i].version < hv}
  IN  Walk(u, vp,
           [own  |-> own \ low,
            prov |-> {w \in prov : w[1] >= hv},
            rm   |-> Providers(u, vp.name) \cup low \cup {w[2] : w \in {x \in prov : x[1] < hv}},
            nb   |-> 0,
            sets |-> << >>])

Upgrades(u) == [k \in DOMAIN u.request.upgrade |-> Upgrade(u, u.request.upgrade[k])]

\* the first new column of the k-th upgrade
FirstOf(ups, first, k) == FoldLeft(LAMBDA a, x : a + x.nb, first, SubSeq(ups, 1, k - 1))

\* one version, and of that version at least one package
UpgradeRows(o, up, first) ==
  LET multi == {v \in DOMAIN up.sets : Cardinality(up.sets[v]) > 1}
      single == UNION {up.sets[v] : v \in DOMAIN up.sets \ multi}
      Var(v) == first + Cardinality({w \in multi : w < v})
  IN  (IF o.agg THEN {Row(Const(up.rm, 1), "=", 0)} ELSE {})
        \cup (IF o.deagg THEN {Row(Const({i}, 1), "=", 0) : i \in up.rm} ELSE {})
        \cup {Row(Const(single \cup {Var(v) : v \in multi}, 1), "=", 1)}
        \cup {Row(Const(up.sets[v], 1) @@ (Var(v) :> -1), ">=", 0) : v \in multi}
        \cup {Row(Const(up.sets[v], -1) @@ (Var(v) :> Cardinality(up.sets[v])), ">=", 0) : v \in multi}

-----------------------------------------------------------------------------
(* Depends.  The loops over the packages that a disjunct asks for stop at  *)
(* the package itself; has_coeff and nb are then reset, and the providers  *)
(* of the rest of the disjunction are not looked at.  st.all: the packages *)
(* seen; st.from: how many when the count was last reset.                  *)

\* the elements of S in the order Before
Ranked(S, Before(_, _)) ==
  [k \in 1..Cardinality(S) |-> CHOOSE x \in S : Cardinality({y \in S : Before(y, x)}) = k - 1]

ByVersion(u, S) == Ranked(S, LAMBDA i, j : u.pkgs[i].version < u.pkgs[j].version)
ById(S) == Ranked(S, LAMBDA i, j : i < j)

VersionedSeq(u, vp) ==
  LET S == {w \in VersionedProviders(u, vp.name) : Comp(vp.op, w[1], vp.version)}
      q == Ranked(S, LAMBDA a, b : a[1] < b[1] \/ (a[1] = b[1] /\ a[2] < b[2]))
  IN  [k \in DOMAIN q |-> q[k][2]]

Visit(i, st, q) ==
  IF ~\E k \in DOMAIN q : q[k] = i THEN [st EXCEPT !.all = @ \o q]
  ELSE LET k == Min({j \in DOMAIN q : q[j] = i})
           all == st.all \o SubSeq(q, 1, k - 1)
       IN  [self |-> TRUE, all |-> all, from |-> Len(all)]

Scan(u, i, disjuncts, providers) ==
  LET Disjunct(st, vp) ==
        LET s1 == Visit(i, st, ByVersion(u, OwnMatch(u, vp)))
            s2 == IF providers /\ ~s1.self THEN Visit(i, s1, ById(Providers(u, vp.name))) ELSE s1
        IN  IF providers /\ ~s2.self THEN Visit(i, s2, VersionedSeq(u, vp)) ELSE s2
  IN  FoldLeft(Disjunct, [self |-> FALSE, all |-> << >>, from |-> 0], disjuncts)

\* A mutant: a dependency that no package of the universe satisfies is dropped.
DependsRowMissing(u, pb, i, disjuncts) ==
  LET st == Scan(u, i, disjuncts, TRUE)
      has == \E k \in st.from + 1 .. Len(st.all) : st.all[k] \in pb.pkgs
  IN  IF has THEN {Row(Const(Use(pb, Range(st.all)), 1) @@ (i :> -1), ">=", 0)} ELSE {}

DependsRow(u, pb, i, disjuncts) ==
  LET st == Scan(u, i, disjuncts, TRUE)
      has == \E k \in st.from + 1 .. Len(st.all) : st.all[k] \in pb.pkgs
  IN  IF has THEN {Row(Const(Use(pb, Range(st.all)), 1) @@ (i :> -1), ">=", 0)}
      ELSE IF st.self THEN {} ELSE {Row(Const({i}, 1), "=", 0)}

DependsRows(u, pb, i) ==
  UNION {DependsRow(u, pb, i, u.pkgs[i].depends[k]) : k \in DOMAIN u.pkgs[i].depends}

\* the constants true! and false! have no virtual package to look at
NullPackage(u, pb) ==
  \E i \in pb.pkgs : \E k \in DOMAIN u.pkgs[i].depends :
    \E vp \in Range(u.pkgs[i].depends[k]) : vp \in {VTrue, VFalse}

-----------------------------------------------------------------------------
(* Conflicts and Keep *)

ConflictRows(u, pb, o, i) ==
  LET S == Use(pb, UNION {Match(u, vp) : vp \in Range(u.pkgs[i].conflicts)} \ {i})
      n == Cardinality(S)
  IN  (IF o.agg /\ n > 0 THEN {Row(Const(S, -1) @@ (i :> -n), ">=", -n)} ELSE {})
        \cup (IF o.deagg THEN {Row(Const({i, j}, 1), "<=", 1) : j \in S} ELSE {})

\* A mutant: "keep: package" asks for the package itself.
KeepRowsSelf(u, pb, i) ==
  IF u.pkgs[i].installed /\ u.pkgs[i].keep \in {"version", "package"} THEN {Row(Const({i}, 1), "=", 1)} ELSE {}

KeepRows(u, pb, i) ==
  LET p == u.pkgs[i]
  IN  CASE p.installed /\ p.keep = "version" -> {Row(Const({i}, 1), "=", 1)}
        [] p.installed /\ p.keep = "package" -> {Row(Const(Use(pb, AllVersions(u, p.name)), 1), ">=", 1)}
        [] OTHER -> {}

-----------------------------------------------------------------------------
(* generate_constraints *)

\* a request that nothing satisfies: generate_constraints returns -1
Hopeless(u, pb) ==
  \/ \E vp \in Range(u.request.install) : Use(pb, Match(u, vp)) = {}
  \/ \E k \in DOMAIN u.request.upgrade : Upgrades(u)[k].sets = << >>

RequestRows(u, pb, o, first) ==
  LET ups == Upgrades(u)
  IN  {InstallRow(u, pb, vp) : vp \in Range(u.request.install)}
        \cup UNION {RemoveRows(u, pb, o, vp) : vp \in Range(u.request.remove)}
        \cup UNION {UpgradeRows(o, ups[k], FirstOf(ups, first, k)) : k \in DOMAIN ups}

PackageRows(u, pb, o) ==
  UNION {DependsRows(u, pb, i) \cup ConflictRows(u, pb, o, i) \cup KeepRows(u, pb, i) : i \in pb.pkgs}

\* add_constraint_geq, _leq and _eq write no row without coefficients
Written(rows) == {r \in rows : DOMAIN r.co # {}}
=============================================================================
