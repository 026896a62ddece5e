------------------------------- MODULE MCPackup -------------------------------
(***************************************************************************)
(* Small documents, each with the options that concern it.  A name is that *)
(* of a package or of a feature, versions are positive, and an upgrade is  *)
(* of something that is installed.                                         *)
(***************************************************************************)
EXTENDS Packup

Vpkg(n) == [name |-> n, op |-> "none", version |-> 0]
Vers(n, op, v) == [name |-> n, op |-> op, version |-> v]
Tag(tag, val) == [tag |-> tag, val |-> val]

Package(n, v, fields) == [kind |-> "package", name |-> n, fields |-> <<Tag("version", v)>> \o fields]
Here == Tag("installed", TRUE)
Deps(f) == Tag("depends", f)
Confs(l) == Tag("conflicts", l)
Provs(l) == Tag("provides", l)
Suggest(f) == [tag |-> "property", prop |-> "recommends", kind |-> "vpkgformula", val |-> f]
Problem(fields) == [kind |-> "problem", fields |-> fields]

-----------------------------------------------------------------------------
(* Options *)

Options(user, mode) ==
  [trendy |-> FALSE, paranoid |-> FALSE, user |-> user, solve |-> TRUE, mode |-> mode, limit |-> FALSE]
M(word) == [word |-> word, max |-> FALSE]
X(word) == [word |-> word, max |-> TRUE]

ByParanoid(mode) == [Options(<< >>, mode) EXCEPT !.paranoid = TRUE]
ByTrendy(mode) == [Options(<< >>, mode) EXCEPT !.trendy = TRUE]
Limited(mode) == [ByParanoid(mode) EXCEPT !.limit = TRUE]

On(docs, opts) == {[doc |-> d, o |-> opt] : d \in docs, opt \in opts}

-----------------------------------------------------------------------------
(* Documents *)

\* an upgrade that takes a dependency and a conflict with it
Cascade(request) ==
  <<Package("a", 1, <<Here>>),
    Package("a", 2, <<Deps(<< <<Vpkg("b"), Vers("c", ">=", 2)>> >>)>>),
    Package("b", 1, <<Confs(<<Vers("c", "=", 1)>>)>>),
    Package("c", 1, <<Here, Deps(<< <<Vpkg("a")>> >>)>>),
    Package("c", 2, <<Confs(<<Vers("a", "=", 1), Vpkg("c")>>), Tag("keep", "none")>>),
    Problem(request)>>

Cascades == {Cascade(<<Tag("upgrade", <<Vers("a", ">=", 2)>>)>>),
             Cascade(<<Tag("install", <<Vpkg("b")>>)>>),
             Cascade(<<Tag("remove", <<Vers("c", "<", 2)>>), Tag("install", <<Vers("a", "!=", 1)>>)>>)}

\* packages that provide a feature, and an upgrade of the feature
Feature(request) ==
  <<Package("a", 1, <<Here, Provs(<<Vers("f", "=", 1)>>)>>),
    Package("b", 1, <<Provs(<<Vers("f", "=", 2), Vers("f", "=", 3)>>), Confs(<<Vers("f", "=", 2)>>)>>),
    Package("b", 2, <<Provs(<<Vers("f", "=", 2)>>)>>),
    Package("c", 1, <<Here, Deps(<< <<Vers("f", ">", 0)>> >>), Tag("keep", "package")>>),
    Package("c", 3, <<Provs(<<Vpkg("f")>>), Confs(<<Vpkg("f")>>)>>),
    Problem(request)>>

FeatureDocs == {Feature(<<Tag("upgrade", <<Vers("f", ">=", r)>>)>>) : r \in {1, 2}}
                \cup {Feature(<<Tag("install", <<Vers("c", ">", 1)>>)>>),
                      Feature(<<Tag("remove", <<Vers("f", "=", 1)>>), Tag("upgrade", <<Vpkg("c")>>)>>),
                      Feature(<<Tag("install", <<Vers("f", ">=", 9)>>)>>)}

\* what installed packages have to keep
Keep(k) == <<Package("a", 1, <<Here, Provs(<<Vers("f", "=", 1), Vpkg("g")>>), Tag("keep", k)>>),
             Package("a", 2, <<Provs(<<Vers("f", "=", 1)>>)>>),
             Package("b", 1, <<Confs(<<Vers("a", "<", 2)>>), Provs(<<Vpkg("g")>>)>>),
             Package("d", 1, <<Confs(<<Vers("f", ">=", 1)>>)>>),
             Problem(<<Tag("install", <<Vpkg("b")>>)>>)>>
Keeps == {Keep(k) : k \in {"version", "package", "feature", "none"}}

\* a package of five versions, which are asked for up and down from some
Long(d, c, request) ==
  <<Package("a", 1, << >>), Package("a", 2, <<Here>>), Package("a", 3, << >>), Package("a", 4, << >>),
    Package("a", 5, <<Confs(<<Vpkg("b")>>)>>),
    Package("b", 1, <<Deps(<< <<d>> >>), Confs(<<c>>)>>),
    Problem(request)>>
Longs == {Long(d, c, r) :
            d \in {Vpkg("a"), Vers("a", ">=", 2), Vers("a", "<", 5)},
            c \in {Vers("a", "<=", 4), Vers("a", ">", 1), Vers("a", "!=", 3)},
            r \in {<<Tag("upgrade", <<Vers("a", "!=", 5)>>), Tag("install", <<Vpkg("b")>>)>>,
                   <<Tag("remove", <<Vers("a", "!=", 3)>>)>>}}
         \cup {Long(Vers("a", ">=", 2), Vers("a", ">", 2), <<Tag("install", <<Vpkg("b")>>), Tag("upgrade", <<q>>)>>) :
                 q \in {Vpkg("a"), Vers("a", "<=", 4)}}

\* recommendations, of packages and of a feature
Recommending(n) ==
  <<Package("a", 1, <<Here, Suggest(<< <<Vpkg("b"), Vpkg("c")>>, <<Vpkg(n)>> >>)>>),
    Package("b", 1, <<Provs(<<Vpkg("g")>>), Confs(<<Vers("c", "=", 1)>>)>>),
    Package("c", 1, <<Suggest(<< <<Vers("b", ">", 0)>> >>)>>),
    Package("c", 2, <<Suggest(<< <<Vers("b", ">", 0)>>, <<Vers("d", "!=", 1)>> >>)>>),
    Package("d", 1, <<Provs(<<Vpkg("g")>>), Confs(<<Vpkg("b")>>)>>),
    Problem(<<Tag("install", <<Vpkg("c")>>)>>)>>

\* nothing can be done
Hopeless == <<Package("a", 1, <<Deps(<< <<Vpkg("b")>>, <<Vpkg("c")>> >>)>>),
              Package("b", 1, <<Here, Confs(<<Vpkg("c")>>)>>),
              Package("c", 1, << >>),
              Problem(<<Tag("install", <<Vpkg("a")>>)>>)>>

Small == <<Package("a", 1, <<Here>>), Package("a", 2, <<Confs(<<Vpkg("b")>>)>>), Package("b", 1, <<Here>>),
           Problem(<<Tag("install", <<Vers("a", ">", 1)>>)>>)>>

\* all versions of a require b, so that neither is removed
Chain == <<Package("a", 1, <<Here, Deps(<< <<Vpkg("b")>> >>)>>),
           Package("a", 2, <<Deps(<< <<Vpkg("b")>>, <<Vpkg("d")>> >>)>>),
           Package("b", 1, <<Here>>), Package("b", 2, <<Confs(<<Vers("a", "=", 1)>>)>>),
           Package("d", 1, <<Here, Confs(<<Vpkg("b")>>)>>),
           Problem(<<Tag("upgrade", <<Vpkg("a")>>)>>)>>

(* Many documents of one form: a dependency and a conflict of a, what b    *)
(* provides, which packages are installed, and a request.                  *)
Sweep ==
  {<<Package("a", 1, <<Deps(d), Confs(c), Tag("installed", ia)>>),
     Package("b", 1, <<Provs(p), Tag("installed", ib)>>),
     Package("b", 2, <<Confs(<<Vers("a", "=", 1)>>), Tag("installed", TRUE)>>),
     Package("c", 2, <<Provs(<<Vers("f", "=", 2)>>), Deps(<< <<Vers("f", "<=", 2)>> >>), Tag("installed", ~ib)>>),
     Problem(<<Tag(r, <<q>>)>>)>> :
       d \in {<< <<Vpkg("b")>> >>, << <<Vers("f", ">", 1), Vers("b", "=", 2)>>, <<Vpkg("c"), Vpkg("f")>> >>},
       c \in {<<Vpkg("f")>>, <<Vers("b", "<", 2), Vpkg("c")>>},
       p \in {<<Vpkg("f")>>, <<Vers("f", "=", 2), Vers("f", "=", 3)>>},
       ia \in BOOLEAN, ib \in BOOLEAN,
       r \in {"install", "remove", "upgrade"}, q \in {Vpkg("b"), Vers("f", ">=", 1), Vers("b", "!=", 2)}}

\* two criteria, minimised; one of them makes all installed units needed
Pairs == {<<M(v), M(w)>> : v \in {"removed", "changed"}, w \in {"new", "notuptodate", "unmet_recommends", "changed"}}
           \ {<<M("changed"), M("changed")>>}

Documents ==
  UNION {On(Longs, {ByParanoid("opb"), ByTrendy("opb"), Options(<<X("new"), M("removed")>>, "wcnf")}),
         On(Cascades \cup FeatureDocs \cup Keeps \cup {Chain},
            {ByParanoid("opb"), ByTrendy("opb"), Options(<<X("changed"), M("removed")>>, "wcnf"),
             Options(<<X("new"), X("removed"), M("changed")>>, "opb")}),
         On(Cascades \cup FeatureDocs \cup {Chain, Recommending("d")}, {Options(p, "optimise") : p \in Pairs}),
         On(Sweep, {ByParanoid("opb"), Options(<<M("removed"), X("notuptodate"), M("changed")>>, "opb")}),
         On({Recommending(n) : n \in {"d", "g"}},
            {ByTrendy("opb"), ByTrendy("optimise"),
             Options(<<X("unmet_recommends"), M("changed")>>, "opb"),
             Options(<<M("unmet_recommends"), M("changed")>>, "wcnf")}),
         On({Cascade(<<Tag("install", <<Vpkg("b")>>)>>), Chain, Hopeless, Small},
            {ByParanoid(mode) : mode \in Modes} \cup {Limited("opb"), Limited("wcnf"), ByTrendy("optimise")}),
         On({Small}, {Options(<< >>, "opb"), [Options(<< >>, "opb") EXCEPT !.limit = TRUE],
                      Options(<<M("changed")>>, "optimise"),
                      [ByParanoid("opb") EXCEPT !.solve = FALSE]})}
=============================================================================
