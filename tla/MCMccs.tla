-------------------------------- MODULE MCMccs --------------------------------
(***************************************************************************)
(* Small documents, each with the options that concern it.                 *)
(***************************************************************************)
EXTENDS Mccs

Vpkg(n) == [name |-> n, op |-> "none", version |-> 0]
Vers(n, op, v) == [name |-> n, op |-> op, version |-> v]
Tag(tag, val) == [tag |-> tag, val |-> val]
Prop(p, kind, val) == [tag |-> "property", prop |-> p, kind |-> kind, val |-> val]

Package(n, v, fields) == [kind |-> "package", name |-> n, fields |-> <<Tag("version", v)>> \o fields]
Here == Tag("installed", TRUE)
Deps(f) == Tag("depends", f)
Confs(l) == Tag("conflicts", l)
Provs(l) == Tag("provides", l)
Problem(fields) == [kind |-> "problem", fields |-> fields]
Preamble(decls) == [kind |-> "preamble", decls |-> decls]
Property(p, type, default) == [prop |-> p, type |-> type, default |-> default, enum |-> {"low", "high"}]

-----------------------------------------------------------------------------
(* Criteria and options *)

C(word) == [sign |-> "-", word |-> word, lambda |-> 1, prop |-> "", opt |-> FALSE, crits |-> << >>]
Plus(c) == [c EXCEPT !.sign = "+"]
Weigh(k, c) == [c EXCEPT !.lambda = k]
Of(word, crits) == [C(word) EXCEPT !.crits = crits]
Count(p, new) == [C("count") EXCEPT !.prop = p, !.opt = new]
Nunsat(p, features) == [C("nunsat") EXCEPT !.prop = p, !.opt = features]

Options(comb, crits, backend) ==
  [comb |-> comb, crits |-> crits, agg |-> FALSE, deagg |-> TRUE, cov |-> FALSE,
   noreduce |-> FALSE, nosolve |-> FALSE, backend |-> backend, limit |-> FALSE]

Lex(crits) == Options("lexicographic", crits, "cplex")
By(opt, backend) == [opt EXCEPT !.backend = backend]
Limited(opt, backend) == [opt EXCEPT !.backend = backend, !.limit = TRUE]
Unreduced(opt) == [opt EXCEPT !.noreduce = TRUE]
Agg(opt) == [opt EXCEPT !.agg = TRUE, !.deagg = FALSE]
Both(opt) == [opt EXCEPT !.agg = TRUE]
Cov(opt) == [opt EXCEPT !.cov = TRUE]

Simple == {Lex(<<C("removed"), C("notuptodate"), C("new")>>),
           Lex(<<C("changed"), C("notuptodate")>>),
           Lex(<<C("removed"), Of("agregate", <<C("new"), C("changed")>>)>>),
           Options("agregate", <<Weigh(2, C("removed")), C("new"), C("notuptodate")>>, "gurobi"),
           Options("lexagregate", <<C("changed"), C("new")>>, "gurobi"),
           Options("lexsemiagregate", <<C("removed"), C("changed"), C("new")>>, "glpk"),
           Lex(<<Plus(C("changed")), C("removed")>>)}
Variants(S) == S \cup {Unreduced(x) : x \in S} \cup {Cov(Agg(x)) : x \in S} \cup {Both(x) : x \in S}
Leximax3 == {Options("leximax", <<C("removed"), C("changed")>>, "cplex"),
             Options("leximin", <<C("new"), C("changed")>>, "glpk"),
             Options("lexleximax", <<C("removed"), C("changed"), C("notuptodate")>>, "gurobi"),
             Lex(<<C("notuptodate"), Of("leximax", <<C("removed"), C("new")>>)>>),
             Lex(<<Plus(Of("leximax", <<C("changed"), C("notuptodate")>>)), C("removed")>>)}
Anyhow == {By(Lex(<<C("new"), C("removed")>>), b) : b \in BackEnds}
            \cup {Limited(Lex(<<C("removed"), C("notuptodate"), C("new")>>), b) : b \in {"scip", "cplex"}}

On(docs, opts) == {[doc |-> d, o |-> opt] : d \in docs, opt \in opts}

-----------------------------------------------------------------------------
(* Documents *)

\* an upgrade that takes a dependency and a conflict with it
Cascade(request) ==
  <<Package("a", 1, <<Here>>),
    Package("a", 2, <<Deps(<< <<Vpkg("b"), Vers("c", ">=", 2)>> >>)>>),
    Package("b", 1, <<Confs(<<Vers("c", "=", 1)>>)>>),
    Package("c", 1, <<Here, Deps(<< <<Vpkg("a")>> >>)>>),
    Package("c", 2, <<Confs(<<Vers("a", "=", 1)>>), Tag("keep", "none")>>),
    Problem(request)>>

Cascades == {Cascade(<<Tag("upgrade", <<Vers("a", ">=", 2)>>)>>),
             Cascade(<<Tag("install", <<Vpkg("b")>>)>>),
             Cascade(<<Tag("remove", <<Vers("c", "<", 2)>>), Tag("install", <<Vers("a", "!=", 1)>>)>>)}

\* packages that provide a feature, and an upgrade of the feature
Feature(request) ==
  <<Package("a", 1, <<Here, Provs(<<Vers("f", "=", 1)>>)>>),
    Package("b", 1, <<Provs(<<Vers("f", "=", 2), Vers("f", "=", 3)>>)>>),
    Package("b", 2, <<Provs(<<Vers("f", "=", 2)>>)>>),
    Package("c", 1, <<Here, Deps(<< <<Vers("f", ">", 0)>> >>), Tag("keep", "package")>>),
    Package("c", 3, <<Provs(<<Vpkg("f")>>), Confs(<<Vpkg("f")>>)>>),
    Problem(request)>>

FeatureDocs == {Feature(<<Tag("upgrade", <<Vers("f", ">=", r)>>)>>) : r \in {1, 2}}
                \cup {Feature(<<Tag("install", <<Vers("c", ">", 1)>>)>>),
                      Feature(<<Tag("remove", <<Vers("f", "=", 1)>>), Tag("upgrade", <<Vpkg("c")>>)>>)}

\* one package with two installed versions, another kept, an upgrade of it
Twice == <<Package("a", 1, <<Tag("wasinstalled", TRUE), Here>>),
           Package("a", 2, <<Here, Tag("keep", "version")>>),
           Package("a", 3, <<Confs(<<Vpkg("b")>>)>>),
           Package("b", 1, <<Here, Provs(<<Vers("a", "=", 3)>>)>>),
           Problem(<<Tag("upgrade", <<Vpkg("a")>>)>>)>>

\* the highest installed version of the feature is that of the first package
Order == <<Package("a", 1, <<Here, Provs(<<Vers("f", "=", 3)>>)>>),
           Package("b", 1, <<Provs(<<Vers("f", "=", 2)>>), Here>>),
           Package("d", 1, <<Provs(<<Vers("f", "=", 4)>>), Deps(<< <<Vpkg("e")>> >>)>>),
           Package("e", 0, <<Confs(<<Vpkg("a"), Vpkg("b")>>)>>),
           Problem(<<Tag("upgrade", <<Vpkg("f")>>)>>)>>

\* nothing can be done, because of a package and because of the request
Hopeless1 == <<Package("a", 1, <<Deps(<< <<Vpkg("b")>>, <<Vpkg("c")>> >>)>>),
               Package("b", 1, <<Here, Confs(<<Vpkg("c")>>)>>),
               Package("c", 1, << >>),
               Problem(<<Tag("install", <<Vpkg("a")>>)>>)>>
\* the relaxation has a solution with halves, but there is no installation
Hopeless3 == <<Package("a", 1, <<Deps(<< <<Vpkg("b"), Vpkg("c")>>, <<Vpkg("c"), Vpkg("d")>>, <<Vpkg("b"), Vpkg("d")>> >>)>>),
               Package("b", 1, <<Here, Confs(<<Vpkg("c"), Vpkg("d")>>)>>),
               Package("c", 1, <<Confs(<<Vpkg("d")>>)>>),
               Package("d", 1, << >>),
               Problem(<<Tag("install", <<Vpkg("a")>>)>>)>>
Hopeless2(tag) == <<Package("a", 1, <<Here>>), Problem(<<Tag(tag, <<Vers("a", ">", 1)>>)>>)>>

\* a kept package with another version, a dependency that nothing satisfies
Keeping == <<Package("a", 1, <<Here, Tag("keep", "package")>>), Package("a", 2, << >>),
             Problem(<<Tag("remove", <<Vers("a", "<", 2)>>)>>)>>
Missing == <<Package("a", 1, <<Deps(<< <<Vpkg("z"), Vers("b", ">", 1)>> >>)>>), Package("b", 1, << >>),
             Problem(<<Tag("install", <<Vpkg("a")>>)>>)>>

\* a package that no package of the universe can satisfy, and a kept feature
Stricts == {<<Package("a", 1, <<Here, Deps(<< <<Vpkg("a"), Vers("b", "=", 1)>> >>)>>),
             Package("b", 1, <<Here>>),
             Package("b", 2, <<Deps(<< <<Vpkg("z")>> >>)>>),
             Package("d", 2, <<Deps(<< <<Vers("b", "=", 2), Vpkg("d")>>, <<Vpkg("d")>> >>)>>),
             Problem(<<Tag("install", <<Vpkg("b")>>)>>)>>,
           <<Package("a", 1, <<Here, Provs(<<Vpkg("f")>>), Tag("keep", "feature")>>),
             Package("a", 2, <<Provs(<<Vpkg("f")>>)>>),
             Package("b", 1, <<Confs(<<Vers("a", "<", 2)>>)>>),
             Problem(<<Tag("install", <<Vpkg("f")>>)>>)>>}

\* properties: sizes to count and recommendations to satisfy.  The reduction
\* removes packages that a count of negative sizes asks for, so that a
\* document with one is solved as it is.
Suggest(f) == Prop("recommends", "vpkgformula", f)
Props(size) ==
  <<Preamble(<<Property("size", "int", Default(1)), Property("recommends", "vpkgformula", Default(<< >>)),
               Property("urgency", "enum", Default("low")), Property("cost", "nat", NoDefault)>>),
    Package("a", 1, <<Here, Prop("size", "integer", 3), Prop("cost", "integer", 0),
                      Suggest(<< <<Vpkg("b"), Vpkg("c")>>, <<Vpkg("g")>> >>)>>),
    Package("b", 1, <<Prop("cost", "integer", 2), Provs(<<Vpkg("g")>>), Prop("urgency", "enum", "high")>>),
    Package("c", 1, <<Prop("size", "integer", size), Prop("cost", "integer", 1),
                      Suggest(<< <<Vers("b", ">", 0)>> >>)>>),
    Package("d", 1, <<Prop("cost", "integer", 1), Provs(<<Vpkg("g")>>), Confs(<<Vpkg("b")>>)>>),
    Problem(<<Tag("install", <<Vpkg("a")>>)>>)>>

PropOptions ==
  {Lex(<<Nunsat("recommends", f), c>>) : f \in BOOLEAN, c \in {Count("size", FALSE), Count("cost", TRUE)}}
    \cup {Lex(<<Count("size", n), C("new"), Nunsat("none", TRUE)>>) : n \in BOOLEAN}
    \cup {Lex(<<Plus(Count("size", FALSE)), Count("urgency", FALSE), Nunsat("recommends", TRUE)>>),
          Options("agregate", <<Weigh(2, Nunsat("recommends", TRUE)), Count("cost", FALSE)>>, "lpsolve"),
          Options("leximax", <<Nunsat("recommends", FALSE), Count("cost", FALSE)>>, "glpk")}

\* documents that are not well formed
Refused ==
  {<<Package("a", 1, <<Here>>), Package("a", 1, << >>), Problem(<< >>)>>,
   <<Package("a", 1, <<Deps(<< <<Vpkg("a")>> >>), Deps(<< <<Vpkg("b")>> >>)>>), Problem(<< >>)>>,
   <<Package("a", 1, <<Prop("size", "integer", 1)>>), Problem(<< >>)>>,
   <<Preamble(<<Property("size", "posint", NoDefault)>>), Package("a", 1, << >>), Problem(<< >>)>>,
   <<Preamble(<<Property("size", "posint", Default(0))>>), Package("a", 1, << >>), Problem(<< >>)>>,
   <<Preamble(<<Property("size", "posint", NoDefault)>>),
     Package("a", 1, <<Prop("size", "integer", 0)>>), Problem(<< >>)>>,
   <<Package("a", 1, <<Tag("keep", "version"), Tag("keep", "package")>>), Problem(<< >>)>>,
   <<Package("a", 1, << >>), Problem(<<Tag("install", <<Vpkg("a")>>), Tag("install", <<Vpkg("b")>>)>>)>>}

\* true! as a dependency, false! in a recommendation
Crashing ==
  {<<Package("a", 1, <<Here, Deps(<< <<VTrue>> >>)>>), Problem(<<Tag("install", <<Vpkg("a")>>)>>)>>,
   <<Preamble(<<Property("recommends", "vpkgformula", Default(<< >>))>>),
     Package("a", 1, <<Here, Suggest(<< <<VFalse>> >>)>>), Problem(<<Tag("install", <<Vpkg("a")>>)>>)>>,
   <<Preamble(<<Property("recommends", "vpkgformula", Default(<< >>))>>),
     Package("a", 1, <<Here, Suggest(<< <<VTrue>>, <<Vpkg("b")>> >>)>>), Package("b", 1, << >>),
     Problem(<<Tag("install", <<Vpkg("a")>>)>>)>>}

\* nothing is installed: nothing can be removed
Empty0 == <<Package("a", 1, <<Deps(<< <<Vpkg("b")>> >>)>>), Package("b", 1, << >>), Package("c", 1, <<Confs(<<Vpkg("a")>>)>>),
            Problem(<<Tag("install", <<Vpkg("a")>>)>>)>>
Nothing0 == <<Package("a", 1, << >>), Problem(<< >>)>>
Small == <<Package("a", 1, <<Here>>), Package("a", 2, <<Confs(<<Vpkg("b")>>)>>), Package("b", 1, <<Here>>),
           Problem(<<Tag("install", <<Vers("a", ">", 1)>>)>>)>>

(* Many documents of one form: a dependency and a conflict of a, what b      *)
(* provides, which packages are installed, and a request.                    *)
Sweep ==
  {<<Package("a", 1, <<Deps(d), Confs(c), Tag("installed", ia)>>),
     Package("b", 1, <<Provs(p), Tag("installed", ib)>>),
     Package("b", 2, <<Confs(<<Vers("a", "=", 2)>>), Tag("installed", ~ia)>>),
     Package("c", 2, <<Provs(<<Vers("a", "=", 2)>>), Deps(<< <<Vers("f", "<=", 2)>> >>)>>),
     Problem(<<Tag(r, <<q>>)>>)>> :
       d \in {<< <<Vpkg("b")>> >>, << <<Vers("f", ">", 1), Vers("b", "=", 2)>>, <<Vpkg("c"), Vpkg("f")>> >>},
       c \in {<<Vpkg("f")>>, <<Vers("b", "<", 2), Vpkg("c")>>},
       p \in {<<Vpkg("f")>>, <<Vers("f", "=", 2), Vers("c", "=", 3)>>},
       ia \in BOOLEAN, ib \in BOOLEAN,
       r \in {"install", "remove", "upgrade"}, q \in {Vpkg("a"), Vers("f", ">=", 1), Vers("c", "!=", 2)}}

Documents ==
  UNION {On(Cascades \cup FeatureDocs \cup {Twice, Order}, Variants(Simple)),
         On(Sweep, {Lex(<<C("removed"), C("changed")>>), Agg(Cov(Lex(<<C("notuptodate"), C("new")>>)))}),
         On({Cascade(<<Tag("install", <<Vpkg("b")>>)>>), Hopeless1, Hopeless3, Empty0, Small}, Anyhow),
         On({Hopeless2("install"), Hopeless2("upgrade"), Nothing0, Keeping, Missing} \cup Stricts,
            {By(Lex(<<C("removed"), C("changed")>>), b) : b \in {"cplex", "glpk"}}),
         On({Small}, Leximax3 \cup {By(x, "pblib") : x \in Leximax3}),
         On({Cascade(<<Tag("install", <<Vpkg("b")>>)>>), Twice}, Leximax3),
         On({Small}, {By(Lex(<<C("new")>>), b) : b \in BackEnds}),
         On({Small}, {[Options("none", << >>, "scip") EXCEPT !.nosolve = n] : n \in BOOLEAN}),
         On({Props(2)}, PropOptions),
         On({Props(-2)}, {Unreduced(x) : x \in PropOptions}),
         On(Refused \cup Crashing, {Lex(<<C("removed"), Nunsat("recommends", TRUE)>>)})}
=============================================================================
