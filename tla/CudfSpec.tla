------------------------------- MODULE CudfSpec -------------------------------
(***************************************************************************)
(* What a CUDF document means: its packages, which sets of packages are    *)
(* valid installations, and what the criteria of mccs measure.  Nothing    *)
(* here is translated from the code: it is the specification that the      *)
(* parser, the constraints and the criteria of mccs are compared with.     *)
(*                                                                         *)
(* A document is read here without any table: P is the sequence of its     *)
(* package stanzas, each a record as NewPackage builds it, and an          *)
(* installation I is a set of positions of P.                              *)
(***************************************************************************)
EXTENDS Cudf

\* the value of the last, of the first field with a tag, or a default
Fields(s, tag) == {k \in DOMAIN s.fields : s.fields[k].tag = tag}
LastOf(s, tag, d) == IF Fields(s, tag) = {} THEN d ELSE s.fields[Max(Fields(s, tag))].val

\* the stanzas of a kind, in the order of the document
Stanzas(doc, kind) ==
  LET of[k \in 0 .. Len(doc)] ==
        IF k = 0 THEN << >> ELSE IF doc[k].kind = kind THEN Append(of[k-1], doc[k]) ELSE of[k-1]
  IN  of[Len(doc)]

Declarations(doc) == FlattenSeq([k \in DOMAIN Stanzas(doc, "preamble") |-> Stanzas(doc, "preamble")[k].decls])

\* the properties of a stanza, in its order
Properties(s) ==
  LET of[k \in 0 .. Len(s.fields)] ==
        IF k = 0 THEN << >>
        ELSE IF s.fields[k].tag # "property" THEN of[k-1]
        ELSE Append(of[k-1], [prop |-> s.fields[k].prop, val |-> s.fields[k].val])
  IN  of[Len(s.fields)]

DocPackage(s) ==
  [name |-> s.name,
   version |-> LastOf(s, "version", 0),
   installed |-> LastOf(s, "installed", FALSE),
   wasinstalled |-> LastOf(s, "wasinstalled", FALSE),
   keep |-> LastOf(s, "keep", "none"),
   depends |-> LastOf(s, "depends", << >>),
   conflicts |-> LastOf(s, "conflicts", << >>),
   provides |-> LastOf(s, "provides", << >>),
   props |-> Properties(s)]

DocPackages(doc) ==
  LET q == Stanzas(doc, "package") IN [k \in DOMAIN q |-> DocPackage(q[k])]

DocRequest(doc) ==
  LET q == Stanzas(doc, "problem")
      Get(tag) == IF q = << >> THEN << >> ELSE LastOf(q[1], tag, << >>)
  IN  [install |-> Get("install"), remove |-> Get("remove"), upgrade |-> Get("upgrade")]

-----------------------------------------------------------------------------
(* Well-formed documents *)

WellTyped(decls, f) ==
  \E j \in DOMAIN decls : LET d == decls[j] IN
    /\ d.prop = f.prop
    /\ f.kind = (IF d.type \in IntTypes THEN "integer" ELSE d.type)
    /\ d.type = "nat" => f.val >= 0
    /\ d.type = "posint" => f.val > 0
    /\ d.type = "enum" => f.val \in d.enum

WellFormedPackage(decls, s) ==
  /\ \A tag \in {"depends", "conflicts", "provides", "keep"} : Cardinality(Fields(s, tag)) <= 1
  /\ LastOf(s, "version", 0) >= 0
  /\ \A k \in Fields(s, "property") : WellTyped(decls, s.fields[k])
  /\ \A j \in DOMAIN decls :
       ~decls[j].default.set => \E k \in Fields(s, "property") : s.fields[k].prop = decls[j].prop

WellFormed(doc) ==
  LET decls == Declarations(doc)
      P == DocPackages(doc)
  IN  /\ \A j \in DOMAIN decls : LET d == decls[j] IN
           d.default.set => /\ d.type = "nat" => d.default.val >= 0
                            /\ d.type = "posint" => d.default.val > 0
                            /\ d.type = "enum" => d.default.val \in d.enum
      /\ \A k \in DOMAIN doc : doc[k].kind = "package" => WellFormedPackage(decls, doc[k])
      /\ \A i, j \in DOMAIN P : <<P[i].name, P[i].version>> = <<P[j].name, P[j].version>> => i = j
      /\ \A s \in Range(Stanzas(doc, "problem")) :
           \A tag \in {"install", "remove", "upgrade"} : Cardinality(Fields(s, tag)) <= 1

-----------------------------------------------------------------------------
(* Valid installations *)

Own(p) == <<p.name, p.version>>
Features0(p) == {<<vp.name, IF vp.op = "none" THEN NoVersion ELSE vp.version>> : vp \in Range(p.provides)}
Offers(p) == {Own(p)} \cup Features0(p)

Answers(f, vp) == f[1] = vp.name /\ (f[2] = NoVersion \/ Comp(vp.op, f[2], vp.version))

Sat(P, I, vp) ==
  /\ vp.name # "false!"
  /\ vp.name = "true!" \/ \E i \in I : \E f \in Offers(P[i]) : Answers(f, vp)

Initial(P) == {i \in DOMAIN P : P[i].installed}

InstalledVersions(P, I, n) == {f[2] : f \in {g \in UNION {Offers(P[i]) : i \in I} : g[1] = n}}

GoodPackage(P, I, i) ==
  /\ \A k \in DOMAIN P[i].depends : \E vp \in Range(P[i].depends[k]) : Sat(P, I, vp)
  /\ \A vp \in Range(P[i].conflicts) : ~Sat(P, I \ {i}, vp)

KeptPackage(P, I, i) ==
  /\ P[i].keep = "version" => i \in I
  /\ P[i].keep = "package" => \E j \in I : P[j].name = P[i].name
  /\ P[i].keep = "feature" => \A vp \in Range(P[i].provides) : Sat(P, I, vp)

\* one version only, not below what is installed
Upgraded(P, I, vp) ==
  LET vs == InstalledVersions(P, I, vp.name)
  IN  /\ Sat(P, I, vp)
      /\ \E v \in vs : vs = {v} /\ v # NoVersion /\ \A w \in InstalledVersions(P, Initial(P), vp.name) : v >= w

Valid(P, request, I) ==
  /\ \A i \in I : GoodPackage(P, I, i)
  /\ \A i \in Initial(P) : KeptPackage(P, I, i)
  /\ \A vp \in Range(request.install) : Sat(P, I, vp)
  /\ \A vp \in Range(request.remove) : ~Sat(P, I, vp)
  /\ \A vp \in Range(request.upgrade) : Upgraded(P, I, vp)

ValidInstallations(P, request) == {I \in SUBSET DOMAIN P : Valid(P, request, I)}

-----------------------------------------------------------------------------
(* Criteria *)

Names(P) == {P[i].name : i \in DOMAIN P}
VersionsIn(P, I, n) == {i \in I : P[i].name = n}
Newest(P, n) == CHOOSE i \in DOMAIN P : P[i].name = n /\ \A j \in DOMAIN P : P[j].name = n => P[j].version <= P[i].version

Given(p, prop) == {k \in DOMAIN p.props : p.props[k].prop = prop}

IntValue(P, decls, i, prop) ==
  IF Given(P[i], prop) # {} THEN P[i].props[Min(Given(P[i], prop))].val
  ELSE decls[CHOOSE k \in DOMAIN decls : decls[k].prop = prop].default.val

Conjuncts(P, i, prop) ==
  IF Given(P[i], prop) # {} THEN P[i].props[Min(Given(P[i], prop))].val ELSE << >>

\* for nunsat: do features count, or the names of packages only?
SatBy(P, I, vp, features) ==
  IF features THEN Sat(P, I, vp)
  ELSE \/ vp.name = "true!"
       \/ vp.name # "false!" /\ \E i \in I : Answers(Own(P[i]), vp)

SumOver(S, f(_)) == FoldSet(LAMBDA x, acc : f(x) + acc, 0, S)

\* a criterion on a property that is not declared, or of another type, is 0
Measurable(decls, c) ==
  \E j \in DOMAIN decls : decls[j].prop = c.prop /\ decls[j].type \in (IF c.crit = "count" THEN IntTypes ELSE {"vpkgformula"})

Measure(P, decls, c, I) ==
  LET Was(n) == VersionsIn(P, Initial(P), n)
      Is(n)  == VersionsIn(P, I, n)
      Count(T(_)) == Cardinality({n \in Names(P) : T(n)})
  IN  CASE c.crit = "removed" -> Count(LAMBDA n : Was(n) # {} /\ Is(n) = {})
        [] c.crit = "new"     -> Count(LAMBDA n : Was(n) = {} /\ Is(n) # {})
        [] c.crit = "changed" -> Count(LAMBDA n : Was(n) # Is(n))
        [] c.crit = "notuptodate" -> Count(LAMBDA n : Is(n) # {} /\ Newest(P, n) \notin I)
        [] c.crit \in {"count", "nunsat"} /\ ~Measurable(decls, c) -> 0
        [] c.crit = "count"   ->
             SumOver(IF c.opt THEN I \ Initial(P) ELSE I, LAMBDA i : IntValue(P, decls, i, c.prop))
        [] c.crit = "nunsat"  ->
             SumOver(I, LAMBDA i :
               Cardinality({k \in DOMAIN Conjuncts(P, i, c.prop) :
                 ~\E vp \in Range(Conjuncts(P, i, c.prop)[k]) : SatBy(P, I, vp, c.opt)}))
=============================================================================
