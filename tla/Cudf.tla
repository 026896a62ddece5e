-------------------------------- MODULE Cudf --------------------------------
(***************************************************************************)
(* CUDF documents and the universe that the parser of mccs builds from one *)
(* (src/mccs-1.1/libsrcs/cudf.y, cudf_tools.c, cudf_hash_table.c, cudf.h). *)
(*                                                                         *)
(* A document is a sequence of stanzas                                     *)
(*   [kind |-> "preamble", decls  |-> <<[prop, type, default, enum], ...>>]*)
(*   [kind |-> "package",  name |-> n, fields |-> <<[tag, val], ...>>]     *)
(*   [kind |-> "problem",  fields |-> <<[tag, val], ...>>]                 *)
(* in the order the grammar wants.  A vpkg is [name, op, version]; a       *)
(* formula (conjunction of disjunctions) is a sequence of sequences of     *)
(* vpkgs, and << >> stands for the null pointer of an absent list.         *)
(***************************************************************************)
EXTENDS Integers, FiniteSets, SequencesExt

NoDefault == [set |-> FALSE]
Default(x) == [set |-> TRUE, val |-> x]
NoVersion == -1          \* the version of a feature provided without a version

VTrue  == [name |-> "true!", op |-> "none", version |-> 0]
VFalse == [name |-> "false!", op |-> "none", version |-> 0]

\* get_comparator and the op_..._comp functions
Comp(op, v, w) ==
  \/ op = "none"
  \/ op = "="  /\ v = w
  \/ op = "!=" /\ v # w
  \/ op = ">"  /\ v > w
  \/ op = ">=" /\ v >= w
  \/ op = "<"  /\ v < w
  \/ op = "<=" /\ v <= w

NewPackage(n) ==
  [name |-> n, version |-> 0, installed |-> FALSE, wasinstalled |-> FALSE, keep |-> "none",
   depends |-> << >>, conflicts |-> << >>, provides |-> << >>, props |-> << >>]

(***************************************************************************)
(* The globals of the parser.  pkgs: all_packages, a package is its        *)
(* position in it; listed: those that package_postprocess has put in       *)
(* all_versions; provs: <<feature, version or NoVersion, package>>; featured:    *)
(* <<feature, version>>, the versions that highest_installed_provider_     *)
(* version is the greatest of; error: exit(-1) was called.                 *)
(***************************************************************************)
EmptyUniverse ==
  [decls |-> << >>, pkgs |-> << >>, listed |-> {}, provs |-> {}, featured |-> {},
   request |-> [install |-> << >>, remove |-> << >>, upgrade |-> << >>],
   error |-> FALSE]

Refuse(u) == [u EXCEPT !.error = TRUE]

-----------------------------------------------------------------------------
(* The tables of the virtual packages *)

AllVersions(u, n) == {i \in u.listed : u.pkgs[i].name = n}
VersionsOf(u, ids) == {u.pkgs[i].version : i \in ids}
InstalledOf(u, n) == {i \in AllVersions(u, n) : u.pkgs[i].installed}
Providers(u, n) == {p[3] : p \in {q \in u.provs : q[1] = n /\ q[2] = NoVersion}}
VersionedProviders(u, n) == {<<p[2], p[3]>> : p \in {q \in u.provs : q[1] = n /\ q[2] # NoVersion}}
HighestVersion(u, n) == Max({0} \cup VersionsOf(u, AllVersions(u, n)))
HighestProvided(u, n) == Max({0} \cup {f[2] : f \in {g \in u.featured : g[1] = n}})

\* highest_installed and highest_installed_provider_version together
HighestInstalled(u, n) ==
  Max({HighestProvided(u, n)} \cup VersionsOf(u, InstalledOf(u, n)))

(***************************************************************************)
(* The packages that a vpkg asks for, as every loop of mccs collects them: *)
(* the versions of the package that match, the providers without a         *)
(* version, and the providers of a version that matches.                   *)
(***************************************************************************)
OwnMatch(u, vp) == {i \in AllVersions(u, vp.name) : Comp(vp.op, u.pkgs[i].version, vp.version)}
ProvMatch(u, vp) ==
  Providers(u, vp.name)
    \cup {w[2] : w \in {x \in VersionedProviders(u, vp.name) : Comp(vp.op, x[1], vp.version)}}
Match(u, vp) == OwnMatch(u, vp) \cup ProvMatch(u, vp)

-----------------------------------------------------------------------------
(* Property declarations *)

IntTypes  == {"int", "nat", "posint"}
ListTypes == {"vpkglist", "veqpkglist"}

GoodInt(type, x) == /\ type = "nat" => x >= 0
                    /\ type = "posint" => x > 0

\* the constructors of CUDFProperty check the default value
GoodDefault(d) ==
  \/ ~d.default.set /\ d.type \in {"bool", "string", "enum", "vpkgformula"} \cup IntTypes \cup ListTypes
  \/ d.default.set /\ (\/ d.type \in IntTypes /\ GoodInt(d.type, d.default.val)
                       \/ d.type = "enum" /\ d.default.val \in d.enum
                       \/ d.type \in {"bool", "string", "vpkgformula"} \cup ListTypes)

Declare(u, d) ==
  IF GoodDefault(d) THEN [u EXCEPT !.decls = Append(@, d)] ELSE Refuse(u)

\* properties is a map: a second declaration of a name replaces the first
Declared(u, p) == \E k \in DOMAIN u.decls : u.decls[k].prop = p
Latest(u, p) == Max({k \in DOMAIN u.decls : u.decls[k].prop = p})
Decl(u, p) == u.decls[Latest(u, p)]

\* required_properties keeps the declarations that were replaced
Required(u) == {k \in DOMAIN u.decls : ~u.decls[k].default.set}

-----------------------------------------------------------------------------
(* Packages *)

Current(u) == Len(u.pkgs)

\* A mutant: the highest installed version of a feature is that of the last
\* package that provides it.
FeaturesLast(u, i) ==
  LET p == u.pkgs[i]
      new == {<<p.provides[k].name, p.provides[k].version>> :
                k \in {j \in DOMAIN p.provides : p.provides[j].op = "="}}
  IN  IF p.installed THEN {f \in u.featured : \A g \in new : g[1] # f[1]} \cup new ELSE u.featured

Features(u, i) ==
  LET p == u.pkgs[i]
  IN  IF p.installed
      THEN u.featured \cup {<<p.provides[k].name, p.provides[k].version>> :
                              k \in {j \in DOMAIN p.provides : p.provides[j].op = "="}}
      ELSE u.featured

HasProperty(p, name) == \E k \in DOMAIN p.props : p.props[k].prop = name
PropertyOf(p, name) == p.props[Min({k \in DOMAIN p.props : p.props[k].prop = name})].val

\* The value must be one of the very declaration that is required.
Lacks(u, p, k) == LET name == u.decls[k].prop IN k # Latest(u, name) \/ ~HasProperty(p, name)

\* package_postprocess: the package that was being read is complete
Postprocess(u) ==
  LET i == Current(u)
      p == u.pkgs[i]
  IN  IF i = 0 THEN u
      ELSE IF \/ p.version \in VersionsOf(u, AllVersions(u, p.name))
              \/ \E k \in Required(u) : Lacks(u, p, k)
           THEN Refuse(u)
           ELSE [u EXCEPT !.listed = @ \cup {i}, !.featured = Features(u, i)]

Edit(u, tag, x) == [u EXCEPT !.pkgs[Current(u)][tag] = x]

\* depends, conflicts and provides may not be given twice
SetOnce(u, tag, x) ==
  IF u.pkgs[Current(u)][tag] = << >> THEN Edit(u, tag, x) ELSE Refuse(u)

\* build_veqpkglist registers the current package as a provider
Provide(u, list) ==
  [u EXCEPT !.provs = @ \cup {<<vp.name, IF vp.op = "none" THEN NoVersion ELSE vp.version, Current(u)>> :
                                vp \in Range(list)},
            !.featured = IF u.pkgs[Current(u)].installed
                         THEN @ \cup {<<vp.name, vp.version>> : vp \in {w \in Range(list) : w.op = "="}}
                         ELSE @]

\* the lexer knows the type of a property, and a value of another kind is an
\* error of syntax
KindOf(type) == IF type \in IntTypes THEN "integer" ELSE type

\* get_enum
InEnum(d, x) == d.type = "enum" => x \in d.enum

GoodValue(d, f) ==
  /\ f.kind = KindOf(d.type)
  /\ d.type \in IntTypes => GoodInt(d.type, f.val)
  /\ InEnum(d, f.val)

\* a list of features is read like the field provides
ReadValue(u, f) == IF Decl(u, f.prop).type = "veqpkglist" THEN Provide(u, f.val) ELSE u

AddValue(u, f) == [u EXCEPT !.pkgs[Current(u)].props = Append(@, [prop |-> f.prop, val |-> f.val])]

SetProperty(u, f) ==
  IF Declared(u, f.prop) /\ GoodValue(Decl(u, f.prop), f) THEN AddValue(ReadValue(u, f), f) ELSE Refuse(u)

\* "keep: feature" sets keep_version
SetKeep(u, x) ==
  IF x = "none" THEN Edit(u, "keep", x)
  ELSE IF u.pkgs[Current(u)].keep # "none" THEN Refuse(u)
       ELSE Edit(u, "keep", IF x = "feature" THEN "version" ELSE x)

Field(u, f) ==
  CASE u.error -> u
    [] f.tag = "version" -> IF f.val >= 0 THEN Edit(u, "version", f.val) ELSE Refuse(u)
    [] f.tag \in {"depends", "conflicts"} -> SetOnce(u, f.tag, f.val)
    [] f.tag = "provides" -> SetOnce(Provide(u, f.val), f.tag, f.val)
    [] f.tag \in {"installed", "wasinstalled"} -> Edit(u, f.tag, f.val)
    [] f.tag = "keep" -> SetKeep(u, f.val)
    [] f.tag = "property" -> SetProperty(u, f)

\* Reading the name of a package completes the package before it.
PackageStanza(u, s) ==
  LET v == Postprocess(u)
  IN  IF v.error THEN v
      ELSE FoldLeft(Field, [v EXCEPT !.pkgs = Append(@, NewPackage(s.name))], s.fields)

-----------------------------------------------------------------------------
(* The preamble and the request *)

PreambleStanza(u, s) ==
  FoldLeft(LAMBDA v, d : IF v.error THEN v ELSE Declare(v, d), u, s.decls)

RequestField(u, f) ==
  IF u.error \/ u.request[f.tag] # << >> THEN Refuse(u)
  ELSE [u EXCEPT !.request[f.tag] = f.val]

ProblemStanza(u, s) == FoldLeft(RequestField, Postprocess(u), s.fields)

ReadStanza(u, s) ==
  CASE s.kind = "preamble" -> PreambleStanza(u, s)
    [] s.kind = "package"  -> PackageStanza(u, s)
    [] s.kind = "problem"  -> ProblemStanza(u, s)
=============================================================================
