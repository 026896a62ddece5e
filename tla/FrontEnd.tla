------------------------------ MODULE FrontEnd ------------------------------
(***************************************************************************)
(* From the input file to the clauses and objectives of the Solver: the    *)
(* parsers (src/src/cmd_line/ParserPB.cpp and Mcnf.cpp), the formula they  *)
(* fill (FormulaPB.h, MaxSATFormula.cpp) and the first part of main        *)
(* (main.cpp:66-184), which gives the hard clauses, the pseudo-Boolean     *)
(* and the cardinality constraints and then the objectives to the solver.  *)
(* One Encoder with one object per encoding serves all the constraints.    *)
(*                                                                         *)
(* A line of a PBMO file is a constraint or an objective,                  *)
(*   [op |-> ">=" | "<=" | "=", terms |-> <<[c, l], ...>>, rhs |-> r]      *)
(*   [op |-> "min" | "max",     terms |-> <<[c, l], ...>>]                 *)
(* where c is an integer and l a name, or its negative for ~name.  A line  *)
(* of an MCNF file is                                                      *)
(*   [op |-> "h", lits |-> clause],  [op |-> "o", idx, weight, lits].      *)
(* Only files that the parsers accept are considered.                      *)
(***************************************************************************)
EXTENDS Cnf, SequencesExt

CONSTANTS
  Inputs,     \* [format : {"opb", "mcnf"}, file : sequence of lines,
              \*  pb, card : the encodings chosen, prepro : BOOLEAN,
              \*  mode : the algorithm, disjoint : m_disjoint_cores]
  ZeroBits,   \* what ld64(0) may return
  \* Encoder::encodePB, encodeCardinality and encodeAMO
  EncodePB(_, _, _, _, _, _), EncodeCardinality(_, _, _, _), EncodeAMO(_, _)

\* the lines the parsers accept; names and variables are positive numbers
Literals == Int \ {0}
TypedLine(format, line) ==
  IF format = "opb"
  THEN /\ line.op \in {">=", "<=", "=", "min", "max"}
       /\ line.terms \in Seq([c : Int, l : Literals])
       /\ line.op \in {">=", "<=", "="} => line.rhs \in Int
  ELSE /\ line.op \in {"h", "o"}
       /\ line.lits \in Seq(Literals)
       /\ line.op = "o" => line.idx \in Nat \ {0} /\ line.weight \in Nat

ASSUME InputsAssumption ==
  \A in \in Inputs :
    /\ in.format \in {"opb", "mcnf"}
    /\ in.file \in Seq(Range(in.file))
    /\ \A i \in DOMAIN in.file : TypedLine(in.format, in.file[i])

VARIABLES
  input,      \* the file and the options
  pc,         \* "parse", "hard", "pb", "card", "soft", "done"
  pos,        \* the position in the file or in the loop of main
  names,      \* MaxSATFormula::_nameToIndex: names[i] has the index i
  formula,    \* [hards, pbs, cards, objs]
  solver,     \* the record of module Cnf
  objectives  \* m_objectives: the objective variables, repeated by weight

vars == <<input, pc, pos, names, formula, solver, objectives>>

-----------------------------------------------------------------------------
(* PB and Card of FormulaPB.h *)

ToInt(x) == ((x + IntMax + 1) % (UIntMax + 1)) - (IntMax + 1)

\* A mutant: a negative coefficient is made positive, but the constant it
\* leaves is not moved to the right-hand side.
AddProductNoShift(l, c) ==
  [coeff |-> IF c < 0 THEN -c ELSE c, lit |-> IF c < 0 THEN -l ELSE l, shift |-> 0]

\* the term that is added for c * l, and what it adds to _rhs
AddProduct(l, c) ==
  IF c >= 0 THEN [coeff |-> c, lit |-> l, shift |-> 0] ELSE [coeff |-> -c, lit |-> -l, shift |-> -c]

\* the sum of the coefficients is kept in an int
ChangeSign(p) ==
  [p EXCEPT !.lits = [i \in DOMAIN p.lits |-> -p.lits[i]],
            !.rhs = ToInt(Total(p.coeffs)) - p.rhs,
            !.sign = ~p.sign]

AtLeast(p) == IF p.sign THEN ChangeSign(p) ELSE p
AtMost(p)  == IF p.sign THEN p ELSE ChangeSign(p)

IsCardinality(p) == \A i \in DOMAIN p.coeffs : p.coeffs[i] = 1
IsClause(p) == AtLeast(p).rhs = 1 /\ IsCardinality(p)

\* addPBConstraint: isCardinality leaves the constraint with the sign "at least"
AddPBConstraint(f, p) ==
  IF IsClause(p) THEN [f EXCEPT !.hards = Append(@, AtLeast(p).lits)]
  ELSE IF IsCardinality(p)
       THEN LET q == ChangeSign(AtLeast(p))
            IN  [f EXCEPT !.cards = Append(@, [lits |-> q.lits, rhs |-> q.rhs])]
       ELSE [f EXCEPT !.pbs = Append(@, AtMost(p))]

-----------------------------------------------------------------------------
(* ParserPB *)

\* getVariableID for the names of a line, in the order they occur
Index(ns, v) == CHOOSE i \in DOMAIN ns : ns[i] = v
GetVariableID(ns, v) == IF v \in Range(ns) THEN ns ELSE Append(ns, v)
Known(ns, terms) ==
  LET known[i \in 0 .. Len(terms)] ==
        IF i = 0 THEN ns ELSE GetVariableID(known[i - 1], AbsLit(terms[i].l))
  IN  known[Len(terms)]
LitOf(ns, l) == IF l > 0 THEN Index(ns, l) ELSE -Index(ns, -l)

\* the products of a line, each coefficient times the factor
Products(ns, terms, factor) ==
  [i \in DOMAIN terms |-> AddProduct(LitOf(ns, terms[i].l), factor * terms[i].c)]
Field(ps, f) == [i \in DOMAIN ps |-> ps[i][f]]

\* parseConstraint: "=" gives the constraint in both directions
Parsed(ns, line) ==
  LET ps == Products(ns, line.terms, 1)
  IN  [lits |-> Field(ps, "lit"), coeffs |-> Field(ps, "coeff"),
       rhs |-> line.rhs + Total(Field(ps, "shift")), sign |-> line.op = "<="]

ParseConstraint(f, ns, line) ==
  LET p == Parsed(ns, line)
  IN  CASE line.op = ">=" -> AddPBConstraint(f, p)
        [] line.op = "<=" -> AddPBConstraint(f, ChangeSign(p))
        [] line.op = "="  -> AddPBConstraint(AddPBConstraint(f, p), [p EXCEPT !.sign = TRUE])

\* parseCostFunction and PBObjFunction::addProduct
ParseCostFunction(f, ns, line) ==
  LET ps == Products(ns, line.terms, IF line.op = "min" THEN 1 ELSE -1)
  IN  [f EXCEPT !.objs = Append(@, [coeffs |-> Field(ps, "coeff"), lits |-> Field(ps, "lit"),
                                    const |-> -Total(Field(ps, "shift"))])]

(* Mcnf: the soft clauses of "o<i>" lines go to softs[i - 1]; the vector is  *)
(* resized when needed, so that missing objectives are empty.                *)

McnfLine(f, line) ==
  IF line.op = "h" THEN [f EXCEPT !.hards = Append(@, line.lits)]
  ELSE LET old == f.objs
           new == [i \in 1 .. Max({Len(old), line.idx}) |-> IF i <= Len(old) THEN old[i] ELSE <<>>]
       IN  [f EXCEPT !.objs = [new EXCEPT ![line.idx] = Append(@, [w |-> line.weight, lits |-> line.lits])]]

-----------------------------------------------------------------------------
(* Solver::add_soft_clauses, the version with weights: the variable of a   *)
(* soft clause is true if the clause is false, and occurs weight times.    *)

Repeated(softs, new) ==
  LET copies[i \in 0 .. Len(softs)] ==
        IF i = 0 THEN <<>> ELSE copies[i - 1] \o [j \in 1 .. softs[i].w |-> new[i]]
  IN  copies[Len(softs)]

\* A mutant: the ids of the soft clauses do not raise m_id_count first.
AddSoftNoRaise(S, softs) ==
  LET new == Fresh(S, Len(softs))
  IN  [solver |-> Add(Skip(S, Len(softs)), {ToSet(softs[i].lits) \cup {new[i]} : i \in DOMAIN softs}),
       objective |-> Repeated(softs, new)]

AddSoft(S, softs) ==
  LET ids == {AbsLit(l) : l \in UNION {ToSet(softs[i].lits) : i \in DOMAIN softs}}
      T   == [S EXCEPT !.id = Max({@} \cup ids)]
      new == Fresh(T, Len(softs))
  IN  [solver |-> Add(Skip(T, Len(softs)), {ToSet(softs[i].lits) \cup {new[i]} : i \in DOMAIN softs}),
       objective |-> Repeated(softs, new)]

\* the soft clauses of an objective of a PBMO file; main never reads _const
SoftsOf(o) == [i \in DOMAIN o.lits |-> [w |-> o.coeffs[i], lits |-> <<-o.lits[i]>>]]

-----------------------------------------------------------------------------
(* The steps of the program *)

Init ==
  /\ input \in Inputs
  /\ pc = "parse" /\ pos = 1
  /\ names = <<>>
  /\ formula = [hards |-> <<>>, pbs |-> <<>>, cards |-> <<>>, objs |-> <<>>]
  /\ solver = NoSolver
  /\ objectives = <<>>

\* the loop of a phase goes on, or the next phase begins
Advance(next, last) ==
  IF pos < last THEN pc' = pc /\ pos' = pos + 1 ELSE pc' = next /\ pos' = 1

ParseLine ==
  /\ pc = "parse" /\ input.format = "opb" /\ pos <= Len(input.file)
  /\ LET line == input.file[pos]
     IN  /\ names' = Known(names, line.terms)
         /\ formula' = IF line.op \in {"min", "max"} THEN ParseCostFunction(formula, names', line)
                       ELSE ParseConstraint(formula, names', line)
  /\ Advance("hard", Len(input.file))
  /\ UNCHANGED <<input, solver, objectives>>

ReadMcnfLine ==
  /\ pc = "parse" /\ input.format = "mcnf" /\ pos <= Len(input.file)
  /\ formula' = McnfLine(formula, input.file[pos])
  /\ Advance("hard", Len(input.file))
  /\ UNCHANGED <<input, names, solver, objectives>>

AddHards ==
  /\ pc = "hard" /\ solver.end = ""
  /\ solver' = Add(solver, {ToSet(formula.hards[i]) : i \in DOMAIN formula.hards})
  /\ pc' = (IF input.format = "opb" THEN "pb" ELSE "soft") /\ pos' = 1
  /\ UNCHANGED <<input, names, formula, objectives>>

\* changeSign is applied to a constraint that is not yet "at most"
EncodePBs ==
  /\ pc = "pb" /\ solver.end = ""
  /\ IF formula.pbs = <<>> THEN pc' = "card" /\ UNCHANGED <<pos, solver>>
     ELSE LET p == AtMost(formula.pbs[pos])
          IN  /\ \E z \in ZeroBits : solver' = EncodePB(solver, input.pb, p.lits, p.coeffs, p.rhs, z)
              /\ Advance("card", Len(formula.pbs))
  /\ UNCHANGED <<input, names, formula, objectives>>

EncodeCards ==
  /\ pc = "card" /\ solver.end = ""
  /\ IF formula.cards = <<>> THEN pc' = "soft" /\ UNCHANGED <<pos, solver>>
     ELSE LET c == formula.cards[pos]
          IN  /\ solver' = IF c.rhs = 1 THEN EncodeAMO(solver, c.lits)
                           ELSE EncodeCardinality(solver, input.card, c.lits, c.rhs)
              /\ Advance("soft", Len(formula.cards))
  /\ UNCHANGED <<input, names, formula, objectives>>

\* With maxpre, here with no techniques, every soft clause comes back with a
\* vector of weights, and those of weight 0 are left out.
Softs(i) ==
  IF input.format = "opb" THEN SoftsOf(formula.objs[i])
  ELSE IF input.prepro
       THEN Taken(formula.objs[i], {j \in DOMAIN formula.objs[i] : formula.objs[i][j].w # 0})
       ELSE formula.objs[i]

\* a single objective of an MCNF file is followed by an empty one
AddObjectives ==
  /\ pc = "soft" /\ solver.end = ""
  /\ IF formula.objs = <<>> THEN pc' = "done" /\ UNCHANGED <<pos, solver, objectives>>
     ELSE LET add == AddSoft(solver, Softs(pos))
          IN  /\ solver' = add.solver
              /\ objectives' = objectives \o <<add.objective>> \o
                   (IF input.format = "mcnf" /\ Len(formula.objs) = 1 THEN <<<<>>>> ELSE <<>>)
              /\ Advance("done", Len(formula.objs))
  /\ UNCHANGED <<input, names, formula>>

Next == ParseLine \/ ReadMcnfLine \/ AddHards \/ EncodePBs \/ EncodeCards \/ AddObjectives

Spec == Init /\ [][Next]_vars

-----------------------------------------------------------------------------
(***************************************************************************)
(* What the file says.  An assignment is the set of the true variables of  *)
(* the solver; OPB names are replaced by their indices.                    *)
(***************************************************************************)
FileLit(l) == IF input.format = "opb" THEN LitOf(names, l) ELSE l
Lines(ops) == {i \in DOMAIN input.file : input.file[i].op \in ops}
LinesVars ==
  IF input.format = "opb" THEN DOMAIN names
  ELSE {AbsLit(l) : l \in UNION {ToSet(input.file[i].lits) : i \in DOMAIN input.file}}

Weight(terms, A) ==
  Total([i \in DOMAIN terms |-> IF Holds(A, FileLit(terms[i].l)) THEN terms[i].c ELSE 0])
SomeTrue(lits, A) == \E l \in ToSet(lits) : Holds(A, l)

LineHolds(line, A) ==
  CASE line.op = ">=" -> Weight(line.terms, A) >= line.rhs
    [] line.op = "<=" -> Weight(line.terms, A) <= line.rhs
    [] line.op = "="  -> Weight(line.terms, A) = line.rhs
    [] line.op = "h"  -> SomeTrue(line.lits, A)
    [] OTHER          -> TRUE

Solutions == {A \in SUBSET LinesVars : \A i \in DOMAIN input.file : LineHolds(input.file[i], A)}

AtMostHolds(lits, coeffs, rhs, A) ==
  Total([i \in DOMAIN lits |-> IF Holds(A, lits[i]) THEN coeffs[i] ELSE 0]) <= rhs

\* A satisfies the clauses and the constraints of the formula f
Meets(f, A) ==
  /\ \A i \in DOMAIN f.hards : SomeTrue(f.hards[i], A)
  /\ \A i \in DOMAIN f.pbs : AtMostHolds(f.pbs[i].lits, f.pbs[i].coeffs, f.pbs[i].rhs, A)
  /\ \A i \in DOMAIN f.cards :
       AtMostHolds(f.cards[i].lits, [j \in DOMAIN f.cards[i].lits |-> 1], f.cards[i].rhs, A)

\* the numbers of the file fit the encoders
NumbersFit ==
  \A i \in Lines({">=", "<=", "="}) :
    LET terms == input.file[i].terms
    IN  Total([j \in DOMAIN terms |-> AbsLit(terms[j].c)]) + AbsLit(input.file[i].rhs) < IntMax

(***************************************************************************)
(* The clauses, cardinality and pseudo-Boolean constraints of the parsed   *)
(* formula say what the lines say: negative coefficients, changes of sign  *)
(* and the two directions of an equality (ParserPB.cpp:284-345,            *)
(* MaxSATFormula.cpp:150-168) change nothing.                              *)
(***************************************************************************)
ParsedExactly ==
  (pc = "hard") => \A A \in SUBSET LinesVars : (A \in Solutions) <=> Meets(formula, A)
=============================================================================
