---------------------------- MODULE MCFrontEnd ----------------------------
(***************************************************************************)
(* Small files.  Those of the passing run start with a clause that has all *)
(* the variables, so that fresh() never returns an id the file uses later. *)
(***************************************************************************)
EXTENDS FrontEndSpec

T(c, l) == [c |-> c, l |-> l]
Line(op, terms, rhs) == [op |-> op, terms |-> terms, rhs |-> rhs]
Goal(op, terms) == [op |-> op, terms |-> terms]
All(n) == Line(">=", [i \in 1 .. n |-> T(1, i)], 1)

Opb(file, pb, card) ==
  [format |-> "opb", file |-> file, pb |-> pb, card |-> card, prepro |-> FALSE,
   mode |-> "none", disjoint |-> FALSE]

\* the sums of the constraints
Cards == {<<T(1, 1), T(1, 2), T(1, 3)>>, <<T(1, 1), T(-1, 2), T(1, -3), T(1, 4)>>}
Long  == [i \in 1 .. 6 |-> T(1, i)]
Sums  == {<<T(2, 1), T(1, 2), T(2, 3)>>, <<T(3, 3), T(-2, 1), T(0, 2)>>,
          <<T(1, 1), T(-2, -2), T(3, 4), T(1, 3)>>}

\* least and largest value of a sum
Least(terms) == FoldSeq(LAMBDA t, acc : acc + (IF t.c < 0 THEN t.c ELSE 0), 0, terms)
Most(terms)  == FoldSeq(LAMBDA t, acc : acc + (IF t.c > 0 THEN t.c ELSE 0), 0, terms)
Range3(terms) == Least(terms) .. Most(terms)
Constraints(sums) == UNION {{Line(op, s, r) : op \in {">=", "<=", "="}, r \in Range3(s)} : s \in sums}

SingleCards == {Opb(<<All(4), c>>, "swc", card) : c \in Constraints(Cards), card \in CardNames}
               \cup {Opb(<<All(6), Line("<=", Long, r)>>, "swc", card) : r \in 0 .. 6, card \in CardNames}
SinglePBs   == {Opb(<<All(4), c>>, pb, "mtotalizer") :
                  c \in {d \in Constraints(Sums) : d.op # "="}, pb \in {"swc", "gte"}}
SmallSums == {<<T(a, 1), T(b, 2), T(c, -3)>> : a \in 1 .. 3, b \in {-2, 1, 2}, c \in {0, 1, 3}}
\* gte drops a constraint that no assignment satisfies: only swc gets those
CanHold(op, s, r) == IF op = ">=" THEN Most(s) >= r ELSE Least(s) <= r
Swept  == {Opb(<<All(3), Line(op, s, r)>>, pb, "totalizer") :
             <<op, s, r, pb>> \in {q \in {">=", "<="} \X SmallSums \X {0, 2, 3} \X {"swc", "gte"} :
                                    q[4] = "swc" \/ CanHold(q[1], q[2], q[3])}}
Adders      == {Opb(<<All(4), Line("<=", <<T(2, 1), T(1, -2), T(3, 3), T(2, 4)>>, r)>>, "adder", "totalizer") : r \in 2 .. 8}
Pairs == {Opb(<<All(4), c, d>>, "swc", card) :
            c \in {Line("=", <<T(2, 1), T(1, 2), T(2, 3)>>, 3), Line(">=", <<T(1, 1), T(1, 2), T(1, 3)>>, 2)},
            d \in {Line("<=", <<T(1, 4), T(1, -1), T(1, 2), T(1, 3)>>, 2),
                   Line("<=", <<T(1, 4), T(1, -3)>>, 1),
                   Line(">=", <<T(3, 4), T(-1, 3), T(2, 1)>>, 2)},
            card \in CardNames}
Infeasible == {Opb(<<All(2), Line(">=", <<T(2, 1), T(1, 2)>>, 4)>>, "swc", "totalizer")}
Aims == {Opb(<<All(3), Line("<=", <<T(1, 1), T(1, 2), T(1, 3)>>, 2), Goal("min", o), Goal(op, p)>>, "swc", "totalizer") :
           o \in {<<T(2, 1), T(1, -2)>>, <<T(0, 1), T(3, 3)>>}, p \in {<<T(1, 2), T(2, 3)>>}, op \in {"min"}}
        \* a constant in none, in one or in both objectives
        \cup {Opb(<<All(3), Line("<=", <<T(1, 1), T(1, 2), T(1, 3)>>, 2), Goal(op, o), Goal(oq, p)>>, "swc", "totalizer") :
                op \in {"min", "max"}, o \in {<<T(-2, 1)>>, <<T(1, 1)>>, <<T(2, 1), T(-1, 2), T(1, -3)>>},
                oq \in {"min", "max"}, p \in {<<T(1, 2), T(-3, 3)>>, <<T(0, 1), T(2, -2)>>}}
        \cup {Opb(<<All(3), Goal("max", <<T(-1, 2), T(-2, -3)>>), Goal("min", <<T(1, 1)>>)>>, "gte", "cnetworks")}

H(lits) == [op |-> "h", lits |-> lits]
O(i, w, lits) == [op |-> "o", idx |-> i, weight |-> w, lits |-> lits]
Mcnf(file, p) ==
  [format |-> "mcnf", file |-> file, pb |-> "swc", card |-> "totalizer", prepro |-> p,
   mode |-> "none", disjoint |-> FALSE]
Mcnfs == {Mcnf(<<H(<<1, 2>>), x, y>>, p) :
            x \in {O(1, 2, <<-1, 3>>), O(3, 1, <<2>>), O(1, 0, <<-2>>)},
            y \in {O(1, 1, <<-2>>), O(2, 2, <<-1, -2>>), H(<<-1, 3>>)}, p \in BOOLEAN}

(* Objectives for the sorting networks: soft unit clauses on 1 .. n, the first *)
(* with weight w, and a second objective with the first m of them.             *)
Softs1(k, n, w) == [i \in 1 .. n |-> O(k, IF i = 1 THEN w ELSE 1, <<-i>>)]
Sorting(n, w, m, mode, disjoint) ==
  [Mcnf(<<H([i \in 1 .. n |-> i])>> \o Softs1(1, n, w) \o Softs1(2, m, 1), FALSE)
     EXCEPT !.mode = mode, !.disjoint = disjoint]
Networked ==
  {Sorting(n, w, 1, "static", FALSE) : n \in 1 .. 7, w \in 1 .. 2}
  \cup {Sorting(3, w, 1, "core_merge", d) : w \in 1 .. 2, d \in BOOLEAN}
  \cup {Sorting(3, 1, 1, "core_rebuild_incr", d) : d \in BOOLEAN}
  \cup {Sorting(5, 1, 0, "core_merge", TRUE), Sorting(3, 1, 1, "core_rebuild", FALSE)}

Files == Networked \cup SingleCards \cup SinglePBs \cup Swept \cup Adders \cup Pairs \cup Infeasible \cup Aims \cup Mcnfs
=============================================================================
