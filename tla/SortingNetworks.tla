-------------------------- MODULE SortingNetworks --------------------------
(***************************************************************************)
(* The odd-even merge sorting networks of src/src/sorting_net.cpp, as      *)
(* clauses.  A network under construction is a record                      *)
(*   s : the solver of module Cnf, with the clauses of m_encoding,         *)
(*   w : for every wire the output variable of its last comparator, or -1  *)
(*       before the first one (SNET).                                      *)
(* Wires are numbered from 1, and a sequence of wires is given by its      *)
(* first wire, its size and the distance of its wires.                     *)
(***************************************************************************)
EXTENDS Cnf, SequencesExt

WireSeqs == [first : Nat, size : Nat, step : Nat]
WireSeq(first, size, step) == [first |-> first, size |-> size, step |-> step]
Nth(q, i) == q.first + q.step * (i - 1)
Odd(q)  == WireSeq(q.first, (q.size + 1) \div 2, 2 * q.step)
Even(q) == WireSeq(q.first + q.step, q.size \div 2, 2 * q.step)

\* insert_comparator: the wire with the greater number gets the maximum
InsertComparator(net, el1, el2, objective) ==
  LET In(e) == IF net.w[e] = -1 THEN objective[e] ELSE net.w[e]
      a   == In(el1)
      b   == In(el2)
      min == net.s.id + 1
      max == net.s.id + 2
  IN  [s |-> Add(Skip(net.s, 2), {{-max, a, b}, {max, -a}, {max, -b}, {-min, a}, {-min, b}, {min, -a, -b}}),
       w |-> [net.w EXCEPT ![el1] = IF el1 > el2 THEN max ELSE min,
                           ![el2] = IF el2 > el1 THEN max ELSE min]]

\* A mutant: the second sequence is always treated as if the first had an
\* even number of wires.
ExchangesEven(q1, q2) ==
  [k \in 1 .. q1.size \div 2 |->
     IF 2 * k = q1.size THEN <<Nth(q1, 2 * k), q2.first>> ELSE <<Nth(q1, 2 * k), Nth(q1, 2 * k + 1)>>]
  \o [k \in 1 .. (q2.size - 1) \div 2 |-> <<Nth(q2, 2 * k), Nth(q2, 2 * k + 1)>>]

\* the comparison-interchanges after the odd and the even parts are merged
Exchanges(q1, q2) ==
  LET init == IF q1.size % 2 = 0 THEN 2 ELSE 1
  IN  [k \in 1 .. q1.size \div 2 |->
         IF 2 * k = q1.size THEN <<Nth(q1, 2 * k), q2.first>> ELSE <<Nth(q1, 2 * k), Nth(q1, 2 * k + 1)>>]
      \o [k \in 1 .. (q2.size + 1 - init) \div 2 |->
            <<Nth(q2, init + 2 * (k - 1)), Nth(q2, init + 2 * (k - 1) + 1)>>]

\* odd_even_merge: the comparators, in the order they are inserted
Merge[q \in WireSeqs \X WireSeqs] ==
  LET q1 == q[1]
      q2 == q[2]
  IN  IF q1.size = 0 \/ q2.size = 0 THEN <<>>
      ELSE IF q1.size = 1 /\ q2.size = 1 THEN <<<<q1.first, q2.first>>>>
      ELSE Merge[<<Odd(q1), Odd(q2)>>] \o Merge[<<Even(q1), Even(q2)>>] \o Exchanges(q1, q2)

\* encode_network: the comparators for w[2] wires from w[1] on
Network[w \in Nat \X Nat] ==
  LET first == w[1]
      size  == w[2]
      m == size \div 2
  IN  IF size <= 1 THEN <<>>
      ELSE Network[<<first, m>>] \o Network[<<first + m, size - m>>]
           \o Merge[<<WireSeq(first, m, 1), WireSeq(first + m, size - m, 1)>>]

InsertAll(net, ps, objective) ==
  LET after[i \in 0 .. Len(ps)] ==
        IF i = 0 THEN net ELSE InsertComparator(after[i - 1], ps[i][1], ps[i][2], objective)
  IN  after[Len(ps)]

\* a single wire has no comparator
Sorted(S, inputs) ==
  IF Len(inputs) = 1 THEN [s |-> S, w |-> inputs]
  ELSE InsertAll([s |-> S, w |-> [i \in DOMAIN inputs |-> -1]], Network[<<1, Len(inputs)>>], inputs)

\* encode_sorted: without inputs the old outputs stay
EncodeSorted(S, inputs, old) == IF inputs = <<>> THEN [s |-> S, w |-> old] ELSE Sorted(S, inputs)

\* merge_core_guided for one objective: the unit core variables at the end of
\* the outputs are taken off and put back
MergeCoreGuided(S, inputs, old, unit) ==
  LET new == Sorted(S, inputs)
      kept == SubSeq(old, 1, Len(old) - Len(unit))
      both == InsertAll([new EXCEPT !.w = kept \o @],
                        Merge[<<WireSeq(1, Len(kept), 1), WireSeq(Len(kept) + 1, Len(inputs), 1)>>], <<>>)
  IN  IF inputs = <<>> THEN [s |-> S, w |-> old] ELSE [both EXCEPT !.w = @ \o unit]
=============================================================================
