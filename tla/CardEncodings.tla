--------------------------- MODULE CardEncodings ---------------------------
(***************************************************************************)
(* The encodings of cardinality constraints "at most rhs of lits" that     *)
(* Encoder::encodeAMO and Encoder::encodeCardinality choose from           *)
(* (src/src/cmd_line/encodings).  Every operator takes the solver of       *)
(* module Cnf and returns it with the new ids and clauses, in the order of *)
(* the source, since the ids fresh() returns depend on the clauses added   *)
(* before.  The literals removed one by one from cardinality_inlits are    *)
(* the field ins of the records the recursive operators pass on.           *)
(***************************************************************************)
EXTENDS Cnf, SequencesExt

Negated(lits) == {{-lits[i]} : i \in DOMAIN lits}

\* the literals at the positions 1, 3, 5 ... or 2, 4, 6 ...
OddPart(s)  == [i \in 1 .. (Len(s) + 1) \div 2 |-> s[2 * i - 1]]
EvenPart(s) == [i \in 1 .. Len(s) \div 2 |-> s[2 * i]]
FirstPart(s, k) == SubSeq(s, 1, k)
LastPart(s, k)  == SubSeq(s, k + 1, Len(s))

-----------------------------------------------------------------------------
(* Ladder: s[i] says that one of the first i literals is true.             *)

Ladder(S, lits) ==
  LET n == Len(lits)
      s == Fresh(S, n - 1)
      middle == 2 .. n - 1
  IN  IF n = 0 THEN Must(S, FALSE)
      ELSE IF n = 1 THEN S
      ELSE Add(Skip(S, n - 1),
               {{-lits[1], s[1]}, {lits[n], s[n - 1]}, {-lits[n], -s[n - 1]}}
               \cup {{-s[i - 1], s[i]} : i \in middle}
               \cup {{lits[i], -s[i], s[i - 1]} : i \in middle}
               \cup {{-lits[i], s[i]} : i \in middle}
               \cup {{-lits[i], -s[i - 1]} : i \in middle})

-----------------------------------------------------------------------------
(* Totalizer: a tree of adders of unary numbers, counting up to rhs + 1.   *)

TotAdder(left, right, out, rhs) ==
  {{-left[i] : i \in {p[1]} \ {0}} \cup {-right[j] : j \in {p[2]} \ {0}} \cup {out[p[1] + p[2]]} :
     p \in {q \in (0 .. Len(left)) \X (0 .. Len(right)) : q[1] + q[2] \in 1 .. rhs + 1}}

\* the inputs of an adder that counts m literals: the last remaining literal,
\* or m new variables
TotInputs(st, m) ==
  IF m = 1 THEN [s |-> st.s, ins |-> Front(st.ins), out |-> <<Last(st.ins)>>]
  ELSE [s |-> Skip(st.s, m), ins |-> st.ins, out |-> Fresh(st.s, m)]

RECURSIVE TotCNF(_, _, _)
TotCNF(st, out, rhs) ==
  LET half  == Len(out) \div 2
      left  == TotInputs(st, half)
      right == TotInputs(left, Len(out) - half)
      a == IF half > 1 THEN TotCNF(right, left.out, rhs) ELSE right
      b == IF Len(out) - half > 1 THEN TotCNF(a, right.out, rhs) ELSE a
  IN  [b EXCEPT !.s = Add(b.s, TotAdder(left.out, right.out, out, rhs))]

\* build, then update when build has created an encoding
Totalizer(S, lits, rhs) ==
  LET n   == Len(lits)
      out == Fresh(S, n)
  IN  IF rhs = 0 THEN Add(S, Negated(lits))
      ELSE IF rhs \notin 1 .. n THEN Must(S, FALSE)
      ELSE IF rhs = n THEN S
      ELSE Add(TotCNF([s |-> Skip(S, n), ins |-> lits, out |-> <<>>], out, rhs).s,
               Negated(LastPart(out, rhs)))

-----------------------------------------------------------------------------
(* Modulo totalizer: a node counts with an upper number, in units of mod,  *)
(* and a lower number below mod.  A missing upper number is <<0>>: h0 is   *)
(* lit_Undef.                                                              *)

\* A mutant: the modulus is rounded down.
FloorSqrt(n) == CHOOSE m \in 1 .. n : m * m <= n /\ (m + 1) * (m + 1) > n

CeilSqrt(n) == CHOOSE m \in 1 .. n : m * m >= n /\ (m - 1) * (m - 1) < n

\* sums of the lower parts; k is current_cardinality_rhs
MTotLower(mod, k, up, lo, ll, rl, carry) ==
  LET Sum(p) == p[1] + p[2]
      Pre(p) == {-ll[i] : i \in {p[1]} \ {0}} \cup {-rl[j] : j \in {p[2]} \ {0}}
      Out(p) == IF Sum(p) < mod
                THEN {lo[Sum(p)]} \cup (IF up[1] # 0 THEN {carry} ELSE {})
                ELSE IF Sum(p) > mod THEN {lo[Sum(p) % mod]} ELSE {carry}
  IN  {Pre(p) \cup Out(p) :
         p \in {q \in (0 .. Len(ll)) \X (0 .. Len(rl)) :
                  Sum(q) > 0 /\ ~(Sum(q) > k + 1 /\ k + 1 < mod)}}

\* A mutant: the carry of the lower parts is forgotten.
MTotUpperNoCarry(mod, k, up, lu, ru, carry) ==
  LET Pre(p) == {-lu[i] : i \in {p[1]} \ {0}} \cup {-ru[j] : j \in {p[2]} \ {0}}
      pairs  == {p \in (0 .. Len(lu)) \X (0 .. Len(ru)) : p[1] + p[2] \in 1 .. Len(up)}
  IN  {c \in {(Pre(p) \cup {up[p[1] + p[2]]}) \ {0} : p \in pairs} : Cardinality(c) > 1}

\* sums of the upper parts, with and without the carry
MTotUpper(mod, k, up, lu, ru, carry) ==
  LET Sum(p)  == p[1] + p[2]
      Pre(p)  == {-lu[i] : i \in {p[1]} \ {0}} \cup {-ru[j] : j \in {p[2]} \ {0}}
      At(i)   == IF i \in 1 .. Len(up) THEN {up[i]} ELSE {}
      pairs   == {p \in (0 .. Len(lu)) \X (0 .. Len(ru)) : Sum(p) <= (k + mod - 1) \div mod}
      plain   == {(Pre(p) \cup At(Sum(p))) \ {0} : p \in {q \in pairs : At(Sum(q)) \ {0} # {}}}
      carried == {({-carry} \cup Pre(p) \cup At(Sum(p) + 1)) \ {0} : p \in pairs}
  IN  {c \in plain \cup carried : Cardinality(c) > 1}

MTotAdder(S, mod, k, up, lo, lu, ll, ru, rl) ==
  LET carry == IF up[1] # 0 THEN S.id + 1 ELSE 0
      T == Must(IF up[1] # 0 THEN Skip(S, 1) ELSE S,
                  Len(lo) >= Len(ll) /\ Len(lo) >= Len(rl))
      U == Add(T, MTotLower(mod, k, up, lo, ll, rl, carry))
  IN  IF T.end # "" \/ up[1] = 0 THEN U ELSE Add(U, MTotUpper(mod, k, up, lu, ru, carry))

\* the numbers of a node that counts m literals
MTotInputs(st, mod, m) ==
  LET nu == m \div mod
      nl == IF nu % mod = 0 /\ m < mod - 1 THEN m ELSE mod - 1
  IN  IF m = 1 THEN [s |-> st.s, ins |-> Front(st.ins), up |-> <<0>>, lo |-> <<Last(st.ins)>>]
      ELSE [s   |-> Skip(st.s, nu + nl), ins |-> st.ins,
            up  |-> IF nu = 0 THEN <<0>> ELSE Fresh(st.s, nu),
            lo  |-> Fresh(Skip(st.s, nu), nl)]

RECURSIVE MTotCNF(_, _, _, _, _, _)
MTotCNF(st, mod, k, up, lo, n) ==
  LET half  == n \div 2
      left  == MTotInputs(st, mod, half)
      right == MTotInputs(left, mod, n - half)
      sum   == [right EXCEPT !.s = MTotAdder(@, mod, k, up, lo, right.up, right.lo, left.up, left.lo)]
      a == IF half > 1 THEN MTotCNF(sum, mod, k, left.up, left.lo, half) ELSE sum
  IN  IF n - half > 1 THEN MTotCNF(a, mod, k, right.up, right.lo, n - half) ELSE a

\* encode_output: rhs + 1 is ulimit * mod + llimit and must not be reached
MTotLimit(S, mod, up, lo, rhs) ==
  LET ulimit == (rhs + 1) \div mod
      llimit == (rhs + 1) % mod
      above  == llimit .. Len(lo)
  IN  Add(Must(S, ulimit <= Len(up) /\ llimit <= Len(lo)),
          {{-up[i]} : i \in ulimit + 1 .. Len(up)}
          \cup (IF ulimit # 0 /\ llimit # 0 THEN {{-up[ulimit], -lo[i]} : i \in above}
                ELSE IF ulimit = 0 THEN {{-lo[i]} : i \in above}
                ELSE {{-up[ulimit]}}))

MTotalizer(S, lits, rhs) ==
  LET n   == Len(lits)
      mod == IF S.modulo = -1 THEN CeilSqrt(rhs + 1) ELSE S.modulo
      new == Fresh(S, n \div mod)
      up  == IF new = <<>> THEN <<0>> ELSE new
      lo  == Fresh(Skip(S, n \div mod), mod - 1)
      T   == [Skip(S, n \div mod + mod - 1) EXCEPT !.modulo = mod]
      U   == MTotCNF([s |-> T, ins |-> lits, up |-> up, lo |-> lo], mod, rhs + 1, up, lo, n).s
  IN  IF rhs = 0 THEN Add(S, Negated(lits))
      ELSE IF rhs \notin 1 .. n THEN Must(S, FALSE)
      ELSE IF rhs = n THEN S
      ELSE MTotLimit(U, mod, up, lo, rhs)

-----------------------------------------------------------------------------
(* Cardinality networks: blocks of 2^j > rhs literals are sorted and their *)
(* first outputs merged.                                                   *)

\* the comparators between the outputs d and e of the two smaller merges
CNCompare(c, d, e, n) ==
  UNION {{{-d[i + 1], -e[i], c[2 * i + 1]}, {-d[i + 1], c[2 * i]}, {-e[i], c[2 * i]}} : i \in 1 .. n}

CNBase(a, b, c) == {{-a[1], -b[1], c[2]}, {-a[1], c[1]}, {-b[1], c[1]}}

RECURSIVE HMerge(_, _, _, _)
HMerge(S, a, b, c) ==
  LET n == Len(a)
      new == Fresh(S, 2 * (n - 1))
      d == <<c[1]>> \o FirstPart(new, n - 1)
      e == LastPart(new, n - 1) \o <<Last(c)>>
      T == Add(Skip(S, 2 * (n - 1)), CNCompare(c, d, e, n - 1))
  IN  IF n = 1 THEN Add(S, CNBase(a, b, c))
      ELSE HMerge(HMerge(T, OddPart(a), OddPart(b), d), EvenPart(a), EvenPart(b), e)

RECURSIVE SMerge(_, _, _, _)
SMerge(S, a, b, c) ==
  LET n == Len(a)
      h == n \div 2
      new == Fresh(S, n + 1)
      d == <<c[1]>> \o FirstPart(new, h)
      e == LastPart(new, h)
      T == Add(Skip(S, n + 1), CNCompare(c, d, e, h))
  IN  IF n = 1 THEN Add(S, CNBase(a, b, c))
      ELSE SMerge(SMerge(T, OddPart(a), OddPart(b), d), EvenPart(a), EvenPart(b), e)

RECURSIVE HSort(_, _, _)
HSort(S, a, c) ==
  LET n == Len(a)
      new == Fresh(S, n)
      upper == OddPart(new)
      lower == EvenPart(new)
      T == HSort(HSort(Skip(S, n), FirstPart(a, n \div 2), lower), LastPart(a, n \div 2), upper)
  IN  IF n = 2 THEN HMerge(Must(S, a[1] # a[2]), <<a[1]>>, <<a[2]>>, c)
      ELSE HMerge(T, lower, upper, c)

RECURSIVE CNEncode(_, _, _, _)
CNEncode(S, a, c, k) ==
  LET new == Fresh(S, 2 * k + 1)
      lower == OddPart(FirstPart(new, 2 * k))
      upper == EvenPart(new)
      T == CNEncode(CNEncode(Skip(S, 2 * k + 1), FirstPart(a, k), lower, k), LastPart(a, k), upper, k)
  IN  IF Len(a) = k THEN HSort(S, a, c) ELSE SMerge(T, lower, upper, Append(c, Last(new)))

RECURSIVE PowerAbove(_)
PowerAbove(n) == IF n = 0 THEN 1 ELSE 2 * PowerAbove(n \div 2)

CNetworks(S, lits, rhs) ==
  LET n   == Len(lits)
      k   == PowerAbove(rhs)
      m   == ((n + k - 1) \div k) * k - n
      pad == Fresh(S, m)
      out == Fresh(Skip(S, m), k)
      T   == CNEncode(Skip(S, m + k), lits \o pad, out, k)
  IN  IF rhs < 0 \/ n = 0 THEN Must(S, FALSE)
      ELSE IF rhs = 0 THEN Add(S, Negated(lits))
      ELSE Add(T, Negated(pad) \cup Negated(LastPart(out, rhs)))

-----------------------------------------------------------------------------
\* Encoder::encodeCardinality; the names are those of card_enc in the options
CardNames == {"cnetworks", "totalizer", "mtotalizer"}

CardEncoding(S, enc, lits, rhs) ==
  IF S.end # "" THEN S
  ELSE CASE enc = "cnetworks"  -> CNetworks(S, lits, rhs)
         [] enc = "totalizer"  -> Totalizer(S, lits, rhs)
         [] enc = "mtotalizer" -> MTotalizer(S, lits, rhs)
=============================================================================
