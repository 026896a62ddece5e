---------------------------- MODULE PBEncodings ----------------------------
(***************************************************************************)
(* The encodings of pseudo-Boolean constraints                             *)
(*    coeffs[1] * lits[1] + coeffs[2] * lits[2] + ...  <=  rhs             *)
(* that Encoder::encodePB chooses from (src/src/cmd_line/encodings), and   *)
(* the conversions of their numbers: main passes the signed _rhs as a      *)
(* uint64_t, and the encoders compare coefficients with (unsigned)rhs.     *)
(***************************************************************************)
EXTENDS CardEncodings

\* int64_t and uint64_t have twice as many bits as int
ULongMax == (UIntMax + 1) ^ 2 - 1
UInt(x)  == x % (UIntMax + 1)           \* (unsigned)x
ULong(x) == x % (ULongMax + 1)          \* an int64_t passed as a uint64_t

\* a constraint as the encoders see it: the sequences lits and coeffs
Exit(S) == IF S.end = "" THEN [S EXCEPT !.end = "exit"] ELSE S

\* the simplification SWC and GTE start with: terms without weight are dropped,
\* literals that alone exceed the right-hand side are made false
Zeros(coeffs) == {i \in DOMAIN coeffs : coeffs[i] = 0}
\* A mutant: a literal that alone reaches the right-hand side is made false, too.
ExceedingOrEqual(coeffs, rhs) == {i \in DOMAIN coeffs : coeffs[i] >= UInt(rhs)} \ Zeros(coeffs)
Exceeding(coeffs, rhs) == {i \in DOMAIN coeffs : coeffs[i] > UInt(rhs)} \ Zeros(coeffs)
KeptTerms(lits, coeffs, rhs) ==
  LET out == Zeros(coeffs) \cup Exceeding(coeffs, rhs)
      Pick(s) == [i \in 1 .. Len(s) |-> [lit |-> lits[s[i]], weight |-> coeffs[s[i]]]]
  IN  Pick(SetToSortSeq(DOMAIN coeffs \ out, <))
Simplified(S, lits, coeffs, rhs) == Add(S, {{-lits[i]} : i \in Exceeding(coeffs, rhs)})

-----------------------------------------------------------------------------
(* SWC, the sequential weight counter: s(i, j) says that the weight of the *)
(* true literals among the first i is at least j.                          *)

SWCClauses(S, terms, rhs) ==
  LET n == Len(terms)
      s(i, j) == S.id + (i - 1) * rhs + j
      l(i) == terms[i].lit
      w(i) == terms[i].weight
  IN  {{-s(i - 1, j), s(i, j)} : i \in 2 .. n, j \in 1 .. rhs}
      \cup UNION {{{-l(i), s(i, j)} : j \in 1 .. w(i)} : i \in 1 .. n}
      \cup UNION {{{-s(i - 1, j), -l(i), s(i, j + w(i))} : j \in 1 .. rhs - w(i)} : i \in 2 .. n}
      \cup {{-s(i - 1, rhs + 1 - w(i)), -l(i)} : i \in 2 .. n}

SWC(S, lits, coeffs, srhs) ==
  LET rhs == ULong(srhs)
      terms == KeptTerms(lits, coeffs, rhs)
      T == Simplified(S, lits, coeffs, rhs)
  IN  IF rhs >= IntMax \/ \E i \in DOMAIN coeffs : coeffs[i] >= IntMax THEN Exit(S)
      ELSE IF Len(terms) <= 1 THEN T
      ELSE Add(Skip(T, Len(terms) * rhs), SWCClauses(T, terms, rhs))

-----------------------------------------------------------------------------
(* GTE, the generalised totalizer: a node maps the weights its terms can   *)
(* reach, capped at k, to literals.  The new ids of a node are taken in    *)
(* the order of the weights.                                               *)

Sum(terms) == FoldSeq(LAMBDA t, acc : acc + t.weight, 0, terms)
Cap(w, k)  == IF w > k THEN k ELSE w

\* the clauses of a node, with the outputs l and r of its two halves
GTEClauses(l, r, out, k) ==
  {{-l[w], out[Cap(w, k)]} : w \in DOMAIN l}
  \cup {{-r[w], out[Cap(w, k)]} : w \in DOMAIN r}
  \cup {{-l[p[1]], -r[p[2]], out[Cap(p[1] + p[2], k)]} : p \in (DOMAIN l) \X (DOMAIN r)}

\* encodeLeq; out0 is what the map of outputs holds at the call
RECURSIVE EncodeLeq(_, _, _, _)
EncodeLeq(S, k, terms, out0) ==
  LET half  == Len(terms) \div 2
      left  == EncodeLeq(S, Cap(Sum(FirstPart(terms, half)), k), FirstPart(terms, half), <<>>)
      right == EncodeLeq(left.s, Cap(Sum(LastPart(terms, half)), k), LastPart(terms, half), <<>>)
      l == left.out
      r == right.out
      reached == {Cap(w, k) : w \in (DOMAIN l) \cup (DOMAIN r)
                                  \cup {p[1] + p[2] : p \in (DOMAIN l) \X (DOMAIN r)}}
      new == SetToSortSeq(reached \ DOMAIN out0, <)
      out == out0 @@ [w \in Range(new) |-> right.s.id + CHOOSE i \in DOMAIN new : new[i] = w]
  IN  IF Len(terms) = 1 THEN [s |-> S, out |-> out0 @@ (terms[1].weight :> terms[1].lit)]
      ELSE [s |-> Add(Skip(right.s, Len(new)), GTEClauses(l, r, out, k)), out |-> out]

GTE(S, lits, coeffs, srhs) ==
  LET rhs == ULong(srhs)
      terms == SortSeq(KeptTerms(lits, coeffs, rhs), LAMBDA a, b : a.weight < b.weight)
      T == Simplified(S, lits, coeffs, rhs)
      root == EncodeLeq(T, rhs + 1, terms, S.gte)
  IN  IF rhs >= ULongMax \/ \E i \in DOMAIN coeffs : coeffs[i] >= ULongMax THEN Exit(S)
      ELSE IF Len(terms) <= 1 THEN T
      ELSE [Add(root.s, {{-root.out[w]} : w \in {v \in DOMAIN root.out : v > rhs}})
              EXCEPT !.gte = root.out]

-----------------------------------------------------------------------------
(* Adder: a network of full and half adders, one bucket of literals per    *)
(* bit, and a comparison with the bits of rhs.                             *)

\* x is the sum, y the carry
FullAdder(a, b, c, x, y) ==
  {{a, b, c, -x}, {a, -b, -c, -x}, {-a, b, -c, -x}, {-a, -b, c, -x},
   {-a, -b, -c, x}, {-a, b, c, x}, {a, -b, c, x}, {a, b, -c, x},
   {b, c, -y}, {a, c, -y}, {a, b, -y}, {-b, -c, y}, {-a, -c, y}, {-a, -b, y},
   {-y, -x, a}, {-y, -x, b}, {-y, -x, c}, {y, x, -a}, {y, x, -b}, {y, x, -c}}
HalfAdder(a, b, x, y) ==
  {{-a, -b, -x}, {a, b, -x}, {-a, b, x}, {a, -b, x}, {a, -y}, {b, -y}, {-a, -b, y}}

\* one bucket is emptied: its queue of literals, then the carries
RECURSIVE AddBits(_, _, _)
AddBits(S, queue, carries) ==
  LET x == S.id + 1
      y == S.id + 2
  IN  CASE Len(queue) >= 3 ->
             AddBits(Add(Skip(S, 2), FullAdder(queue[1], queue[2], queue[3], x, y)),
                     Append(LastPart(queue, 3), x), Append(carries, y))
        [] Len(queue) = 2 ->
             AddBits(Add(Skip(S, 2), HalfAdder(queue[1], queue[2], x, y)), <<x>>, Append(carries, y))
        [] OTHER -> [s |-> S, bit |-> queue, carries |-> carries]

\* adderTree; a bucket that is empty has the output lit_Undef
RECURSIVE AdderTree(_, _, _)
AdderTree(S, buckets, result) ==
  LET step == AddBits(S, Head(buckets), <<>>)
      rest == IF Len(buckets) = 1
              THEN IF step.carries = <<>> THEN <<>> ELSE <<step.carries>>
              ELSE <<buckets[2] \o step.carries>> \o LastPart(buckets, 2)
  IN  IF buckets = <<>> THEN [s |-> S, result |-> result]
      ELSE AdderTree(step.s, rest,
                     Append(result, IF step.bit = <<>> THEN 0 ELSE Head(step.bit)))

Bit(n, i) == (n \div 2 ^ i) % 2

\* lessThanOrEqual: for every bit of rhs that is 0 and may be 1 in the sum xs,
\* one of the higher bits must differ
LessOrEqual(xs, rhs) ==
  LET higher(i) == i + 1 .. Len(xs)
  IN  {{-xs[i]} \cup {IF Bit(rhs, j - 1) = 1 THEN -xs[j] ELSE xs[j] : j \in {h \in higher(i) : xs[h] # 0}} :
         i \in {k \in DOMAIN xs : /\ Bit(rhs, k - 1) = 0
                                  /\ xs[k] # 0
                                  /\ \A j \in higher(k) : Bit(rhs, j - 1) = 1 => xs[j] # 0}}

\* ld64, the number of bits of x; for 0 the result of __builtin_clzll is
\* undefined: zeroBits is what the build makes of it
RECURSIVE Bits(_)
Bits(x) == IF x = 0 THEN 0 ELSE 1 + Bits(x \div 2)
Ld64(x, zeroBits) == IF x = 0 THEN zeroBits ELSE Bits(x)

\* _buckets is not cleared: at the second constraint the assert of
\* lessThanOrEqual compares its size with that of the new _output and fails
Adder(S, lits, coeffs, srhs, zeroBits) ==
  LET rhs == ULong(srhs)
      Bucket(b) == SelectSeq([i \in DOMAIN lits |-> IF Bit(coeffs[i], b) = 1 THEN lits[i] ELSE 0],
                             LAMBDA l : l # 0)
      tree == AdderTree(S, [b \in 1 .. Ld64(rhs, zeroBits) |-> Bucket(b - 1)], <<>>)
  IN  IF S.buckets > 0 THEN Must(S, FALSE)
      ELSE [Add(tree.s, LessOrEqual(tree.result, rhs)) EXCEPT !.buckets = Len(tree.result)]

-----------------------------------------------------------------------------
\* Encoder::encodePB; the other encodings of the options end the program
PBNames == {"swc", "gte", "adder", "igte"}

PBEncoding(S, enc, lits, coeffs, rhs, zeroBits) ==
  IF S.end # "" THEN S
  ELSE CASE enc = "swc"   -> SWC(S, lits, coeffs, rhs)
         [] enc = "gte"   -> GTE(S, lits, coeffs, rhs)
         [] enc = "adder" -> Adder(S, lits, coeffs, rhs, zeroBits)
         [] OTHER         -> Exit(S)
=============================================================================
