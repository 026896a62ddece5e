--------------------------- MODULE FrontEndProofs ---------------------------
(***************************************************************************)
(* Proofs about the front end and the sorting networks, for every file,    *)
(* every size of the networks and every encoder: what the parser makes of  *)
(* a file says what the file says (ParserCorrect), and the networks sort   *)
(* the values of the objectives (NetworkRight for the comparators,         *)
(* SortedRight and MergedRight for the clauses, NetworksSort for a run)    *)
(* and restrict nothing else (NetworksFree).                               *)
(***************************************************************************)
EXTENDS Networks, SequenceTheorems, FiniteSetTheorems, WellFoundedInduction, TLAPS

-----------------------------------------------------------------------------
(* Induction and recursion *)

LEMMA LeastOf ==
  ASSUME NEW S, S \subseteq Nat, S # {}
  PROVE  \E m \in S : \A n \in S : m <= n
<1>1. PICK m \in S : \A n \in S : ~ (<<n, m>> \in OpToRel(<, Nat))
  BY NatLessThanWellFounded, WFMin
<1>2. \A n \in S : ~ (n < m)
  BY <1>1 DEF OpToRel
<1> QED  BY <1>2

LEMMA Upward ==
  ASSUME NEW n \in Nat, NEW S, 0 \in S, \A k \in 1 .. n : k-1 \in S => k \in S
  PROVE  \A k \in 0 .. n : k \in S
<1> DEFINE B == {k \in 0 .. n : k \notin S}
<1>1. SUFFICES ASSUME B # {} PROVE FALSE
  OBVIOUS
<1>2. PICK b \in B : \A k \in B : b <= k
  <2> HIDE DEF B
  <2>1. B \subseteq Nat
    BY DEF B
  <2> QED  BY <1>1, <2>1, LeastOf
<1>3. b \in 1 .. n /\ b-1 \in 0 .. n /\ b-1 \notin B
  <2>1. b # 0 /\ b \in 0 .. n
    OBVIOUS
  <2>2. b-1 \in 0 .. n /\ b \in 1 .. n /\ ~ (b <= b-1)
    BY <2>1
  <2> QED  BY <1>2, <2>2
<1> QED  BY <1>3

\* f goes from x by the steps H, of the set D into itself
Goes(f, n, D, x, H) == f \in [0 .. n -> D] /\ f[0] = x /\ \A k \in 1 .. n : f[k] = H[k][f[k-1]]

(* A function that is defined by recursion over 0 .. n exists: where there *)
(* is one up to k - 1, it extends to k.                                    *)
LEMMA Iteration ==
  ASSUME NEW n \in Nat, NEW D, NEW x \in D, NEW H, \A k \in 1 .. n : H[k] \in [D -> D]
  PROVE  \E f : Goes(f, n, D, x, H)
<1> DEFINE S == {k \in 0 .. n : \E f : Goes(f, k, D, x, H)}
<1>1. 0 \in S
  <2> DEFINE f == [k \in 0 .. 0 |-> x]
  <2>1. Goes(f, 0, D, x, H)
    BY DEF Goes
  <2> QED  BY <2>1
<1>2. ASSUME NEW b \in 1 .. n, b-1 \in S PROVE b \in S
  <2>1. PICK g : Goes(g, b-1, D, x, H)
    BY <1>2
  <2> DEFINE f == [k \in 0 .. b |-> IF k = b THEN H[b][g[b-1]] ELSE g[k]]
  <2>2. b-1 \in 0 .. b-1 /\ g[b-1] \in D /\ H[b] \in [D -> D]
    BY <2>1 DEF Goes
  <2>3. \A k \in 0 .. b : k # b => k \in 0 .. b-1 /\ g[k] \in D
    BY <2>1 DEF Goes
  <2>4. f \in [0 .. b -> D]
    BY <2>2, <2>3
  <2>5. f[0] = x
    BY <2>1 DEF Goes
  <2>6. ASSUME NEW k \in 1 .. b PROVE f[k] = H[k][f[k-1]]
    <3>1. k-1 \in 0 .. b /\ k-1 # b /\ f[k-1] = g[k-1]
      OBVIOUS
    <3>2. CASE k = b
      BY <3>1, <3>2
    <3>3. CASE k # b
      <4>1. k \in 1 .. b-1 /\ f[k] = g[k]
        BY <3>3
      <4> QED  BY <2>1, <3>1, <4>1 DEF Goes
    <3> QED  BY <3>2, <3>3
  <2>7. Goes(f, b, D, x, H)
    <3> HIDE DEF f
    <3> QED  BY <2>4, <2>5, <2>6 DEF Goes
  <2> QED  BY <2>7
<1>3. \A k \in 0 .. n : k \in S
  <2> HIDE DEF S
  <2> QED  BY <1>1, <1>2, Upward
<1> QED  BY <1>3

\* a function given by the same steps is the same
LEMMA SameSteps ==
  ASSUME NEW n \in Nat, NEW D, NEW x, NEW H, NEW g, Goes(g, n, D, x, H),
         NEW e, e[0] = x, \A k \in 1 .. n : e[k] = H[k][e[k-1]]
  PROVE  \A k \in 0 .. n : e[k] = g[k] /\ e[k] \in D
<1> DEFINE S == {k \in 0 .. n : e[k] = g[k]}
<1>1. 0 \in S
  BY DEF Goes
<1>2. ASSUME NEW k \in 1 .. n, k-1 \in S PROVE k \in S
  BY <1>2 DEF Goes
<1>3. \A k \in 0 .. n : k \in S
  <2> HIDE DEF S
  <2> QED  BY <1>1, <1>2, Upward
<1> QED  BY <1>3 DEF Goes

-----------------------------------------------------------------------------
(* Sums *)

SumsTo(f, s) ==
  f \in [0 .. Len(s) -> Int] /\ f[0] = 0 /\ \A k \in 1 .. Len(s) : f[k] = f[k-1] + s[k]

LEMMA TotalSteps ==
  ASSUME NEW s \in Seq(Int)
  PROVE  \E f : SumsTo(f, s) /\ Total(s) = f[Len(s)]
<1> DEFINE n == Len(s)
           Eq(f) == f = [i \in 0 .. n |-> IF i = 0 THEN 0 ELSE f[i - 1] + s[i]]
           D == Int
           H == [k \in 1 .. n |-> [y \in Int |-> y + s[k]]]
           sum == CHOOSE f : Eq(f)
<1>1. n \in Nat /\ \A k \in 1 .. n : s[k] \in Int
  OBVIOUS
<1>2. \A k \in 1 .. n : \A y \in Int : H[k][y] = y + s[k] /\ y + s[k] \in Int
  BY <1>1
<1>3. PICK g : Goes(g, n, D, 0, H)
  <2>1. 0 \in D /\ \A k \in 1 .. n : H[k] \in [D -> D]
    BY <1>2
  <2> HIDE DEF H, D
  <2> QED  BY <1>1, <2>1, Iteration
<1> HIDE DEF H
<1>4. SumsTo(g, s)
  <2>1. g \in [0 .. n -> Int] /\ g[0] = 0
    BY <1>3 DEF Goes
  <2>2. ASSUME NEW k \in 1 .. n PROVE g[k] = g[k-1] + s[k]
    <3>1. k-1 \in 0 .. n /\ g[k-1] \in Int
      BY <1>1, <2>1
    <3> QED  BY <1>2, <1>3, <3>1 DEF Goes
  <2> QED  BY <2>1, <2>2 DEF SumsTo
<1>5. Eq(g)
  <2>1. \A i \in 0 .. n : g[i] = IF i = 0 THEN 0 ELSE g[i - 1] + s[i]
    BY <1>1, <1>4 DEF SumsTo
  <2> QED  BY <1>4, <2>1 DEF SumsTo
<1>6. Eq(sum)
  BY <1>5
<1>7. Total(s) = sum[n]
  BY DEF Total
<1>8. SumsTo(sum, s)
  <2> HIDE DEF sum
  <2>1. sum[0] = 0 /\ \A k \in 1 .. n : sum[k] = sum[k-1] + s[k]
    BY <1>1, <1>6
  <2> DEFINE S == {k \in 0 .. n : sum[k] \in Int}
  <2>2. 0 \in S
    BY <1>1, <2>1
  <2>3. ASSUME NEW k \in 1 .. n, k-1 \in S PROVE k \in S
    BY <1>1, <2>1, <2>3
  <2>4. \A k \in 0 .. n : k \in S
    <3> HIDE DEF S
    <3> QED  BY <1>1, <2>2, <2>3, Upward
  <2> QED  BY <1>6, <2>1, <2>4 DEF SumsTo
<1> QED  BY <1>7, <1>8

LEMMA TotalInt == ASSUME NEW s \in Seq(Int) PROVE Total(s) \in Int
BY TotalSteps DEF SumsTo

LEMMA TotalSum ==
  ASSUME NEW s \in Seq(Int), NEW t \in Seq(Int), NEW u \in Seq(Int), Len(s) = Len(u), Len(t) = Len(u),
         \A i \in 1 .. Len(u) : u[i] = s[i] + t[i]
  PROVE  Total(u) = Total(s) + Total(t)
<1>1. PICK f : SumsTo(f, s) /\ Total(s) = f[Len(s)]  BY TotalSteps
<1>2. PICK g : SumsTo(g, t) /\ Total(t) = g[Len(t)]  BY TotalSteps
<1>3. PICK h : SumsTo(h, u) /\ Total(u) = h[Len(u)]  BY TotalSteps
<1> DEFINE n == Len(u)
           S == {k \in 0 .. n : h[k] = f[k] + g[k]}
<1>4. n \in Nat /\ 0 \in S
  BY <1>1, <1>2, <1>3 DEF SumsTo
<1>5. ASSUME NEW k \in 1 .. n, k-1 \in S PROVE k \in S
  <2>0. k-1 \in 0 .. Len(s) /\ k-1 \in 0 .. Len(t) /\ k \in 1 .. Len(s) /\ k \in 1 .. Len(t)
    BY <1>4
  <2>1. f[k-1] \in Int /\ g[k-1] \in Int /\ h[k-1] = f[k-1] + g[k-1]
    BY <1>1, <1>2, <1>5, <2>0 DEF SumsTo
  <2>3. s[k] \in Int /\ t[k] \in Int
    BY <2>0
  <2>2. f[k] = f[k-1] + s[k] /\ g[k] = g[k-1] + t[k] /\ h[k] = h[k-1] + u[k] /\ u[k] = s[k] + t[k]
    BY <1>1, <1>2, <1>3 DEF SumsTo
  <2> QED  BY <2>1, <2>2, <2>3
<1>6. \A k \in 0 .. n : k \in S
  <2> HIDE DEF S
  <2> QED  BY <1>4, <1>5, Upward
<1> QED  BY <1>1, <1>2, <1>3, <1>4, <1>6

LEMMA TotalZero ==
  ASSUME NEW s \in Seq(Int), \A i \in 1 .. Len(s) : s[i] = 0
  PROVE  Total(s) = 0
<1>1. PICK f : SumsTo(f, s) /\ Total(s) = f[Len(s)]  BY TotalSteps
<1> DEFINE n == Len(s)
           S == {k \in 0 .. n : f[k] = 0}
<1>2. n \in Nat /\ 0 \in S
  BY <1>1 DEF SumsTo
<1>3. ASSUME NEW k \in 1 .. n, k-1 \in S PROVE k \in S
  BY <1>1, <1>2, <1>3 DEF SumsTo
<1>4. \A k \in 0 .. n : k \in S
  <2> HIDE DEF S
  <2> QED  BY <1>2, <1>3, Upward
<1> QED  BY <1>1, <1>2, <1>4

LEMMA TotalMember ==
  ASSUME NEW s \in Seq(Nat), NEW i \in 1 .. Len(s)
  PROVE  Total(s) \in Nat /\ s[i] <= Total(s)
<1>1. s \in Seq(Int) /\ \A k \in 1 .. Len(s) : s[k] \in Nat
  OBVIOUS
<1>2. PICK f : SumsTo(f, s) /\ Total(s) = f[Len(s)]  BY <1>1, TotalSteps
<1> DEFINE n == Len(s)
           S == {k \in 0 .. n : f[k] \in Nat /\ (i <= k => s[i] <= f[k])}
<1>3. n \in Nat /\ 0 \in S
  BY <1>2 DEF SumsTo
<1>4. ASSUME NEW k \in 1 .. n, k-1 \in S PROVE k \in S
  <2>1. f[k-1] \in Nat /\ (i <= k-1 => s[i] <= f[k-1]) /\ f[k] = f[k-1] + s[k] /\ s[k] \in Nat
    BY <1>1, <1>2, <1>4 DEF SumsTo
  <2>2. i <= k => i = k \/ i <= k-1
    OBVIOUS
  <2> QED  BY <1>1, <2>1, <2>2
<1>5. \A k \in 0 .. n : k \in S
  <2> HIDE DEF S
  <2> QED  BY <1>3, <1>4, Upward
<1> QED  BY <1>2, <1>3, <1>5

LEMMA TotalNat == ASSUME NEW s \in Seq(Nat) PROVE Total(s) \in Nat
<1>1. s \in Seq(Int)
  OBVIOUS
<1>2. CASE Len(s) = 0
  <2>1. \A i \in 1 .. Len(s) : s[i] = 0
    BY <1>2
  <2> QED  BY <1>1, <2>1, TotalZero
<1>3. CASE Len(s) # 0
  <2>1. 1 \in 1 .. Len(s)
    BY <1>3
  <2> QED  BY <2>1, TotalMember
<1> QED  BY <1>2, <1>3

-----------------------------------------------------------------------------
(* Pseudo-Boolean constraints: what the constraint p says of the assignment A *)

LitSeqs == Seq(Literals)
PBs     == [lits : LitSeqs, coeffs : Seq(Nat), rhs : Int, sign : BOOLEAN]
Cards   == [lits : LitSeqs, rhs : Int]

Parts(lits, coeffs, A) == [i \in DOMAIN lits |-> IF Holds(A, lits[i]) THEN coeffs[i] ELSE 0]
Says(p, A) ==
  IF p.sign THEN Total(Parts(p.lits, p.coeffs, A)) <= p.rhs ELSE Total(Parts(p.lits, p.coeffs, A)) >= p.rhs

\* the coefficients fit an int
Fits(p) == p \in PBs /\ Len(p.lits) = Len(p.coeffs) /\ Total(p.coeffs) \in 0 .. IntMax

LEMMA PartsTyped ==
  ASSUME NEW lits \in LitSeqs, NEW coeffs \in Seq(Nat), Len(lits) = Len(coeffs), NEW A
  PROVE  /\ Parts(lits, coeffs, A) \in Seq(Nat) /\ Parts(lits, coeffs, A) \in Seq(Int)
         /\ Len(Parts(lits, coeffs, A)) = Len(lits)
         /\ DOMAIN lits = 1 .. Len(lits)
         /\ \A i \in 1 .. Len(lits) : Parts(lits, coeffs, A)[i] = IF Holds(A, lits[i]) THEN coeffs[i] ELSE 0
         /\ Total(Parts(lits, coeffs, A)) \in Nat
<1> DEFINE P == Parts(lits, coeffs, A)
<1>1. DOMAIN lits = 1 .. Len(lits) /\ Len(lits) \in Nat /\ \A i \in 1 .. Len(lits) : coeffs[i] \in Nat
  BY DEF LitSeqs
<1>2. P = [i \in 1 .. Len(lits) |-> IF Holds(A, lits[i]) THEN coeffs[i] ELSE 0]
  BY <1>1 DEF Parts
<1>3. P \in Seq(Nat) /\ P \in Seq(Int) /\ Len(P) = Len(lits)
  BY <1>1, <1>2
<1> QED  BY <1>1, <1>2, <1>3, TotalNat

LEMMA HoldsNot == ASSUME NEW l \in Literals, NEW A PROVE -l \in Literals /\ (Holds(A, -l) <=> ~ Holds(A, l))
BY DEF Literals, Holds

LEMMA SmallMod == ASSUME NEW m \in Nat, NEW y \in 0 .. m - 1 PROVE y % m = y
OBVIOUS

LEMMA ToIntFits == ASSUME NEW x \in 0 .. IntMax PROVE ToInt(x) = x
<1> DEFINE y == x + IntMax + 1
           m == UIntMax + 1
<1>1. IntMax \in Nat
  BY IntMaxAssumption
<1>2. m \in Nat /\ y \in 0 .. m - 1 /\ y - (IntMax + 1) = x
  BY <1>1 DEF UIntMax
<1>3. ToInt(x) = (y % m) - (IntMax + 1)
  BY DEF ToInt
<1> HIDE DEF y, m
<1>4. y % m = y
  BY <1>2, SmallMod
<1> QED  BY <1>2, <1>3, <1>4

LEMMA PartsNot ==
  ASSUME NEW lits \in LitSeqs, NEW neg \in LitSeqs, NEW coeffs \in Seq(Nat), NEW A,
         Len(lits) = Len(coeffs), Len(neg) = Len(coeffs), \A i \in 1 .. Len(coeffs) : neg[i] = -lits[i]
  PROVE  /\ Total(coeffs) = Total(Parts(lits, coeffs, A)) + Total(Parts(neg, coeffs, A))
         /\ Total(Parts(lits, coeffs, A)) \in Nat /\ Total(Parts(neg, coeffs, A)) \in Nat
<1> DEFINE a == Parts(lits, coeffs, A)
           b == Parts(neg, coeffs, A)
           n == Len(coeffs)
<1>1. /\ a \in Seq(Nat) /\ a \in Seq(Int) /\ Len(a) = n /\ Total(a) \in Nat
      /\ \A i \in 1 .. n : a[i] = IF Holds(A, lits[i]) THEN coeffs[i] ELSE 0
  BY PartsTyped
<1>2. /\ b \in Seq(Nat) /\ b \in Seq(Int) /\ Len(b) = n /\ Total(b) \in Nat
      /\ \A i \in 1 .. n : b[i] = IF Holds(A, neg[i]) THEN coeffs[i] ELSE 0
  BY PartsTyped
<1> HIDE DEF a, b
<1>3. n \in Nat /\ coeffs \in Seq(Int) /\ \A i \in 1 .. n : coeffs[i] \in Nat /\ lits[i] \in Literals
  BY DEF LitSeqs
<1>4. \A i \in 1 .. n : Holds(A, neg[i]) <=> ~ Holds(A, lits[i])
  BY <1>3, HoldsNot
<1>5. \A i \in 1 .. n : coeffs[i] = a[i] + b[i]
  BY <1>1, <1>2, <1>3, <1>4
<1>6. Total(coeffs) = Total(a) + Total(b)
  BY <1>1, <1>2, <1>3, <1>5, TotalSum
<1> QED  BY <1>1, <1>2, <1>6 DEF a, b

(* changing the sign of all literals, of the right-hand side and of the     *)
(* direction changes nothing                                                *)
LEMMA ChangeSignSays ==
  ASSUME NEW p, Fits(p)
  PROVE  /\ Fits(ChangeSign(p))
         /\ ChangeSign(p).coeffs = p.coeffs /\ ChangeSign(p).sign = ~p.sign
         /\ \A A : Says(ChangeSign(p), A) <=> Says(p, A)
<1> DEFINE q == ChangeSign(p)
           neg == [i \in DOMAIN p.lits |-> -p.lits[i]]
<1>1. /\ p = [lits |-> p.lits, coeffs |-> p.coeffs, rhs |-> p.rhs, sign |-> p.sign]
      /\ p.lits \in LitSeqs /\ p.coeffs \in Seq(Nat) /\ p.rhs \in Int /\ p.sign \in BOOLEAN
      /\ Len(p.lits) = Len(p.coeffs) /\ Total(p.coeffs) \in 0 .. IntMax
  BY DEF Fits, PBs
<1>2. ToInt(Total(p.coeffs)) = Total(p.coeffs) /\ IntMax \in Nat
  BY <1>1, ToIntFits, IntMaxAssumption
<1>3. \A i \in DOMAIN p.lits : p.lits[i] \in Literals
  BY <1>1 DEF LitSeqs
<1>4. DOMAIN p.lits = 1 .. Len(p.coeffs) /\ Len(p.coeffs) \in Nat
  BY <1>1 DEF LitSeqs
<1>5. neg \in LitSeqs /\ Len(neg) = Len(p.coeffs) /\ \A i \in 1 .. Len(p.coeffs) : neg[i] = -p.lits[i]
  <2>1. \A i \in 1 .. Len(p.coeffs) : -p.lits[i] \in Literals
    BY <1>3, <1>4, HoldsNot
  <2>2. neg = [i \in 1 .. Len(p.coeffs) |-> -p.lits[i]]
    BY <1>4
  <2> HIDE DEF neg
  <2> QED  BY <1>4, <2>1, <2>2 DEF LitSeqs
<1>6. q = [lits |-> neg, coeffs |-> p.coeffs, rhs |-> Total(p.coeffs) - p.rhs, sign |-> ~p.sign]
  <2> HIDE DEF neg
  <2>1. q = [p EXCEPT !.lits = neg, !.rhs = Total(p.coeffs) - p.rhs, !.sign = ~p.sign]
    BY <1>2 DEF ChangeSign, neg
  <2> QED  BY <1>1, <2>1
<1> HIDE DEF neg, q
<1>7. q.lits = neg /\ q.coeffs = p.coeffs /\ q.rhs = Total(p.coeffs) - p.rhs /\ q.sign = ~p.sign
  BY <1>6
<1>8. Fits(q)
  <2>1. Total(p.coeffs) - p.rhs \in Int /\ (~p.sign) \in BOOLEAN
    BY <1>1, <1>2
  <2>2. q \in PBs
    BY <1>1, <1>5, <1>6, <2>1 DEF PBs
  <2> QED  BY <1>1, <1>5, <1>7, <2>2 DEF Fits
<1>9. ASSUME NEW A PROVE Says(q, A) <=> Says(p, A)
  <2> DEFINE a == Total(Parts(p.lits, p.coeffs, A))
             b == Total(Parts(neg, p.coeffs, A))
  <2>1. Total(p.coeffs) = a + b /\ a \in Nat /\ b \in Nat
    BY <1>1, <1>5, PartsNot
  <2> HIDE DEF a, b
  <2>2. (b <= Total(p.coeffs) - p.rhs <=> a >= p.rhs) /\ (b >= Total(p.coeffs) - p.rhs <=> a <= p.rhs)
    BY <1>1, <2>1
  <2> QED  BY <1>1, <1>7, <2>2 DEF Says, a, b
<1> QED  BY <1>7, <1>8, <1>9 DEF q

-----------------------------------------------------------------------------
(* The parsed formula *)

TypedFormula(f) ==
  /\ f = [hards |-> f.hards, pbs |-> f.pbs, cards |-> f.cards, objs |-> f.objs]
  /\ f.hards \in Seq(LitSeqs) /\ f.pbs \in Seq(PBs) /\ f.cards \in Seq(Cards)

LEMMA AppendLast ==
  ASSUME NEW S, NEW s \in Seq(S), NEW e \in S
  PROVE  /\ Append(s, e) \in Seq(S) /\ DOMAIN s = 1 .. Len(s)
         /\ DOMAIN Append(s, e) = DOMAIN s \cup {Len(s) + 1}
         /\ Append(s, e)[Len(s) + 1] = e /\ \A i \in DOMAIN s : Append(s, e)[i] = s[i]
OBVIOUS

LEMMA AddHard ==
  ASSUME NEW f, TypedFormula(f), NEW c \in LitSeqs, NEW A
  PROVE  LET g == [f EXCEPT !.hards = Append(@, c)]
         IN  TypedFormula(g) /\ (Meets(g, A) <=> Meets(f, A) /\ SomeTrue(c, A))
<1> DEFINE g == [f EXCEPT !.hards = Append(@, c)]
<1>0. f = [hards |-> f.hards, pbs |-> f.pbs, cards |-> f.cards, objs |-> f.objs]
  BY DEF TypedFormula
<1>1. g = [hards |-> Append(f.hards, c), pbs |-> f.pbs, cards |-> f.cards, objs |-> f.objs]
  BY <1>0
<1> HIDE DEF g
<1>2. g.hards = Append(f.hards, c) /\ g.pbs = f.pbs /\ g.cards = f.cards /\ g.objs = f.objs
  BY <1>1
<1>3. f.hards \in Seq(LitSeqs)
  BY DEF TypedFormula
<1>4. g.hards \in Seq(LitSeqs) /\ DOMAIN g.hards = DOMAIN f.hards \cup {Len(f.hards) + 1}
      /\ g.hards[Len(f.hards) + 1] = c /\ \A i \in DOMAIN f.hards : g.hards[i] = f.hards[i]
  BY <1>2, <1>3, AppendLast
<1>5. TypedFormula(g)
  BY <1>1, <1>2, <1>4 DEF TypedFormula
<1>6. (\A i \in DOMAIN g.hards : SomeTrue(g.hards[i], A))
      <=> (\A i \in DOMAIN f.hards : SomeTrue(f.hards[i], A)) /\ SomeTrue(c, A)
  BY <1>4
<1> QED  BY <1>2, <1>5, <1>6 DEF Meets, g

LEMMA AddPB ==
  ASSUME NEW f, TypedFormula(f), NEW p \in PBs, NEW A
  PROVE  LET g == [f EXCEPT !.pbs = Append(@, p)]
         IN  TypedFormula(g) /\ (Meets(g, A) <=> Meets(f, A) /\ AtMostHolds(p.lits, p.coeffs, p.rhs, A))
<1> DEFINE g == [f EXCEPT !.pbs = Append(@, p)]
           M(q) == AtMostHolds(q.lits, q.coeffs, q.rhs, A)
<1>0. f = [hards |-> f.hards, pbs |-> f.pbs, cards |-> f.cards, objs |-> f.objs]
  BY DEF TypedFormula
<1>1. g = [hards |-> f.hards, pbs |-> Append(f.pbs, p), cards |-> f.cards, objs |-> f.objs]
  BY <1>0
<1> HIDE DEF g
<1>2. g.pbs = Append(f.pbs, p) /\ g.hards = f.hards /\ g.cards = f.cards /\ g.objs = f.objs
  BY <1>1
<1>3. f.pbs \in Seq(PBs)
  BY DEF TypedFormula
<1>4. g.pbs \in Seq(PBs) /\ DOMAIN g.pbs = DOMAIN f.pbs \cup {Len(f.pbs) + 1}
      /\ g.pbs[Len(f.pbs) + 1] = p /\ \A i \in DOMAIN f.pbs : g.pbs[i] = f.pbs[i]
  BY <1>2, <1>3, AppendLast
<1>5. TypedFormula(g)
  BY <1>1, <1>2, <1>4 DEF TypedFormula
<1>6. (\A i \in DOMAIN g.pbs : M(g.pbs[i])) <=> (\A i \in DOMAIN f.pbs : M(f.pbs[i])) /\ M(p)
  <2> HIDE DEF M
  <2> QED  BY <1>4
<1> QED  BY <1>2, <1>5, <1>6 DEF Meets, g

LEMMA AddCard ==
  ASSUME NEW f, TypedFormula(f), NEW p \in Cards, NEW A
  PROVE  LET g == [f EXCEPT !.cards = Append(@, p)]
         IN  /\ TypedFormula(g)
             /\ Meets(g, A) <=> Meets(f, A) /\ AtMostHolds(p.lits, [j \in DOMAIN p.lits |-> 1], p.rhs, A)
<1> DEFINE g == [f EXCEPT !.cards = Append(@, p)]
           M(q) == AtMostHolds(q.lits, [j \in DOMAIN q.lits |-> 1], q.rhs, A)
<1>0. f = [hards |-> f.hards, pbs |-> f.pbs, cards |-> f.cards, objs |-> f.objs]
  BY DEF TypedFormula
<1>1. g = [hards |-> f.hards, pbs |-> f.pbs, cards |-> Append(f.cards, p), objs |-> f.objs]
  BY <1>0
<1> HIDE DEF g
<1>2. g.cards = Append(f.cards, p) /\ g.hards = f.hards /\ g.pbs = f.pbs /\ g.objs = f.objs
  BY <1>1
<1>3. f.cards \in Seq(Cards)
  BY DEF TypedFormula
<1>4. g.cards \in Seq(Cards) /\ DOMAIN g.cards = DOMAIN f.cards \cup {Len(f.cards) + 1}
      /\ g.cards[Len(f.cards) + 1] = p /\ \A i \in DOMAIN f.cards : g.cards[i] = f.cards[i]
  BY <1>2, <1>3, AppendLast
<1>5. TypedFormula(g)
  BY <1>1, <1>2, <1>4 DEF TypedFormula
<1>6. (\A i \in DOMAIN g.cards : M(g.cards[i])) <=> (\A i \in DOMAIN f.cards : M(f.cards[i])) /\ M(p)
  <2> HIDE DEF M
  <2> QED  BY <1>4
<1> QED  BY <1>2, <1>5, <1>6 DEF Meets, g

(* A constraint whose coefficients are all 1 and whose right-hand side is 1 *)
(* is the clause of its literals.                                           *)
LEMMA ClauseSays ==
  ASSUME NEW p, Fits(p), ~p.sign, p.rhs = 1, IsCardinality(p), NEW A
  PROVE  Says(p, A) <=> SomeTrue(p.lits, A)
<1> DEFINE lits == p.lits
           a == Parts(p.lits, p.coeffs, A)
<1>1. p.lits \in LitSeqs /\ p.coeffs \in Seq(Nat) /\ Len(p.lits) = Len(p.coeffs)
  BY DEF Fits, PBs
<1>2. /\ a \in Seq(Nat) /\ a \in Seq(Int) /\ Len(a) = Len(lits) /\ DOMAIN lits = 1 .. Len(lits) /\ Total(a) \in Nat
      /\ \A i \in 1 .. Len(lits) : a[i] = IF Holds(A, lits[i]) THEN p.coeffs[i] ELSE 0
  BY <1>1, PartsTyped
<1>3. \A i \in 1 .. Len(lits) : p.coeffs[i] = 1
  BY <1>1 DEF IsCardinality
<1>4. SomeTrue(lits, A) <=> \E i \in 1 .. Len(lits) : Holds(A, lits[i])
  BY <1>2 DEF SomeTrue, ToSet
<1>5. Says(p, A) <=> Total(a) >= 1
  BY DEF Says
<1> HIDE DEF a, lits
<1>6. ASSUME NEW i \in 1 .. Len(lits), Holds(A, lits[i]) PROVE Total(a) >= 1
  <2>1. a[i] = 1 /\ i \in 1 .. Len(a)
    BY <1>2, <1>3, <1>6
  <2> QED  BY <1>2, <2>1, TotalMember
<1>7. ASSUME \A i \in 1 .. Len(lits) : ~ Holds(A, lits[i]) PROVE Total(a) = 0
  <2>1. \A i \in 1 .. Len(a) : a[i] = 0
    BY <1>2, <1>7
  <2> QED  BY <1>2, <2>1, TotalZero
<1> QED  BY <1>4, <1>5, <1>6, <1>7 DEF lits

(* The clause, cardinality or pseudo-Boolean constraint that is added says  *)
(* what the constraint says.                                                *)
LEMMA AddPBConstraintSays ==
  ASSUME NEW f, TypedFormula(f), NEW p, Fits(p)
  PROVE  /\ TypedFormula(AddPBConstraint(f, p))
         /\ \A A : Meets(AddPBConstraint(f, p), A) <=> Meets(f, A) /\ Says(p, A)
<1> DEFINE q == AtLeast(p)
           r == ChangeSign(q)
           t == AtMost(p)
<1>1. Fits(q) /\ ~q.sign /\ q.coeffs = p.coeffs /\ \A A : Says(q, A) <=> Says(p, A)
  BY ChangeSignSays DEF AtLeast, Fits, PBs
<1>2. Fits(t) /\ t.sign /\ \A A : Says(t, A) <=> Says(p, A)
  BY ChangeSignSays DEF AtMost, Fits, PBs
<1> HIDE DEF q
<1>3. Fits(r) /\ r.sign /\ r.coeffs = q.coeffs /\ \A A : Says(r, A) <=> Says(q, A)
  BY <1>1, ChangeSignSays
<1> HIDE DEF r, t
<1>4. CASE IsClause(p)
  <2>1. IsCardinality(q) /\ q.rhs = 1
    BY <1>1, <1>4 DEF IsClause, IsCardinality, q
  <2>2. q.lits \in LitSeqs
    BY <1>1 DEF Fits, PBs
  <2>3. AddPBConstraint(f, p) = [f EXCEPT !.hards = Append(@, q.lits)]
    BY <1>4 DEF AddPBConstraint, q
  <2>4. \A A : Says(q, A) <=> SomeTrue(q.lits, A)
    BY <1>1, <2>1, ClauseSays
  <2> QED  BY <1>1, <2>2, <2>3, <2>4, AddHard
<1>5. CASE ~ IsClause(p) /\ IsCardinality(p)
  <2> DEFINE c == [lits |-> r.lits, rhs |-> r.rhs]
  <2>1. r.lits \in LitSeqs /\ r.rhs \in Int /\ r.coeffs \in Seq(Nat) /\ Len(r.lits) = Len(r.coeffs)
    BY <1>3 DEF Fits, PBs
  <2>2. c \in Cards /\ c.lits = r.lits /\ c.rhs = r.rhs
    BY <2>1 DEF Cards
  <2>3. AddPBConstraint(f, p) = [f EXCEPT !.cards = Append(@, c)]
    BY <1>5 DEF AddPBConstraint, q, r
  <2>4. r.coeffs = [j \in DOMAIN r.lits |-> 1]
    <3>1. DOMAIN r.lits = DOMAIN r.coeffs
      BY <2>1 DEF LitSeqs
    <3>2. \A j \in DOMAIN r.coeffs : r.coeffs[j] = 1
      BY <1>1, <1>3, <1>5 DEF IsCardinality
    <3> QED  BY <2>1, <3>1, <3>2
  <2>5. \A A : Says(r, A) <=> AtMostHolds(c.lits, [j \in DOMAIN c.lits |-> 1], c.rhs, A)
    BY <1>3, <2>2, <2>4 DEF Says, AtMostHolds, Parts
  <2> HIDE DEF c
  <2> DEFINE g == [f EXCEPT !.cards = Append(@, c)]
  <2>6. /\ TypedFormula(g)
        /\ \A A : Meets(g, A) <=> Meets(f, A) /\ AtMostHolds(c.lits, [j \in DOMAIN c.lits |-> 1], c.rhs, A)
    BY <2>2, AddCard
  <2> HIDE DEF g
  <2> QED  BY <1>1, <1>3, <2>3, <2>5, <2>6 DEF g
<1>6. CASE ~ IsClause(p) /\ ~ IsCardinality(p)
  <2>1. AddPBConstraint(f, p) = [f EXCEPT !.pbs = Append(@, t)]
    BY <1>6 DEF AddPBConstraint, t
  <2>2. t \in PBs
    BY <1>2 DEF Fits
  <2>3. \A A : Says(t, A) <=> AtMostHolds(t.lits, t.coeffs, t.rhs, A)
    BY <1>2 DEF Says, AtMostHolds, Parts
  <2> DEFINE g == [f EXCEPT !.pbs = Append(@, t)]
  <2>4. TypedFormula(g) /\ \A A : Meets(g, A) <=> Meets(f, A) /\ AtMostHolds(t.lits, t.coeffs, t.rhs, A)
    BY <2>2, AddPB
  <2> HIDE DEF g
  <2> QED  BY <1>2, <2>1, <2>3, <2>4 DEF g
<1> QED  BY <1>4, <1>5, <1>6

-----------------------------------------------------------------------------
(* The names *)

Names == Nat \ {0}
Terms == Seq([c : Int, l : Literals])

Distinct(ns)     == \A i, j \in DOMAIN ns : ns[i] = ns[j] => i = j
Extends(ms, ns)  == Len(ns) <= Len(ms) /\ \A i \in 1 .. Len(ns) : ms[i] = ns[i]
Knows(ns, terms) == \A i \in 1 .. Len(terms) : AbsLit(terms[i].l) \in Range(ns)

LEMMA TermsTyped ==
  ASSUME NEW terms \in Terms
  PROVE  /\ Len(terms) \in Nat /\ DOMAIN terms = 1 .. Len(terms)
         /\ \A i \in 1 .. Len(terms) : terms[i].c \in Int /\ terms[i].l \in Literals
<1> DEFINE R == [c : Int, l : Literals]
<1>1. terms \in Seq(R)
  BY DEF Terms
<1>2. \A r \in R : r.c \in Int /\ r.l \in Literals
  OBVIOUS
<1> HIDE DEF R
<1>3. Len(terms) \in Nat /\ DOMAIN terms = 1 .. Len(terms) /\ \A i \in 1 .. Len(terms) : terms[i] \in R
  BY <1>1
<1> QED  BY <1>2, <1>3

LEMMA GetVariableIDExtends ==
  ASSUME NEW ns \in Seq(Names), Distinct(ns), NEW v \in Names
  PROVE  LET ms == GetVariableID(ns, v)
         IN  ms \in Seq(Names) /\ Distinct(ms) /\ Extends(ms, ns) /\ v \in Range(ms)
<1>1. CASE v \in Range(ns)
  BY <1>1 DEF GetVariableID, Extends
<1>2. CASE v \notin Range(ns)
  <2> DEFINE ms == Append(ns, v)
  <2>1. ms \in Seq(Names) /\ DOMAIN ns = 1 .. Len(ns) /\ DOMAIN ms = DOMAIN ns \cup {Len(ns) + 1}
        /\ ms[Len(ns) + 1] = v /\ Len(ms) = Len(ns) + 1 /\ Len(ns) \in Nat
        /\ \A i \in DOMAIN ns : ms[i] = ns[i]
    OBVIOUS
  <2> HIDE DEF ms
  <2>2. Distinct(ms)
    BY <1>2, <2>1 DEF Distinct, Range
  <2>3. Extends(ms, ns) /\ v \in Range(ms)
    BY <2>1 DEF Extends, Range
  <2> QED  BY <1>2, <2>1, <2>2, <2>3 DEF GetVariableID, ms
<1> QED  BY <1>1, <1>2

LEMMA ExtendsRange ==
  ASSUME NEW ns \in Seq(Names), NEW ms \in Seq(Names), Extends(ms, ns)
  PROVE  Range(ns) \subseteq Range(ms)
<1>1. DOMAIN ns \subseteq DOMAIN ms /\ \A i \in DOMAIN ns : ms[i] = ns[i]
  BY DEF Extends
<1> QED  BY <1>1 DEF Range

(* After a line all its names are known, and the old ones keep their index. *)
LEMMA KnownNames ==
  ASSUME NEW ns \in Seq(Names), Distinct(ns), NEW terms \in Terms
  PROVE  LET ms == Known(ns, terms)
         IN  ms \in Seq(Names) /\ Distinct(ms) /\ Extends(ms, ns) /\ Knows(ms, terms)
<1> DEFINE n == Len(terms)
           Eq(f) == f = [i \in 0 .. n |-> IF i = 0 THEN ns ELSE GetVariableID(f[i - 1], AbsLit(terms[i].l))]
           known == CHOOSE f : Eq(f)
           D == {ms \in Seq(Names) : Distinct(ms) /\ Extends(ms, ns)}
           v(k) == AbsLit(terms[k].l)
           H == [k \in 1 .. n |-> [ms \in D |-> GetVariableID(ms, v(k))]]
<1>1. n \in Nat /\ \A k \in 1 .. n : v(k) \in Names
  <2>1. \A k \in 1 .. n : terms[k].l \in Literals
    BY TermsTyped
  <2>2. \A l \in Literals : AbsLit(l) \in Names
    BY DEF Literals, AbsLit, Names
  <2> QED  BY <2>1, <2>2, TermsTyped
<1> HIDE DEF v
<1>2. ASSUME NEW k \in 1 .. n, NEW ms \in D
      PROVE  GetVariableID(ms, v(k)) \in D /\ Extends(GetVariableID(ms, v(k)), ms) /\ v(k) \in Range(GetVariableID(ms, v(k)))
  <2> DEFINE g == GetVariableID(ms, v(k))
  <2>1. g \in Seq(Names) /\ Distinct(g) /\ Extends(g, ms) /\ v(k) \in Range(g)
    BY <1>1, GetVariableIDExtends
  <2> HIDE DEF g
  <2>2. Extends(g, ns)
    BY <2>1 DEF Extends
  <2> QED  BY <2>1, <2>2 DEF g
<1>3. \A k \in 1 .. n : \A ms \in D : H[k][ms] = GetVariableID(ms, v(k))
  OBVIOUS
<1>4. ns \in D
  BY DEF Extends
<1>5. PICK g : Goes(g, n, D, ns, H)
  <2>1. \A k \in 1 .. n : H[k] \in [D -> D]
    BY <1>2
  <2> HIDE DEF H, D
  <2> QED  BY <1>1, <1>4, <2>1, Iteration
<1> HIDE DEF H, D
<1>6. \A k \in 1 .. n : g[k-1] \in D /\ g[k] = GetVariableID(g[k-1], v(k))
  BY <1>1, <1>3, <1>5 DEF Goes
<1>7. Eq(g)
  <2>1. \A i \in 0 .. n : g[i] = IF i = 0 THEN ns ELSE GetVariableID(g[i - 1], v(i))
    BY <1>1, <1>5, <1>6 DEF Goes
  <2> QED  BY <1>5, <2>1 DEF Goes, v
<1>8. Eq(known)
  BY <1>7
<1>9. Known(ns, terms) = known[n]
  BY DEF Known
<1> HIDE DEF known
<1>10. known[0] = ns /\ \A k \in 1 .. n : known[k] = GetVariableID(known[k-1], v(k))
  BY <1>1, <1>8 DEF v
<1> DEFINE S == {k \in 0 .. n : known[k] \in D /\ \A i \in 1 .. k : v(i) \in Range(known[k])}
<1>11. 0 \in S
  BY <1>1, <1>4, <1>10
<1>12. ASSUME NEW k \in 1 .. n, k-1 \in S PROVE k \in S
  <2>1. known[k-1] \in D /\ \A i \in 1 .. k-1 : v(i) \in Range(known[k-1])
    BY <1>12
  <2>2. known[k] \in D /\ Extends(known[k], known[k-1]) /\ v(k) \in Range(known[k])
    BY <1>2, <1>10, <2>1
  <2>3. Range(known[k-1]) \subseteq Range(known[k])
    BY <2>1, <2>2, ExtendsRange DEF D
  <2>4. \A i \in 1 .. k : i = k \/ i \in 1 .. k-1
    OBVIOUS
  <2> QED  BY <2>1, <2>2, <2>3, <2>4
<1>13. \A k \in 0 .. n : k \in S
  <2> HIDE DEF S
  <2> QED  BY <1>1, <1>11, <1>12, Upward
<1>14. known[n] \in D /\ \A i \in 1 .. n : v(i) \in Range(known[n])
  BY <1>1, <1>13
<1> QED  BY <1>9, <1>14 DEF D, v, Knows

LEMMA LitOfKnown ==
  ASSUME NEW ns \in Seq(Names), NEW l \in Literals, AbsLit(l) \in Range(ns)
  PROVE  LitOf(ns, l) \in Literals
<1>1. PICK i \in DOMAIN ns : ns[i] = AbsLit(l)
  BY DEF Range
<1>2. Index(ns, AbsLit(l)) \in DOMAIN ns
  BY <1>1 DEF Index
<1>3. Index(ns, AbsLit(l)) \in Nat \ {0}
  BY <1>2
<1> QED  BY <1>3 DEF LitOf, Literals, AbsLit

LEMMA LitOfSame ==
  ASSUME NEW ns \in Seq(Names), NEW ms \in Seq(Names), Distinct(ms), Extends(ms, ns),
         NEW l \in Literals, AbsLit(l) \in Range(ns)
  PROVE  LitOf(ms, l) = LitOf(ns, l)
<1> DEFINE v == AbsLit(l)
           i == Index(ns, v)
           j == Index(ms, v)
<1>1. DOMAIN ns = 1 .. Len(ns) /\ DOMAIN ns \subseteq DOMAIN ms /\ \A k \in DOMAIN ns : ms[k] = ns[k]
  BY DEF Extends
<1>2. i \in DOMAIN ns /\ ns[i] = v
  BY DEF Index, Range
<1>3. j \in DOMAIN ms /\ ms[j] = v
  BY <1>1, <1>2 DEF Index
<1>4. i = j
  <2> HIDE DEF i, j
  <2> QED  BY <1>1, <1>2, <1>3 DEF Distinct
<1> QED  BY <1>4 DEF LitOf, AbsLit, Literals

-----------------------------------------------------------------------------
(* The lines of an OPB file *)

\* the sum of a line, with the names ns
Weighs(ns, terms, A) ==
  Total([i \in DOMAIN terms |-> IF Holds(A, LitOf(ns, terms[i].l)) THEN terms[i].c ELSE 0])

LEMMA WeighsInt == ASSUME NEW ns, NEW terms \in Terms, NEW A PROVE Weighs(ns, terms, A) \in Int
<1> DEFINE s == [i \in DOMAIN terms |-> IF Holds(A, LitOf(ns, terms[i].l)) THEN terms[i].c ELSE 0]
<1>1. DOMAIN terms = 1 .. Len(terms) /\ Len(terms) \in Nat /\ \A i \in DOMAIN terms : terms[i].c \in Int
  BY TermsTyped
<1>2. s \in Seq(Int)
  BY <1>1
<1> HIDE DEF s
<1>3. Total(s) \in Int
  BY <1>2, TotalInt
<1> QED  BY <1>3 DEF Weighs, s

LEMMA WeighsSame ==
  ASSUME NEW ns \in Seq(Names), NEW ms \in Seq(Names), Distinct(ms), Extends(ms, ns),
         NEW terms \in Terms, Knows(ns, terms), NEW A
  PROVE  Weighs(ms, terms, A) = Weighs(ns, terms, A)
<1>1. DOMAIN terms = 1 .. Len(terms) /\ \A i \in DOMAIN terms : terms[i].l \in Literals
  BY TermsTyped
<1>2. \A i \in DOMAIN terms : LitOf(ms, terms[i].l) = LitOf(ns, terms[i].l)
  BY <1>1, LitOfSame DEF Knows
<1>3. [i \in DOMAIN terms |-> IF Holds(A, LitOf(ms, terms[i].l)) THEN terms[i].c ELSE 0]
      = [i \in DOMAIN terms |-> IF Holds(A, LitOf(ns, terms[i].l)) THEN terms[i].c ELSE 0]
  BY <1>2
<1> QED  BY <1>3 DEF Weighs

(* The constraint that is parsed from a line says what the line says, in    *)
(* the direction of its sign: a product with a negative coefficient is that *)
(* of the other literal, less a constant.                                   *)
LEMMA ParsedSays ==
  ASSUME NEW ns \in Seq(Names), NEW line, line.terms \in Terms, line.rhs \in Int, Knows(ns, line.terms),
         Total([j \in DOMAIN line.terms |-> AbsLit(line.terms[j].c)]) <= IntMax, NEW b \in BOOLEAN
  PROVE  LET p == [Parsed(ns, line) EXCEPT !.sign = b]
         IN  /\ Fits(p)
             /\ \A A : Says(p, A) <=> IF b THEN Weighs(ns, line.terms, A) <= line.rhs
                                           ELSE Weighs(ns, line.terms, A) >= line.rhs
<1> DEFINE terms == line.terms
           n == Len(terms)
           ps == Products(ns, terms, 1)
           lits == Field(ps, "lit")
           coeffs == Field(ps, "coeff")
           shifts == Field(ps, "shift")
           p == [Parsed(ns, line) EXCEPT !.sign = b]
<1>1. n \in Nat /\ DOMAIN terms = 1 .. n /\ \A i \in 1 .. n : terms[i].c \in Int /\ terms[i].l \in Literals
  BY TermsTyped
<1>2. \A i \in 1 .. n : LitOf(ns, terms[i].l) \in Literals
  BY <1>1, LitOfKnown DEF Knows
<1> DEFINE l(i) == LitOf(ns, terms[i].l)
           c(i) == terms[i].c
<1>3. ps = [i \in 1 .. n |-> AddProduct(l(i), c(i))]
  BY <1>1 DEF Products
<1> HIDE DEF ps, n, terms
<1>4. \A i \in 1 .. n : c(i) \in Int /\ l(i) \in Literals
  BY <1>1, <1>2
<1> HIDE DEF l, c
<1>5. /\ lits = [i \in 1 .. n |-> IF c(i) >= 0 THEN l(i) ELSE -l(i)]
      /\ coeffs = [i \in 1 .. n |-> AbsLit(c(i))]
      /\ shifts = [i \in 1 .. n |-> IF c(i) >= 0 THEN 0 ELSE -c(i)]
  BY <1>3, <1>4 DEF Field, AddProduct, AbsLit
<1>6. \A i \in 1 .. n : AbsLit(c(i)) \in Nat /\ -l(i) \in Literals /\ -c(i) \in Int
  <2>1. \A x \in Int : AbsLit(x) \in Nat /\ -x \in Int
    BY DEF AbsLit
  <2>2. \A x \in Literals : -x \in Literals
    BY HoldsNot
  <2> QED  BY <1>4, <2>1, <2>2
<1>7. lits \in LitSeqs /\ coeffs \in Seq(Nat) /\ shifts \in Seq(Int) /\ Len(lits) = n /\ Len(coeffs) = n /\ Len(shifts) = n
  <2> HIDE DEF lits, coeffs, shifts
  <2> QED  BY <1>1, <1>4, <1>5, <1>6 DEF LitSeqs
<1>8. p = [lits |-> lits, coeffs |-> coeffs, rhs |-> line.rhs + Total(shifts), sign |-> b]
  <2>1. Parsed(ns, line) = [lits |-> lits, coeffs |-> coeffs, rhs |-> line.rhs + Total(shifts), sign |-> line.op = "<="]
    BY DEF Parsed, ps, terms
  <2> HIDE DEF lits, coeffs, shifts
  <2> QED  BY <2>1
<1> HIDE DEF lits, coeffs, shifts, p
<1>9. Total(shifts) \in Int
  BY <1>7, TotalInt
<1>10. Fits(p)
  <2>1. Total(coeffs) \in Nat
    BY <1>7, TotalNat
  <2>2. coeffs = [j \in DOMAIN line.terms |-> AbsLit(line.terms[j].c)]
    BY <1>1, <1>5 DEF c, terms
  <2>3. Total(coeffs) \in 0 .. IntMax
    BY <2>1, <2>2, IntMaxAssumption
  <2> QED  BY <1>7, <1>8, <1>9, <2>3 DEF Fits, PBs
<1>11. ASSUME NEW A PROVE Total(Parts(lits, coeffs, A)) = Weighs(ns, terms, A) + Total(shifts)
  <2> DEFINE s == Parts(lits, coeffs, A)
             w == [i \in DOMAIN terms |-> IF Holds(A, LitOf(ns, terms[i].l)) THEN terms[i].c ELSE 0]
  <2>1. s \in Seq(Int) /\ Len(s) = n /\ \A i \in 1 .. n : s[i] = IF Holds(A, lits[i]) THEN coeffs[i] ELSE 0
    BY <1>7, PartsTyped
  <2>2. w = [i \in 1 .. n |-> IF Holds(A, l(i)) THEN c(i) ELSE 0]
    BY <1>1 DEF l, c
  <2>3. w \in Seq(Int) /\ Len(w) = n
    <3> HIDE DEF w
    <3> QED  BY <1>1, <1>4, <2>2
  <2> HIDE DEF s, w
  <2>4. ASSUME NEW i \in 1 .. n PROVE s[i] = w[i] + shifts[i]
    <3>1. Holds(A, -l(i)) <=> ~ Holds(A, l(i))
      BY <1>4, HoldsNot
    <3>2. c(i) \in Int
      BY <1>4
    <3>3. s[i] = (IF Holds(A, lits[i]) THEN AbsLit(c(i)) ELSE 0) /\ lits[i] = IF c(i) >= 0 THEN l(i) ELSE -l(i)
      BY <1>5, <2>1
    <3>4. w[i] = (IF Holds(A, l(i)) THEN c(i) ELSE 0) /\ shifts[i] = IF c(i) >= 0 THEN 0 ELSE -c(i)
      BY <1>5, <2>2
    <3>5. CASE c(i) >= 0
      BY <3>2, <3>3, <3>4, <3>5 DEF AbsLit
    <3>6. CASE ~ (c(i) >= 0)
      BY <3>1, <3>2, <3>3, <3>4, <3>6 DEF AbsLit
    <3> QED  BY <3>5, <3>6
  <2>5. Total(s) = Total(w) + Total(shifts)
    BY <1>7, <2>1, <2>3, <2>4, TotalSum
  <2> QED  BY <2>5 DEF s, w, Weighs
<1>12. ASSUME NEW A
       PROVE  Says(p, A) <=> IF b THEN Weighs(ns, terms, A) <= line.rhs ELSE Weighs(ns, terms, A) >= line.rhs
  <2>1. Weighs(ns, terms, A) \in Int
    BY WeighsInt DEF terms
  <2>2. p.lits = lits /\ p.coeffs = coeffs /\ p.rhs = line.rhs + Total(shifts) /\ p.sign = b
    BY <1>8
  <2>3. Says(p, A) <=> IF b THEN Weighs(ns, terms, A) + Total(shifts) <= line.rhs + Total(shifts)
                            ELSE Weighs(ns, terms, A) + Total(shifts) >= line.rhs + Total(shifts)
    BY <1>11, <2>2 DEF Says
  <2> QED  BY <1>9, <2>1, <2>3
<1> QED  BY <1>10, <1>12 DEF p, terms

Compares == {">=", "<=", "="}

\* what a line says when its names have the indices of ns
LineSays(ns, line, A) ==
  CASE line.op = ">=" -> Weighs(ns, line.terms, A) >= line.rhs
    [] line.op = "<=" -> Weighs(ns, line.terms, A) <= line.rhs
    [] line.op = "="  -> Weighs(ns, line.terms, A) = line.rhs
    [] OTHER          -> TRUE

LineFits(line) == Total([j \in DOMAIN line.terms |-> AbsLit(line.terms[j].c)]) <= IntMax

LEMMA ParseConstraintSays ==
  ASSUME NEW f, TypedFormula(f), NEW ns \in Seq(Names), NEW line, line.op \in Compares,
         line.terms \in Terms, line.rhs \in Int, Knows(ns, line.terms), LineFits(line)
  PROVE  /\ TypedFormula(ParseConstraint(f, ns, line))
         /\ \A A : Meets(ParseConstraint(f, ns, line), A) <=> Meets(f, A) /\ LineSays(ns, line, A)
<1> DEFINE p == Parsed(ns, line)
           lo == [p EXCEPT !.sign = FALSE]
           hi == [p EXCEPT !.sign = TRUE]
           W(A) == Weighs(ns, line.terms, A)
<1>1. Fits(lo) /\ \A A : Says(lo, A) <=> W(A) >= line.rhs
  BY ParsedSays DEF LineFits
<1>2. Fits(hi) /\ \A A : Says(hi, A) <=> W(A) <= line.rhs
  BY ParsedSays DEF LineFits
<1>3. \A A : W(A) \in Int
  BY WeighsInt
<1>4. p = [lits |-> p.lits, coeffs |-> p.coeffs, rhs |-> p.rhs, sign |-> line.op = "<="] /\ p.sign = (line.op = "<=")
  BY DEF Parsed
<1> HIDE DEF p, W
<1>5. CASE line.op = ">="
  <2>1. p = lo
    BY <1>4, <1>5
  <2>2. ParseConstraint(f, ns, line) = AddPBConstraint(f, lo)
    BY <1>5, <2>1 DEF ParseConstraint, p
  <2> HIDE DEF lo
  <2>3. \A A : LineSays(ns, line, A) <=> W(A) >= line.rhs
    BY <1>5 DEF LineSays, W
  <2> QED  BY <1>1, <2>2, <2>3, AddPBConstraintSays
<1>6. CASE line.op = "<="
  <2>1. p = hi
    BY <1>4, <1>6
  <2>2. ParseConstraint(f, ns, line) = AddPBConstraint(f, ChangeSign(hi))
    BY <1>6, <2>1 DEF ParseConstraint, p
  <2> HIDE DEF hi
  <2>3. \A A : LineSays(ns, line, A) <=> W(A) <= line.rhs
    BY <1>6 DEF LineSays, W
  <2>4. Fits(ChangeSign(hi)) /\ \A A : Says(ChangeSign(hi), A) <=> Says(hi, A)
    BY <1>2, ChangeSignSays
  <2> QED  BY <1>2, <2>2, <2>3, <2>4, AddPBConstraintSays
<1>7. CASE line.op = "="
  <2>1. p = lo
    BY <1>4, <1>7
  <2>2. ParseConstraint(f, ns, line) = AddPBConstraint(AddPBConstraint(f, lo), hi)
    BY <1>7, <2>1 DEF ParseConstraint, p
  <2> HIDE DEF hi, lo
  <2>3. \A A : LineSays(ns, line, A) <=> W(A) >= line.rhs /\ W(A) <= line.rhs
    BY <1>3, <1>7 DEF LineSays, W
  <2>4. /\ TypedFormula(AddPBConstraint(f, lo))
        /\ \A A : Meets(AddPBConstraint(f, lo), A) <=> Meets(f, A) /\ Says(lo, A)
    BY <1>1, AddPBConstraintSays
  <2> DEFINE g == AddPBConstraint(f, lo)
  <2> HIDE DEF g
  <2>5. /\ TypedFormula(AddPBConstraint(g, hi))
        /\ \A A : Meets(AddPBConstraint(g, hi), A) <=> Meets(g, A) /\ Says(hi, A)
    BY <1>2, <2>4, AddPBConstraintSays DEF g
  <2> QED  BY <1>1, <1>2, <2>2, <2>3, <2>4, <2>5 DEF g
<1> QED  BY <1>5, <1>6, <1>7 DEF Compares

LEMMA LineSaysSame ==
  ASSUME NEW ns \in Seq(Names), NEW ms \in Seq(Names), Distinct(ms), Extends(ms, ns),
         NEW line, line.terms \in Terms, Knows(ns, line.terms), NEW A
  PROVE  LineSays(ms, line, A) <=> LineSays(ns, line, A)
BY WeighsSame DEF LineSays

LEMMA KnowsMore ==
  ASSUME NEW ns \in Seq(Names), NEW ms \in Seq(Names), Extends(ms, ns), NEW terms, Knows(ns, terms)
  PROVE  Knows(ms, terms)
BY ExtendsRange DEF Knows

-----------------------------------------------------------------------------
(* The parser: when it has read n lines it knows their names, and the       *)
(* formula says what they say.                                              *)

\* the lines that are read
Read == IF pc = "parse" THEN pos - 1 ELSE Len(input.file)

ParseInv ==
  /\ input \in Inputs
  /\ pos \in Nat \ {0}
  /\ names \in Seq(Names) /\ Distinct(names)
  /\ NumbersFit => TypedFormula(formula)
  /\ pc = "parse" => pos - 1 <= Len(input.file)
  /\ input.format = "opb" => \A i \in 1 .. Read : Knows(names, input.file[i].terms)
  /\ pc \in {"parse", "hard"} /\ NumbersFit =>
       \A A : Meets(formula, A) <=> \A i \in 1 .. Read : LineHolds(input.file[i], A)

LEMMA OpbLineHolds ==
  ASSUME input.format = "opb", NEW line, line.op \in Compares \cup {"min", "max"}, NEW A
  PROVE  LineHolds(line, A) <=> LineSays(names, line, A)
BY DEF LineHolds, LineSays, Weight, Weighs, FileLit, Compares

LEMMA OpbLineHoldsNext ==
  ASSUME input'.format = "opb", NEW line, line.op \in Compares \cup {"min", "max"}, NEW A
  PROVE  LineHolds(line, A)' <=> LineSays(names', line, A)
BY DEF LineHolds, LineSays, Weight, Weighs, FileLit, Compares

LEMMA FileTyped ==
  ASSUME input \in Inputs
  PROVE  /\ input.format \in {"opb", "mcnf"}
         /\ Len(input.file) \in Nat /\ DOMAIN input.file = 1 .. Len(input.file)
         /\ \A i \in 1 .. Len(input.file) : TypedLine(input.format, input.file[i])
BY InputsAssumption

LEMMA OpbTyped ==
  ASSUME NEW line, TypedLine("opb", line)
  PROVE  /\ line.op \in Compares \cup {"min", "max"} /\ line.terms \in Terms
         /\ line.op \in Compares => line.rhs \in Int
BY DEF TypedLine, Compares, Terms

(* NumbersFit says it of the lines of an OPB file. *)
LEMMA FitLines ==
  ASSUME input \in Inputs, input.format = "opb", NumbersFit, NEW i \in 1 .. Len(input.file),
         input.file[i].op \in Compares
  PROVE  LineFits(input.file[i])
<1> DEFINE line == input.file[i]
           t == [j \in DOMAIN line.terms |-> AbsLit(line.terms[j].c)]
<1>1. line.terms \in Terms /\ line.rhs \in Int /\ i \in DOMAIN input.file
  BY FileTyped, OpbTyped
<1>2. Total(t) + AbsLit(line.rhs) < IntMax
  BY <1>1 DEF NumbersFit, Lines, Compares
<1>3. t \in Seq(Nat)
  <2>1. Len(line.terms) \in Nat /\ DOMAIN line.terms = 1 .. Len(line.terms)
        /\ \A j \in 1 .. Len(line.terms) : line.terms[j].c \in Int
    BY <1>1, TermsTyped
  <2>2. \A j \in 1 .. Len(line.terms) : AbsLit(line.terms[j].c) \in Nat
    BY <2>1 DEF AbsLit
  <2> HIDE DEF line
  <2> QED  BY <2>1, <2>2
<1> HIDE DEF t
<1>4. Total(t) \in Nat /\ AbsLit(line.rhs) \in Nat /\ IntMax \in Nat
  BY <1>1, <1>3, TotalNat, IntMaxAssumption DEF AbsLit
<1> HIDE DEF line
<1>5. Total(t) <= IntMax
  BY <1>2, <1>4
<1> QED  BY <1>5 DEF LineFits, t, line

LEMMA ParseInvInit == Init => ParseInv
<1> SUFFICES ASSUME Init PROVE ParseInv
  OBVIOUS
<1>1. input \in Inputs /\ pc = "parse" /\ pos = 1 /\ names = <<>>
      /\ formula = [hards |-> <<>>, pbs |-> <<>>, cards |-> <<>>, objs |-> <<>>]
  BY DEF Init
<1>2. Read = 0 /\ Len(input.file) \in Nat
  BY <1>1, FileTyped DEF Read
<1>3. names \in Seq(Names) /\ Distinct(names)
  BY <1>1 DEF Distinct
<1>4. formula.hards = <<>> /\ formula.pbs = <<>> /\ formula.cards = <<>>
      /\ formula = [hards |-> formula.hards, pbs |-> formula.pbs, cards |-> formula.cards, objs |-> formula.objs]
  BY <1>1
<1>5. TypedFormula(formula)
  BY <1>4 DEF TypedFormula
<1>6. \A A : Meets(formula, A)
  BY <1>4 DEF Meets
<1>7. 1 .. Read = {}
  BY <1>2
<1> QED  BY <1>1, <1>2, <1>3, <1>5, <1>6, <1>7 DEF ParseInv

LEMMA AdvanceRead ==
  ASSUME ParseInv, pc = "parse", pos <= Len(input.file), Advance("hard", Len(input.file)), input' = input
  PROVE  /\ pos' \in Nat \ {0} /\ pc' \in {"parse", "hard"}
         /\ pc' = "parse" => pos' - 1 <= Len(input'.file)
         /\ Read' = pos /\ Read = pos - 1 /\ pos \in 1 .. Len(input.file)
         /\ \A i \in 1 .. pos : i = pos \/ i \in 1 .. Read
<1>1. pos \in Nat \ {0} /\ Len(input.file) \in Nat
  BY FileTyped DEF ParseInv
<1>2. CASE pos < Len(input.file)
  BY <1>1, <1>2 DEF Advance, Read
<1>3. CASE ~ (pos < Len(input.file))
  BY <1>1, <1>3 DEF Advance, Read
<1> QED  BY <1>2, <1>3

LEMMA ParseLineInv == ASSUME ParseInv, ParseLine PROVE ParseInv'
<1> DEFINE line == input.file[pos]
<1>1. /\ pc = "parse" /\ input.format = "opb" /\ pos <= Len(input.file) /\ input' = input
      /\ names' = Known(names, line.terms)
      /\ formula' = IF line.op \in {"min", "max"} THEN ParseCostFunction(formula, names', line)
                    ELSE ParseConstraint(formula, names', line)
      /\ Advance("hard", Len(input.file))
  BY DEF ParseLine
<1>2. /\ input \in Inputs /\ names \in Seq(Names) /\ Distinct(names) /\ (NumbersFit => TypedFormula(formula))
      /\ \A i \in 1 .. Read : Knows(names, input.file[i].terms)
  BY <1>1 DEF ParseInv
<1>3. /\ pos' \in Nat \ {0} /\ pc' \in {"parse", "hard"}
      /\ pc' = "parse" => pos' - 1 <= Len(input'.file)
      /\ Read' = pos /\ Read = pos - 1 /\ pos \in 1 .. Len(input.file)
      /\ \A i \in 1 .. pos : i = pos \/ i \in 1 .. Read
  BY <1>1, AdvanceRead
<1>4. \A i \in 1 .. Len(input.file) :
        /\ input.file[i].op \in Compares \cup {"min", "max"} /\ input.file[i].terms \in Terms
        /\ input.file[i].op \in Compares => input.file[i].rhs \in Int
  BY <1>1, <1>2, FileTyped, OpbTyped
<1>5. line.op \in Compares \cup {"min", "max"} /\ line.terms \in Terms /\ (line.op \in Compares => line.rhs \in Int)
  BY <1>3, <1>4
<1> HIDE DEF line
<1>6. names' \in Seq(Names) /\ Distinct(names') /\ Extends(names', names) /\ Knows(names', line.terms)
  BY <1>1, <1>2, <1>5, KnownNames
<1>7. \A i \in 1 .. pos : i \in 1 .. Len(input.file) /\ Knows(names', input.file[i].terms)
  <2>1. \A i \in 1 .. Read : Knows(names', input.file[i].terms)
    BY <1>2, <1>6, KnowsMore
  <2>2. \A i \in 1 .. pos : i \in 1 .. Len(input.file)
    BY <1>3
  <2> QED  BY <1>3, <1>6, <2>1, <2>2 DEF line
<1>8. ASSUME NumbersFit
      PROVE  /\ TypedFormula(formula')
             /\ \A A : Meets(formula', A) <=> Meets(formula, A) /\ LineSays(names', line, A)
  <2>0. TypedFormula(formula)
    BY <1>2, <1>8
  <2>1. CASE line.op \in {"min", "max"}
    <3>1. formula' = ParseCostFunction(formula, names', line)
      BY <1>1, <2>1
    <3> DEFINE ps == Products(names', line.terms, IF line.op = "min" THEN 1 ELSE -1)
               o == [coeffs |-> Field(ps, "coeff"), lits |-> Field(ps, "lit"), const |-> -Total(Field(ps, "shift"))]
    <3>2. formula' = [formula EXCEPT !.objs = Append(@, o)]
      BY <3>1 DEF ParseCostFunction
    <3> HIDE DEF o
    <3>3. formula = [hards |-> formula.hards, pbs |-> formula.pbs, cards |-> formula.cards, objs |-> formula.objs]
      BY <2>0 DEF TypedFormula
    <3>4. formula' = [hards |-> formula.hards, pbs |-> formula.pbs, cards |-> formula.cards, objs |-> Append(formula.objs, o)]
      BY <3>2, <3>3
    <3>5. TypedFormula(formula')
      BY <2>0, <3>4 DEF TypedFormula
    <3>6. \A A : Meets(formula', A) <=> Meets(formula, A)
      BY <3>4 DEF Meets
    <3>7. \A A : LineSays(names', line, A)
      BY <2>1 DEF LineSays
    <3> QED  BY <3>5, <3>6, <3>7
  <2>2. CASE line.op \notin {"min", "max"}
    <3>1. line.op \in Compares /\ formula' = ParseConstraint(formula, names', line)
      BY <1>1, <1>5, <2>2
    <3>2. LineFits(line)
      BY <1>1, <1>2, <1>3, <1>8, <3>1, FitLines DEF line
    <3> QED  BY <1>5, <1>6, <2>0, <3>1, <3>2, ParseConstraintSays
  <2> QED  BY <2>1, <2>2
<1>9. ASSUME NumbersFit, NEW A
      PROVE  Meets(formula', A) <=> \A i \in 1 .. pos : LineHolds(input.file[i], A)'
  <2>1. \A i \in 1 .. pos : LineHolds(input.file[i], A)' <=> LineSays(names', input.file[i], A)
    <3>1. input'.format = "opb"
      BY <1>1
    <3>2. \A l : l.op \in Compares \cup {"min", "max"} => (LineHolds(l, A)' <=> LineSays(names', l, A))
      BY <3>1, OpbLineHoldsNext
    <3> QED  BY <1>1, <1>4, <1>7, <3>1, OpbLineHoldsNext
  <2>2. \A i \in 1 .. Read : LineHolds(input.file[i], A) <=> LineSays(names, input.file[i], A)
    BY <1>1, <1>3, <1>4, <1>7, OpbLineHolds
  <2>3. \A i \in 1 .. Read : LineSays(names', input.file[i], A) <=> LineSays(names, input.file[i], A)
    BY <1>2, <1>3, <1>4, <1>6, <1>7, LineSaysSame
  <2>4. Meets(formula, A) <=> \A i \in 1 .. Read : LineHolds(input.file[i], A)
    BY <1>1, <1>9 DEF ParseInv
  <2>5. 1 .. Read \subseteq 1 .. pos /\ pos \in 1 .. pos
    BY <1>3
  <2>6. (\A i \in 1 .. pos : LineSays(names', input.file[i], A))
        <=> (\A i \in 1 .. Read : LineSays(names', input.file[i], A)) /\ LineSays(names', line, A)
    BY <1>3, <2>5 DEF line
  <2> QED  BY <1>8, <1>9, <2>1, <2>2, <2>3, <2>4, <2>6
<1>10. NumbersFit' <=> NumbersFit
  BY <1>1 DEF NumbersFit, Lines
<1> QED
  <2>1. input' \in Inputs
    BY <1>1, <1>2
  <2>2. \A i \in 1 .. Read' : Knows(names', input'.file[i].terms)
    BY <1>1, <1>3, <1>7
  <2>3. NumbersFit' => TypedFormula(formula') /\ \A A : Meets(formula', A) <=> \A i \in 1 .. Read' : LineHolds(input.file[i], A)'
    BY <1>3, <1>8, <1>9, <1>10
  <2> QED  BY <1>3, <1>6, <2>1, <2>2, <2>3 DEF ParseInv

LEMMA ReadMcnfLineInv == ASSUME ParseInv, ReadMcnfLine PROVE ParseInv'
<1> DEFINE line == input.file[pos]
<1>1. /\ pc = "parse" /\ input.format = "mcnf" /\ pos <= Len(input.file) /\ input' = input /\ names' = names
      /\ formula' = McnfLine(formula, line)
      /\ Advance("hard", Len(input.file))
  BY DEF ReadMcnfLine
<1>2. input \in Inputs /\ names \in Seq(Names) /\ Distinct(names) /\ (NumbersFit => TypedFormula(formula))
  BY <1>1 DEF ParseInv
<1>3. /\ pos' \in Nat \ {0} /\ pc' \in {"parse", "hard"}
      /\ pc' = "parse" => pos' - 1 <= Len(input'.file)
      /\ Read' = pos /\ Read = pos - 1 /\ pos \in 1 .. Len(input.file)
      /\ \A i \in 1 .. pos : i = pos \/ i \in 1 .. Read
  BY <1>1, AdvanceRead
<1>4. \A i \in 1 .. Len(input.file) : input.file[i].op \in {"h", "o"} /\ input.file[i].lits \in LitSeqs
  BY <1>1, <1>2, FileTyped DEF TypedLine, LitSeqs
<1>5. ASSUME NEW l, l.op \in {"h", "o"}, NEW A
      PROVE  /\ LineHolds(l, A) <=> (l.op = "h" => SomeTrue(l.lits, A))
             /\ LineHolds(l, A)' <=> (l.op = "h" => SomeTrue(l.lits, A))
  <2>1. CASE l.op = "h"
    BY <2>1 DEF LineHolds
  <2>2. CASE l.op = "o"
    BY <2>2 DEF LineHolds
  <2> QED  BY <1>5, <2>1, <2>2
<1>6. line.op \in {"h", "o"} /\ line.lits \in LitSeqs
  BY <1>3, <1>4
<1> HIDE DEF line
<1>7. ASSUME NumbersFit
      PROVE  /\ TypedFormula(formula')
             /\ \A A : Meets(formula', A) <=> Meets(formula, A) /\ (line.op = "h" => SomeTrue(line.lits, A))
  <2>1. TypedFormula(formula)
    BY <1>2, <1>7
  <2>2. CASE line.op = "h"
    <3> DEFINE g == [formula EXCEPT !.hards = Append(@, line.lits)]
    <3>1. formula' = g
      BY <1>1, <2>2 DEF McnfLine
    <3>2. TypedFormula(g) /\ \A A : Meets(g, A) <=> Meets(formula, A) /\ SomeTrue(line.lits, A)
      BY <1>6, <2>1, AddHard
    <3> HIDE DEF g
    <3> QED  BY <2>2, <3>1, <3>2
  <2>3. CASE line.op = "o"
    <3>1. PICK o : formula' = [formula EXCEPT !.objs = o]
      BY <1>1, <2>3 DEF McnfLine
    <3>2. formula = [hards |-> formula.hards, pbs |-> formula.pbs, cards |-> formula.cards, objs |-> formula.objs]
      BY <2>1 DEF TypedFormula
    <3>3. formula' = [hards |-> formula.hards, pbs |-> formula.pbs, cards |-> formula.cards, objs |-> o]
      BY <3>1, <3>2
    <3>4. TypedFormula(formula')
      BY <2>1, <3>3 DEF TypedFormula
    <3>5. \A A : Meets(formula', A) <=> Meets(formula, A)
      BY <3>3 DEF Meets
    <3> QED  BY <2>3, <3>4, <3>5
  <2> QED  BY <1>6, <2>2, <2>3
<1>8. ASSUME NumbersFit, NEW A
      PROVE  Meets(formula', A) <=> \A i \in 1 .. pos : LineHolds(input.file[i], A)'
  <2>1. \A i \in 1 .. pos : i \in 1 .. Len(input.file)
    BY <1>3
  <2>2. Meets(formula, A) <=> \A i \in 1 .. Read : LineHolds(input.file[i], A)
    BY <1>1, <1>8 DEF ParseInv
  <2> DEFINE C(i) == input.file[i].op = "h" => SomeTrue(input.file[i].lits, A)
  <2>3. \A i \in 1 .. pos : (LineHolds(input.file[i], A)' <=> C(i)) /\ (LineHolds(input.file[i], A) <=> C(i))
    BY <1>1, <1>4, <1>5, <2>1
  <2>4. 1 .. Read \subseteq 1 .. pos /\ pos \in 1 .. pos
    BY <1>3
  <2>5. Meets(formula', A) <=> Meets(formula, A) /\ C(pos)
    BY <1>7, <1>8 DEF line
  <2> HIDE DEF C
  <2> QED  BY <1>3, <2>2, <2>3, <2>4, <2>5
<1>9. NumbersFit' <=> NumbersFit
  BY <1>1 DEF NumbersFit, Lines
<1> QED
  <2>1. input' \in Inputs /\ input'.format # "opb"
    BY <1>1, <1>2
  <2>2. NumbersFit' => TypedFormula(formula') /\ \A A : Meets(formula', A) <=> \A i \in 1 .. Read' : LineHolds(input.file[i], A)'
    BY <1>3, <1>7, <1>8, <1>9
  <2> QED  BY <1>1, <1>2, <1>3, <2>1, <2>2 DEF ParseInv

LEMMA AfterParseInv ==
  ASSUME ParseInv, UNCHANGED <<input, names, formula>>, pc # "parse", pc' \notin {"parse", "hard"}, pos' \in Nat \ {0}
  PROVE  ParseInv'
<1>1. NumbersFit' <=> NumbersFit
  BY DEF NumbersFit, Lines
<1>2. Read' = Read
  BY DEF Read
<1> QED  BY <1>1, <1>2 DEF ParseInv

LEMMA AdvanceAfter ==
  ASSUME NEW next \in {"card", "soft", "done"}, NEW last, Advance(next, last), pos \in Nat \ {0}, pc \notin {"parse", "hard"}
  PROVE  pos' \in Nat \ {0} /\ pc' \notin {"parse", "hard"}
BY DEF Advance

LEMMA ParseInvNext == ASSUME ParseInv, [Next]_vars PROVE ParseInv'
<1>0. pos \in Nat \ {0}
  BY DEF ParseInv
<1>1. CASE ParseLine
  BY <1>1, ParseLineInv
<1>2. CASE ReadMcnfLine
  BY <1>2, ReadMcnfLineInv
<1>3. CASE AddHards
  <2>1. UNCHANGED <<input, names, formula>> /\ pc = "hard" /\ pos' = 1 /\ pc' \in {"pb", "soft"}
    BY <1>3 DEF AddHards
  <2> QED  BY <2>1, AfterParseInv
<1>4. CASE EncodePBs
  BY <1>0, <1>4, AdvanceAfter, AfterParseInv DEF EncodePBs
<1>5. CASE EncodeCards
  BY <1>0, <1>5, AdvanceAfter, AfterParseInv DEF EncodeCards
<1>6. CASE AddObjectives
  BY <1>0, <1>6, AdvanceAfter, AfterParseInv DEF AddObjectives
<1>7. CASE UNCHANGED vars
  <2>1. NumbersFit' <=> NumbersFit
    BY <1>7 DEF NumbersFit, Lines, vars
  <2>2. Read' = Read
    BY <1>7 DEF Read, vars
  <2>3. \A line, A : LineHolds(line, A)' <=> LineHolds(line, A)
    BY <1>7 DEF LineHolds, Weight, FileLit, vars
  <2> QED  BY <1>7, <2>1, <2>2, <2>3 DEF ParseInv, vars
<1> QED  BY <1>1, <1>2, <1>3, <1>4, <1>5, <1>6, <1>7 DEF Next

LEMMA NetNextNext == ASSUME [NetNext]_allVars PROVE [Next]_vars \/ (UNCHANGED <<input, pc, pos, names, formula, objectives>>)
BY DEF NetNext, FrontEndStep, SortObjectives, DisjointCores, NewCores, allVars

LEMMA ParseInvNetNext == ASSUME ParseInv, [NetNext]_allVars PROVE ParseInv'
<1>1. CASE [Next]_vars
  BY <1>1, ParseInvNext
<1>2. CASE UNCHANGED <<input, pc, pos, names, formula, objectives>>
  <2>1. NumbersFit' <=> NumbersFit
    BY <1>2 DEF NumbersFit, Lines
  <2>2. Read' = Read
    BY <1>2 DEF Read
  <2>3. \A line, A : LineHolds(line, A)' <=> LineHolds(line, A)
    BY <1>2 DEF LineHolds, Weight, FileLit
  <2> QED  BY <1>2, <2>1, <2>2, <2>3 DEF ParseInv
<1> QED  BY <1>1, <1>2, NetNextNext

(* A file whose numbers fit the encoders is parsed exactly: the clauses and *)
(* constraints of the formula say what its lines say, for every number of   *)
(* lines and of terms, every coefficient and every order of the names.      *)
THEOREM ParserCorrect == NetSpec => [](NumbersFit => ParsedExactly)
<1>1. NetInit => ParseInv
  BY ParseInvInit DEF NetInit
<1>2. ParseInv /\ [NetNext]_allVars => ParseInv'
  BY ParseInvNetNext
<1>3. ParseInv => (NumbersFit => ParsedExactly)
  <2> SUFFICES ASSUME ParseInv, NumbersFit, pc = "hard", NEW A \in SUBSET LinesVars
               PROVE  A \in Solutions <=> Meets(formula, A)
    BY DEF ParsedExactly
  <2>1. Meets(formula, A) <=> \A i \in 1 .. Len(input.file) : LineHolds(input.file[i], A)
    BY DEF ParseInv, Read
  <2>2. DOMAIN input.file = 1 .. Len(input.file)
    BY FileTyped DEF ParseInv
  <2> QED  BY <2>1, <2>2 DEF Solutions
<1> QED  BY <1>1, <1>2, <1>3, PTL DEF NetSpec

-----------------------------------------------------------------------------
(* A function that is defined by recursion on the size of its argument      *)
(* exists.                                                                  *)

\* f is what H makes of it, for the arguments smaller than n
UpTo(f, n, D, V, size, H) == f \in [D -> V] /\ \A d \in D : size[d] < n => f[d] = H[f][d]

\* H looks only at smaller arguments
Descends(D, V, size, H) ==
  /\ size \in [D -> Nat] /\ H \in [[D -> V] -> [D -> V]]
  /\ \A f, g \in [D -> V] : \A d \in D :
       (\A e \in D : size[e] < size[d] => f[e] = g[e]) => H[f][d] = H[g][d]

LEMMA UpToExists ==
  ASSUME NEW D, NEW V, NEW size, NEW H, Descends(D, V, size, H), [D -> V] # {}, NEW n \in Nat
  PROVE  /\ \E f : UpTo(f, n, D, V, size, H)
         /\ \A f, g : UpTo(f, n, D, V, size, H) /\ UpTo(g, n, D, V, size, H) =>
              \A d \in D : size[d] < n => f[d] = g[d]
<1> DEFINE P(k) == UpTo(CHOOSE f : UpTo(f, k, D, V, size, H), k, D, V, size, H)
           U(k) == \A f, g : UpTo(f, k, D, V, size, H) /\ UpTo(g, k, D, V, size, H) =>
                     \A d \in D : size[d] < k => f[d] = g[d]
           S == {k \in 0 .. n : (\E f : UpTo(f, k, D, V, size, H)) /\ U(k)}
<1>0. /\ \A d \in D : size[d] \in Nat
      /\ \A f \in [D -> V] : H[f] \in [D -> V]
  BY DEF Descends
<1>1. 0 \in S
  <2>1. \A d \in D : ~ (size[d] < 0)
    BY <1>0
  <2>2. \A f \in [D -> V] : UpTo(f, 0, D, V, size, H)
    BY <2>1 DEF UpTo
  <2> QED  BY <2>1, <2>2
<1>2. ASSUME NEW k \in 1 .. n, k-1 \in S PROVE k \in S
  <2>1. PICK f : UpTo(f, k-1, D, V, size, H)
    BY <1>2
  <2>2. U(k-1)
    BY <1>2
  <2> DEFINE g == H[f]
  <2>3. f \in [D -> V] /\ g \in [D -> V]
    BY <1>0, <2>1 DEF UpTo
  <2>4. ASSUME NEW d \in D, size[d] < k PROVE g[d] = H[g][d]
    <3>1. \A e \in D : size[e] < size[d] => size[e] < k-1
      BY <1>0, <2>4
    <3>2. \A e \in D : size[e] < size[d] => f[e] = g[e]
      BY <2>1, <3>1 DEF UpTo
    <3> HIDE DEF g
    <3>3. H[f][d] = H[g][d]
      BY <2>3, <3>2 DEF Descends
    <3> QED  BY <3>3 DEF g
  <2>5. UpTo(g, k, D, V, size, H)
    <3> HIDE DEF g
    <3> QED  BY <2>3, <2>4 DEF UpTo
  <2>6. ASSUME NEW x, NEW y, UpTo(x, k, D, V, size, H), UpTo(y, k, D, V, size, H), NEW d \in D, size[d] < k
        PROVE  x[d] = y[d]
    <3>1. \A e \in D : size[e] < k-1 => size[e] < k
      BY <1>0
    <3>2. UpTo(x, k-1, D, V, size, H) /\ UpTo(y, k-1, D, V, size, H)
      BY <2>6, <3>1 DEF UpTo
    <3>3. \A e \in D : size[e] < k-1 => x[e] = y[e]
      BY <2>2, <3>2
    <3>4. \A e \in D : size[e] < size[d] => size[e] < k-1
      BY <1>0, <2>6
    <3>5. H[x][d] = H[y][d]
      BY <2>6, <3>3, <3>4 DEF Descends, UpTo
    <3> QED  BY <2>6, <3>5 DEF UpTo
  <2>7. U(k)
    BY <2>6
  <2> HIDE DEF U
  <2> QED  BY <2>5, <2>7
<1>3. \A k \in 0 .. n : k \in S
  <2> HIDE DEF S
  <2> QED  BY <1>1, <1>2, Upward
<1>4. n \in S
  BY <1>3
<1> QED  BY <1>4

LEMMA Recursion ==
  ASSUME NEW D, NEW V, NEW size, NEW H, Descends(D, V, size, H), [D -> V] # {}
  PROVE  \E f \in [D -> V] : \A d \in D : f[d] = H[f][d]
<1> DEFINE Up(f, n) == UpTo(f, n, D, V, size, H)
           A == [d \in D |-> CHOOSE f : Up(f, size[d] + 1)]
           F == [d \in D |-> A[d][d]]
<1>1. \A d \in D : size[d] \in Nat /\ size[d] + 1 \in Nat
  BY DEF Descends
<1>2. ASSUME NEW d \in D PROVE Up(A[d], size[d] + 1)
  <2>1. \E f : Up(f, size[d] + 1)
    BY <1>1, UpToExists
  <2> HIDE DEF Up
  <2> QED  BY <2>1
<1> HIDE DEF A
<1>3. \A d \in D : A[d] \in [D -> V]
  BY <1>2 DEF UpTo
<1>4. F \in [D -> V]
  BY <1>3
<1>5. ASSUME NEW d \in D, NEW e \in D, size[e] < size[d] PROVE F[e] = A[d][e]
  <2>1. \A x \in D : size[x] < size[e] + 1 => size[x] < size[d] + 1
    BY <1>1, <1>5
  <2>2. Up(A[d], size[e] + 1)
    BY <1>2, <2>1 DEF UpTo
  <2>3. Up(A[e], size[e] + 1) /\ size[e] < size[e] + 1
    BY <1>1, <1>2
  <2>4. A[e][e] = A[d][e]
    BY <1>1, <2>2, <2>3, UpToExists
  <2> QED  BY <2>4
<1>6. ASSUME NEW d \in D PROVE F[d] = H[F][d]
  <2>1. \A e \in D : size[e] < size[d] => F[e] = A[d][e]
    BY <1>5
  <2> HIDE DEF F
  <2>2. H[F][d] = H[A[d]][d]
    BY <1>3, <1>4, <2>1 DEF Descends
  <2>3. A[d][d] = H[A[d]][d]
    <3>1. size[d] < size[d] + 1
      BY <1>1
    <3> QED  BY <1>2, <3>1 DEF UpTo
  <2> QED  BY <2>2, <2>3 DEF F
<1> HIDE DEF F
<1> QED  BY <1>4, <1>6

-----------------------------------------------------------------------------
(* Sequences of wires *)

LEMMA Products2 == ASSUME NEW s \in Nat, NEW d \in Nat PROVE s * d \in Nat /\ (s >= 1 => s * d >= d)
OBVIOUS

LEMMA WireSeqsParts ==
  ASSUME NEW q \in WireSeqs
  PROVE  q.first \in Nat /\ q.size \in Nat /\ q.step \in Nat
BY DEF WireSeqs

LEMMA NthNat == ASSUME NEW q \in WireSeqs, NEW i \in Nat \ {0} PROVE Nth(q, i) \in Nat
<1>1. i - 1 \in Nat /\ q.first \in Nat /\ q.step \in Nat
  BY WireSeqsParts
<1>2. q.step * (i - 1) \in Nat
  BY <1>1, Products2
<1> DEFINE x == q.step * (i - 1)
<1>3. Nth(q, i) = q.first + x
  BY DEF Nth
<1> HIDE DEF x
<1> QED  BY <1>1, <1>2, <1>3 DEF x

LEMMA NthLess ==
  ASSUME NEW q \in WireSeqs, q.step >= 1, NEW i \in Nat \ {0}, NEW j \in Nat \ {0}, i < j
  PROVE  Nth(q, i) < Nth(q, j)
<1>1. i - 1 \in Nat /\ j - i \in Nat /\ j - i >= 1 /\ q.first \in Nat /\ q.step \in Nat
  BY WireSeqsParts
<1> DEFINE x == q.step * (i - 1)
           y == q.step * (j - i)
<1>2. x \in Nat /\ y \in Nat /\ y >= j - i
  BY <1>1, Products2
<1>3. q.step * (j - 1) = x + y
  BY <1>1
<1>4. Nth(q, i) = q.first + x /\ Nth(q, j) = q.first + (x + y)
  BY <1>3 DEF Nth
<1> HIDE DEF x, y
<1> QED  BY <1>1, <1>2, <1>4

LEMMA OddWires ==
  ASSUME NEW q \in WireSeqs
  PROVE  /\ Odd(q) \in WireSeqs /\ Odd(q).size = (q.size + 1) \div 2
         /\ q.step >= 1 => Odd(q).step >= 1
         /\ \A j \in Nat : Nth(Odd(q), j) = Nth(q, 2 * j - 1)
<1> DEFINE f == q.first
           s == q.step
           m == (q.size + 1) \div 2
<1>1. f \in Nat /\ s \in Nat /\ m \in Nat /\ 2 * s \in Nat /\ (s >= 1 => 2 * s >= 1)
  BY WireSeqsParts
<1>2. Odd(q) = [first |-> f, size |-> m, step |-> 2 * s]
  BY DEF Odd, WireSeq
<1> HIDE DEF f, s, m
<1>3. Odd(q) \in WireSeqs /\ Odd(q).first = f /\ Odd(q).size = m /\ Odd(q).step = 2 * s
  BY <1>1, <1>2 DEF WireSeqs
<1>4. ASSUME NEW j \in Nat PROVE Nth(Odd(q), j) = Nth(q, 2 * j - 1)
  <2>1. (2 * s) * (j - 1) = s * (2 * j - 1 - 1)
    BY <1>1
  <2> QED  BY <1>3, <2>1 DEF Nth, f, s
<1> QED  BY <1>1, <1>3, <1>4 DEF m, s

LEMMA EvenWires ==
  ASSUME NEW q \in WireSeqs
  PROVE  /\ Even(q) \in WireSeqs /\ Even(q).size = q.size \div 2
         /\ q.step >= 1 => Even(q).step >= 1
         /\ \A j \in Nat : Nth(Even(q), j) = Nth(q, 2 * j)
<1> DEFINE f == q.first
           s == q.step
           m == q.size \div 2
<1>1. f \in Nat /\ s \in Nat /\ m \in Nat /\ 2 * s \in Nat /\ f + s \in Nat /\ (s >= 1 => 2 * s >= 1)
  BY WireSeqsParts
<1>2. Even(q) = [first |-> f + s, size |-> m, step |-> 2 * s]
  BY DEF Even, WireSeq
<1> HIDE DEF f, s, m
<1>3. Even(q) \in WireSeqs /\ Even(q).first = f + s /\ Even(q).size = m /\ Even(q).step = 2 * s
  BY <1>1, <1>2 DEF WireSeqs
<1>4. ASSUME NEW j \in Nat PROVE Nth(Even(q), j) = Nth(q, 2 * j)
  <2>1. f + s + (2 * s) * (j - 1) = f + s * (2 * j - 1)
    BY <1>1
  <2> QED  BY <1>3, <2>1 DEF Nth, f, s
<1> QED  BY <1>1, <1>3, <1>4 DEF m, s

\* the wires of two sequences, one after the other
At(q1, q2, i) == IF i <= q1.size THEN Nth(q1, i) ELSE Nth(q2, i - q1.size)

LEMMA AtSecond == ASSUME NEW q1, NEW q2, NEW i, ~ (i <= q1.size) PROVE At(q1, q2, i) = Nth(q2, i - q1.size)
BY DEF At

Pairs == Nat \X Nat

(* The comparison-interchanges compare the positions 2 and 3, 4 and 5, ...  *)
(* of the two sequences, whatever their sizes.                              *)
LEMMA Halves ==
  ASSUME NEW a \in Nat, NEW b \in Nat, a >= 1, b >= 1, NEW init, init = IF a % 2 = 0 THEN 2 ELSE 1
  PROVE  /\ a \div 2 \in Nat /\ (b + 1 - init) \div 2 \in Nat
         /\ (a + b - 1) \div 2 = a \div 2 + (b + 1 - init) \div 2
         /\ (a = 2 * (a \div 2) /\ init = 2) \/ (a = 2 * (a \div 2) + 1 /\ init = 1)
<1>1. CASE a % 2 = 0
  <2> DEFINE h == a \div 2
  <2>1. init = 2 /\ a = 2 * h /\ h \in Nat
    BY <1>1
  <2> HIDE DEF h
  <2>2. (b + 1 - init) \div 2 \in Nat /\ (a + b - 1) \div 2 = h + (b + 1 - init) \div 2
    BY <2>1
  <2>3. a \div 2 = h
    BY DEF h
  <2> QED  BY <2>1, <2>2, <2>3
<1>2. CASE a % 2 # 0
  <2> DEFINE h == a \div 2
  <2>1. init = 1 /\ a = 2 * h + 1 /\ h \in Nat
    BY <1>2
  <2> HIDE DEF h
  <2>2. (b + 1 - init) \div 2 \in Nat /\ (a + b - 1) \div 2 = h + (b + 1 - init) \div 2
    BY <2>1
  <2>3. a \div 2 = h
    BY DEF h
  <2> QED  BY <2>1, <2>2, <2>3
<1> QED  BY <1>1, <1>2

LEMMA HalvesLess ==
  ASSUME NEW a \in Nat, NEW b \in Nat, a # 0, b # 0, ~ (a = 1 /\ b = 1)
  PROVE  (a + 1) \div 2 + (b + 1) \div 2 < a + b /\ a \div 2 + b \div 2 < a + b /\ a >= 1 /\ b >= 1
OBVIOUS

LEMMA Concatenated ==
  ASSUME NEW m \in Nat, NEW n \in Nat, NEW s, NEW t, s = [k \in 1 .. m |-> s[k]], t = [k \in 1 .. n |-> t[k]]
  PROVE  s \o t = [k \in 1 .. m + n |-> IF k <= m THEN s[k] ELSE t[k - m]]
<1> DEFINE S == {s[k] : k \in 1 .. m} \cup {t[k] : k \in 1 .. n}
<1>1. \A k \in 1 .. m : s[k] \in S
  OBVIOUS
<1>2. \A k \in 1 .. n : t[k] \in S
  OBVIOUS
<1> HIDE DEF S
<1>3. s \in Seq(S) /\ t \in Seq(S) /\ Len(s) = m /\ Len(t) = n
  BY <1>1, <1>2
<1> QED  BY <1>3

LEMMA ExchangesAt ==
  ASSUME NEW q1 \in WireSeqs, NEW q2 \in WireSeqs, q1.size >= 1, q2.size >= 1
  PROVE  Exchanges(q1, q2) = [k \in 1 .. (q1.size + q2.size - 1) \div 2 |-> <<At(q1, q2, 2 * k), At(q1, q2, 2 * k + 1)>>]
<1> DEFINE n1 == q1.size
           n2 == q2.size
           init == IF n1 % 2 = 0 THEN 2 ELSE 1
           m1 == n1 \div 2
           m2 == (n2 + 1 - init) \div 2
           m == (n1 + n2 - 1) \div 2
           s1 == [k \in 1 .. m1 |-> IF 2 * k = n1 THEN <<Nth(q1, 2 * k), q2.first>> ELSE <<Nth(q1, 2 * k), Nth(q1, 2 * k + 1)>>]
           s2 == [k \in 1 .. m2 |-> <<Nth(q2, init + 2 * (k - 1)), Nth(q2, init + 2 * (k - 1) + 1)>>]
           r == [k \in 1 .. m |-> <<At(q1, q2, 2 * k), At(q1, q2, 2 * k + 1)>>]
<1>1. n1 \in Nat /\ n2 \in Nat /\ n1 >= 1 /\ n2 >= 1
  BY WireSeqsParts
<1>2. Exchanges(q1, q2) = s1 \o s2
  BY DEF Exchanges
<1>3. m1 \in Nat /\ m2 \in Nat /\ m = m1 + m2 /\ ((n1 = 2 * m1 /\ init = 2) \/ (n1 = 2 * m1 + 1 /\ init = 1))
  <2> HIDE DEF n1, n2
  <2> QED  BY <1>1, Halves
<1> HIDE DEF n1, n2, init, m1, m2, m
<1>4. s1 = [k \in 1 .. m1 |-> s1[k]] /\ s2 = [k \in 1 .. m2 |-> s2[k]]
  OBVIOUS
<1>5. s1 \o s2 = [k \in 1 .. m1 + m2 |-> IF k <= m1 THEN s1[k] ELSE s2[k - m1]]
  <2> HIDE DEF s1, s2
  <2> QED  BY <1>3, <1>4, Concatenated
<1>6. Nth(q2, 1) = q2.first
  <2>1. q2.first \in Nat /\ q2.step \in Nat
    BY WireSeqsParts
  <2>2. q2.step * (1 - 1) = 0
    BY <2>1
  <2> QED  BY <2>1, <2>2 DEF Nth
<1>7. ASSUME NEW k \in 1 .. m, k <= m1 PROVE s1[k] = r[k]
  <2>1. k \in 1 .. m1 /\ 2 * k <= n1 /\ (2 * k # n1 => 2 * k + 1 <= n1) /\ (2 * k = n1 => ~ (2 * k + 1 <= n1) /\ 2 * k + 1 - n1 = 1)
    BY <1>1, <1>3, <1>7
  <2>2. At(q1, q2, 2 * k) = Nth(q1, 2 * k)
    BY <2>1 DEF At, n1
  <2>3. CASE 2 * k = n1
    <3>1. At(q1, q2, 2 * k + 1) = Nth(q2, 1)
      BY <2>1, <2>3 DEF At, n1
    <3> QED  BY <1>6, <2>1, <2>2, <2>3, <3>1
  <2>4. CASE 2 * k # n1
    <3>1. At(q1, q2, 2 * k + 1) = Nth(q1, 2 * k + 1)
      BY <2>1, <2>4 DEF At, n1
    <3> QED  BY <2>1, <2>2, <2>4, <3>1
  <2> QED  BY <2>3, <2>4
<1>8. ASSUME NEW k \in 1 .. m, ~ (k <= m1) PROVE s2[k - m1] = r[k]
  <2> DEFINE j == k - m1
  <2>1. j \in 1 .. m2 /\ ~ (2 * k <= n1) /\ ~ (2 * k + 1 <= n1)
        /\ 2 * k - n1 = init + 2 * (j - 1) /\ 2 * k + 1 - n1 = init + 2 * (j - 1) + 1
    BY <1>1, <1>3, <1>8
  <2>2. At(q1, q2, 2 * k) = Nth(q2, 2 * k - n1) /\ At(q1, q2, 2 * k + 1) = Nth(q2, 2 * k + 1 - n1)
    <3>1. ~ (2 * k <= q1.size) /\ ~ (2 * k + 1 <= q1.size) /\ q1.size \in Nat /\ k \in Nat
      BY <1>3, <2>1, WireSeqsParts DEF n1
    <3>2. At(q1, q2, 2 * k) = Nth(q2, 2 * k - q1.size) /\ At(q1, q2, 2 * k + 1) = Nth(q2, 2 * k + 1 - q1.size)
      BY <3>1, AtSecond
    <3> QED  BY <3>2 DEF n1
  <2> HIDE DEF j
  <2>3. At(q1, q2, 2 * k) = Nth(q2, init + 2 * (j - 1)) /\ At(q1, q2, 2 * k + 1) = Nth(q2, init + 2 * (j - 1) + 1)
    BY <2>1, <2>2
  <2> QED  BY <2>1, <2>3 DEF j
<1>9. s1 \o s2 = r
  <2> HIDE DEF s1, s2
  <2>1. \A k \in 1 .. m : (s1 \o s2)[k] = r[k]
    BY <1>3, <1>5, <1>7, <1>8
  <2> HIDE DEF r
  <2>2. r = [k \in 1 .. m |-> r[k]]
    BY DEF r
  <2> QED  BY <1>3, <1>5, <2>1, <2>2
<1> QED  BY <1>2, <1>9 DEF m, n1, n2

\* two sequences of wires, the wires of the first before those of the second
Ordered(q1, q2) ==
  /\ q1 \in WireSeqs /\ q2 \in WireSeqs /\ q1.step >= 1 /\ q2.step >= 1
  /\ \A i \in 1 .. q1.size : \A j \in 1 .. q2.size : Nth(q1, i) < Nth(q2, j)

LEMMA AtLess ==
  ASSUME NEW q1, NEW q2, Ordered(q1, q2), NEW i \in 1 .. q1.size + q2.size, NEW j \in 1 .. q1.size + q2.size
  PROVE  At(q1, q2, i) \in Nat /\ (i < j => At(q1, q2, i) < At(q1, q2, j)) /\ (At(q1, q2, i) = At(q1, q2, j) => i = j)
<1>1. q1.size \in Nat /\ q2.size \in Nat /\ q1 \in WireSeqs /\ q2 \in WireSeqs /\ i \in Nat \ {0} /\ j \in Nat \ {0}
  BY WireSeqsParts DEF Ordered
<1> DEFINE n == q1.size
<1>2. ASSUME NEW k \in 1 .. q1.size + q2.size
      PROVE  At(q1, q2, k) \in Nat /\ (~ (k <= n) => k - n \in 1 .. q2.size) /\ (k <= n => k \in 1 .. n)
  <2>1. (~ (k <= n) => k - n \in 1 .. q2.size /\ k - n \in Nat \ {0}) /\ (k <= n => k \in 1 .. n) /\ k \in Nat \ {0}
    BY <1>1
  <2> QED  BY <1>1, <2>1, NthNat DEF At
<1>3. ASSUME NEW k \in 1 .. q1.size + q2.size, NEW l \in 1 .. q1.size + q2.size, k < l
      PROVE  At(q1, q2, k) < At(q1, q2, l)
  <2>0. k \in Nat \ {0} /\ l \in Nat \ {0}
    BY <1>1
  <2>1. CASE l <= n
    <3>1. k <= n
      BY <1>1, <1>3, <2>1
    <3>2. Nth(q1, k) < Nth(q1, l)
      BY <1>1, <1>3, <2>0, NthLess DEF Ordered
    <3> QED  BY <2>1, <3>1, <3>2 DEF At
  <2>2. CASE ~ (l <= n) /\ k <= n
    BY <1>2, <2>2 DEF At, Ordered
  <2>3. CASE ~ (l <= n) /\ ~ (k <= n)
    <3>1. k - n \in Nat \ {0} /\ l - n \in Nat \ {0} /\ k - n < l - n
      BY <1>1, <1>3, <2>3
    <3>2. Nth(q2, k - n) < Nth(q2, l - n)
      BY <1>1, <3>1, NthLess DEF Ordered
    <3> QED  BY <2>3, <3>2 DEF At
  <2> QED  BY <2>1, <2>2, <2>3
<1>4. At(q1, q2, i) \in Nat /\ At(q1, q2, j) \in Nat
  BY <1>2
<1>5. (i < j => At(q1, q2, i) < At(q1, q2, j)) /\ (j < i => At(q1, q2, j) < At(q1, q2, i))
  BY <1>3
<1>6. i < j \/ j < i \/ i = j
  BY <1>1
<1> QED  BY <1>4, <1>5, <1>6

LEMMA AtTyped ==
  ASSUME NEW q1 \in WireSeqs, NEW q2 \in WireSeqs, NEW i \in Nat \ {0}
  PROVE  At(q1, q2, i) \in Nat
<1>1. q1.size \in Nat /\ (~ (i <= q1.size) => i - q1.size \in Nat \ {0})
  BY WireSeqsParts
<1> QED  BY <1>1, NthNat DEF At

LEMMA ExchangesTyped ==
  ASSUME NEW q1 \in WireSeqs, NEW q2 \in WireSeqs, q1.size >= 1, q2.size >= 1
  PROVE  Exchanges(q1, q2) \in Seq(Pairs)
<1> DEFINE m == (q1.size + q2.size - 1) \div 2
           r == [k \in 1 .. m |-> <<At(q1, q2, 2 * k), At(q1, q2, 2 * k + 1)>>]
<1>1. m \in Nat
  BY WireSeqsParts
<1>2. \A k \in 1 .. m : 2 * k \in Nat \ {0} /\ 2 * k + 1 \in Nat \ {0}
  BY <1>1
<1>3. \A k \in 1 .. m : <<At(q1, q2, 2 * k), At(q1, q2, 2 * k + 1)>> \in Pairs
  BY <1>2, AtTyped DEF Pairs
<1> HIDE DEF m
<1>4. r \in Seq(Pairs)
  BY <1>1, <1>3
<1> QED  BY <1>4, ExchangesAt DEF m

\* odd_even_merge, as one step of its recursion
MergeBody(f, q1, q2) ==
  IF q1.size = 0 \/ q2.size = 0 THEN <<>>
  ELSE IF q1.size = 1 /\ q2.size = 1 THEN <<<<q1.first, q2.first>>>>
  ELSE f[<<Odd(q1), Odd(q2)>>] \o f[<<Even(q1), Even(q2)>>] \o Exchanges(q1, q2)

LEMMA MergeBodyTyped ==
  ASSUME NEW f, NEW q1 \in WireSeqs, NEW q2 \in WireSeqs,
         q1.size # 0 /\ q2.size # 0 /\ ~ (q1.size = 1 /\ q2.size = 1) =>
           f[<<Odd(q1), Odd(q2)>>] \in Seq(Pairs) /\ f[<<Even(q1), Even(q2)>>] \in Seq(Pairs)
  PROVE  MergeBody(f, q1, q2) \in Seq(Pairs)
<1>1. CASE q1.size = 0 \/ q2.size = 0
  BY <1>1 DEF MergeBody
<1>2. CASE ~ (q1.size = 0 \/ q2.size = 0) /\ (q1.size = 1 /\ q2.size = 1)
  <2>1. <<q1.first, q2.first>> \in Pairs
    BY WireSeqsParts DEF Pairs
  <2> QED  BY <1>2, <2>1 DEF MergeBody
<1>3. CASE ~ (q1.size = 0 \/ q2.size = 0) /\ ~ (q1.size = 1 /\ q2.size = 1)
  <2>1. q1.size >= 1 /\ q2.size >= 1
    BY <1>3, WireSeqsParts
  <2>2. Exchanges(q1, q2) \in Seq(Pairs)
    BY <2>1, ExchangesTyped
  <2> QED  BY <1>3, <2>2 DEF MergeBody
<1> QED  BY <1>1, <1>2, <1>3

LEMMA MergeSmaller ==
  ASSUME NEW q1 \in WireSeqs, NEW q2 \in WireSeqs
  PROVE  /\ Odd(q1) \in WireSeqs /\ Odd(q2) \in WireSeqs /\ Even(q1) \in WireSeqs /\ Even(q2) \in WireSeqs
         /\ q1.size # 0 /\ q2.size # 0 /\ ~ (q1.size = 1 /\ q2.size = 1) =>
              /\ Odd(q1).size + Odd(q2).size < q1.size + q2.size
              /\ Even(q1).size + Even(q2).size < q1.size + q2.size
              /\ q1.size >= 1 /\ q2.size >= 1
<1>1. Odd(q1) \in WireSeqs /\ Odd(q2) \in WireSeqs /\ Even(q1) \in WireSeqs /\ Even(q2) \in WireSeqs
      /\ Odd(q1).size = (q1.size + 1) \div 2 /\ Odd(q2).size = (q2.size + 1) \div 2
      /\ Even(q1).size = q1.size \div 2 /\ Even(q2).size = q2.size \div 2
      /\ q1.size \in Nat /\ q2.size \in Nat
  BY OddWires, EvenWires, WireSeqsParts
<1> QED  BY <1>1, HalvesLess

LEMMA MergeExists ==
  \E f \in [WireSeqs \X WireSeqs -> Seq(Pairs)] :
    \A q1, q2 \in WireSeqs : f[<<q1, q2>>] = MergeBody(f, q1, q2)
<1> DEFINE D == WireSeqs \X WireSeqs
           V == Seq(Pairs)
           size == [d \in D |-> d[1].size + d[2].size]
           H == [f \in [D -> V] |-> [d \in D |-> MergeBody(f, d[1], d[2])]]
<1>1. \A d \in D : size[d] \in Nat /\ d[1] \in WireSeqs /\ d[2] \in WireSeqs /\ d = <<d[1], d[2]>>
  BY WireSeqsParts
<1>2. ASSUME NEW q1 \in WireSeqs, NEW q2 \in WireSeqs
      PROVE  /\ <<Odd(q1), Odd(q2)>> \in D /\ <<Even(q1), Even(q2)>> \in D
             /\ q1.size # 0 /\ q2.size # 0 /\ ~ (q1.size = 1 /\ q2.size = 1) =>
                  size[<<Odd(q1), Odd(q2)>>] < size[<<q1, q2>>] /\ size[<<Even(q1), Even(q2)>>] < size[<<q1, q2>>]
  BY MergeSmaller
<1> HIDE DEF size
<1>3. ASSUME NEW f \in [D -> V], NEW d \in D PROVE MergeBody(f, d[1], d[2]) \in V
  BY <1>1, <1>2, MergeBodyTyped
<1>4. H \in [[D -> V] -> [D -> V]] /\ \A f \in [D -> V] : \A d \in D : H[f][d] = MergeBody(f, d[1], d[2])
  <2> HIDE DEF D, V
  <2> QED  BY <1>3
<1>5. ASSUME NEW f \in [D -> V], NEW g \in [D -> V], NEW d \in D, \A e \in D : size[e] < size[d] => f[e] = g[e]
      PROVE  MergeBody(f, d[1], d[2]) = MergeBody(g, d[1], d[2])
  <2> DEFINE q1 == d[1]
             q2 == d[2]
  <2>1. q1 \in WireSeqs /\ q2 \in WireSeqs /\ d = <<q1, q2>>
    BY <1>1
  <2> HIDE DEF q1, q2
  <2>2. q1.size # 0 /\ q2.size # 0 /\ ~ (q1.size = 1 /\ q2.size = 1) =>
          f[<<Odd(q1), Odd(q2)>>] = g[<<Odd(q1), Odd(q2)>>] /\ f[<<Even(q1), Even(q2)>>] = g[<<Even(q1), Even(q2)>>]
    BY <1>2, <1>5, <2>1
  <2> QED  BY <2>2 DEF MergeBody, q1, q2
<1>6. \A f, g \in [D -> V] : \A d \in D : (\A e \in D : size[e] < size[d] => f[e] = g[e]) => H[f][d] = H[g][d]
  <2> HIDE DEF H, D, V
  <2> QED  BY <1>4, <1>5
<1>7. size \in [D -> Nat]
  BY <1>1 DEF size
<1>8. [D -> V] # {}
  <2>1. [d \in D |-> <<>>] \in [D -> V]
    OBVIOUS
  <2> QED  BY <2>1
<1> HIDE DEF H, D, V
<1>9. \E f \in [D -> V] : \A d \in D : f[d] = H[f][d]
  <2>1. Descends(D, V, size, H)
    BY <1>4, <1>6, <1>7 DEF Descends
  <2> QED  BY <1>8, <2>1, Recursion
<1>10. PICK f \in [D -> V] : \A d \in D : f[d] = H[f][d]
  BY <1>9
<1>11. \A d \in D : f[d] = MergeBody(f, d[1], d[2])
  BY <1>4, <1>10
<1>12. \A q1, q2 \in WireSeqs : f[<<q1, q2>>] = MergeBody(f, q1, q2)
  BY <1>11 DEF D
<1> QED  BY <1>10, <1>12 DEF D, V

LEMMA MergeIs ==
  ASSUME NEW q1 \in WireSeqs, NEW q2 \in WireSeqs
  PROVE  Merge[<<q1, q2>>] \in Seq(Pairs) /\ Merge[<<q1, q2>>] = MergeBody(Merge, q1, q2)
<1> DEFINE D == WireSeqs \X WireSeqs
           Eq(f) == f = [q \in D |->
                           LET a == q[1]
                               b == q[2]
                           IN  IF a.size = 0 \/ b.size = 0 THEN <<>>
                               ELSE IF a.size = 1 /\ b.size = 1 THEN <<<<a.first, b.first>>>>
                               ELSE f[<<Odd(a), Odd(b)>>] \o f[<<Even(a), Even(b)>>] \o Exchanges(a, b)]
           merge == CHOOSE f : Eq(f)
<1>1. Merge = merge
  BY DEF Merge
<1>2. PICK f \in [D -> Seq(Pairs)] : \A x, y \in WireSeqs : f[<<x, y>>] = MergeBody(f, x, y)
  BY MergeExists
<1>3. f = [q \in D |-> MergeBody(f, q[1], q[2])]
  <2>1. \A q \in D : f[q] = MergeBody(f, q[1], q[2])
    BY <1>2
  <2> QED  BY <2>1
<1>4. Eq(f)
  BY <1>3 DEF MergeBody
<1>5. Eq(merge)
  BY <1>4
<1> HIDE DEF merge
<1>6. \A x, y \in WireSeqs : Merge[<<x, y>>] = MergeBody(Merge, x, y)
  BY <1>1, <1>5 DEF MergeBody
<1> DEFINE n == q1.size + q2.size
           S == {k \in 0 .. n : \A x, y \in WireSeqs : x.size + y.size <= k => Merge[<<x, y>>] \in Seq(Pairs)}
<1>7. n \in Nat /\ \A x \in WireSeqs : x.size \in Nat
  BY WireSeqsParts
<1>8. 0 \in S
  <2>1. ASSUME NEW x \in WireSeqs, NEW y \in WireSeqs, x.size + y.size <= 0 PROVE Merge[<<x, y>>] \in Seq(Pairs)
    <3>1. x.size = 0
      BY <1>7, <2>1
    <3>2. Merge[<<x, y>>] = <<>>
      BY <1>6, <3>1 DEF MergeBody
    <3> QED  BY <3>2
  <2> QED  BY <1>7, <2>1
<1>9. ASSUME NEW k \in 1 .. n, k-1 \in S PROVE k \in S
  <2>1. ASSUME NEW x \in WireSeqs, NEW y \in WireSeqs, x.size + y.size <= k PROVE Merge[<<x, y>>] \in Seq(Pairs)
    <3>1. \A u, v \in WireSeqs : u.size + v.size < x.size + y.size => Merge[<<u, v>>] \in Seq(Pairs)
      <4>1. \A u, v \in WireSeqs : u.size + v.size < x.size + y.size => u.size + v.size <= k-1
        BY <1>7, <2>1
      <4> QED  BY <1>9, <4>1
    <3>2. MergeBody(Merge, x, y) \in Seq(Pairs)
      BY <3>1, MergeSmaller, MergeBodyTyped
    <3> QED  BY <1>6, <3>2
  <2> QED  BY <2>1
<1>10. \A k \in 0 .. n : k \in S
  <2> HIDE DEF S
  <2> QED  BY <1>7, <1>8, <1>9, Upward
<1> QED  BY <1>6, <1>7, <1>10

Lines2(first, size) == WireSeq(first, size, 1)

\* encode_network, as one step of its recursion
NetworkBody(f, first, size) ==
  IF size <= 1 THEN <<>>
  ELSE f[<<first, size \div 2>>] \o f[<<first + size \div 2, size - size \div 2>>]
       \o Merge[<<Lines2(first, size \div 2), Lines2(first + size \div 2, size - size \div 2)>>]

LEMMA HalfLess ==
  ASSUME NEW n \in Nat, ~ (n <= 1)
  PROVE  n \div 2 \in Nat /\ n - n \div 2 \in Nat /\ n \div 2 < n /\ n - n \div 2 < n /\ n \div 2 >= 1 /\ n - n \div 2 >= 1
OBVIOUS

LEMMA Lines2Typed ==
  ASSUME NEW first \in Nat, NEW size \in Nat
  PROVE  /\ Lines2(first, size) \in WireSeqs
         /\ Lines2(first, size).first = first /\ Lines2(first, size).size = size /\ Lines2(first, size).step = 1
         /\ \A i \in Nat : Nth(Lines2(first, size), i) = first + i - 1
<1>1. Lines2(first, size) = [first |-> first, size |-> size, step |-> 1]
  BY DEF Lines2, WireSeq
<1>2. Lines2(first, size).first = first /\ Lines2(first, size).size = size /\ Lines2(first, size).step = 1
  BY <1>1
<1> QED  BY <1>1, <1>2 DEF WireSeqs, Nth

LEMMA Concat3 == ASSUME NEW P, NEW s \in Seq(P), NEW t \in Seq(P), NEW u \in Seq(P) PROVE s \o t \o u \in Seq(P)
OBVIOUS

LEMMA NetworkBodyTyped ==
  ASSUME NEW f, NEW first \in Nat, NEW n \in Nat,
         ~ (n <= 1) => f[<<first, n \div 2>>] \in Seq(Pairs) /\ f[<<first + n \div 2, n - n \div 2>>] \in Seq(Pairs)
  PROVE  NetworkBody(f, first, n) \in Seq(Pairs)
<1>1. CASE n <= 1
  BY <1>1 DEF NetworkBody
<1>2. CASE ~ (n <= 1)
  <2> DEFINE a == n \div 2
             b == n - n \div 2
  <2>1. a \in Nat /\ b \in Nat /\ first + a \in Nat
    BY <1>2, HalfLess
  <2>2. NetworkBody(f, first, n) = f[<<first, a>>] \o f[<<first + a, b>>] \o Merge[<<Lines2(first, a), Lines2(first + a, b)>>]
    BY <1>2 DEF NetworkBody
  <2>3. f[<<first, a>>] \in Seq(Pairs) /\ f[<<first + a, b>>] \in Seq(Pairs)
    BY <1>2
  <2> HIDE DEF a, b
  <2>4. Merge[<<Lines2(first, a), Lines2(first + a, b)>>] \in Seq(Pairs)
    BY <2>1, Lines2Typed, MergeIs
  <2> DEFINE x == f[<<first, a>>]
             y == f[<<first + a, b>>]
             z == Merge[<<Lines2(first, a), Lines2(first + a, b)>>]
  <2>5. NetworkBody(f, first, n) = x \o y \o z
    BY <2>2
  <2>6. x \in Seq(Pairs) /\ y \in Seq(Pairs) /\ z \in Seq(Pairs)
    BY <2>3, <2>4
  <2> HIDE DEF x, y, z
  <2>7. x \o y \o z \in Seq(Pairs)
    BY <2>6, Concat3
  <2> QED  BY <2>5, <2>7
<1> QED  BY <1>1, <1>2

LEMMA NetworkExists ==
  \E f \in [Nat \X Nat -> Seq(Pairs)] :
    \A first, n \in Nat : f[<<first, n>>] = NetworkBody(f, first, n)
<1> DEFINE D == Nat \X Nat
           V == Seq(Pairs)
           size == [d \in D |-> d[2]]
           H == [f \in [D -> V] |-> [d \in D |-> NetworkBody(f, d[1], d[2])]]
<1>1. \A d \in D : size[d] = d[2] /\ d[1] \in Nat /\ d[2] \in Nat /\ d = <<d[1], d[2]>>
  OBVIOUS
<1>2. ASSUME NEW first \in Nat, NEW n \in Nat, ~ (n <= 1)
      PROVE  /\ <<first, n \div 2>> \in D /\ <<first + n \div 2, n - n \div 2>> \in D
             /\ size[<<first, n \div 2>>] < size[<<first, n>>] /\ size[<<first + n \div 2, n - n \div 2>>] < size[<<first, n>>]
  <2> DEFINE a == n \div 2
             b == n - n \div 2
  <2>1. a \in Nat /\ b \in Nat /\ first + a \in Nat /\ a < n /\ b < n
    BY <1>2, HalfLess
  <2> HIDE DEF a, b
  <2>2. <<first, a>> \in D /\ <<first + a, b>> \in D /\ <<first, n>> \in D
    BY <2>1
  <2>3. size[<<first, a>>] = a /\ size[<<first + a, b>>] = b /\ size[<<first, n>>] = n
    BY <2>2
  <2> HIDE DEF D, size
  <2> QED  BY <2>1, <2>2, <2>3 DEF a, b
<1> HIDE DEF size
<1>3. ASSUME NEW f \in [D -> V], NEW d \in D PROVE NetworkBody(f, d[1], d[2]) \in V
  <2> DEFINE first == d[1]
             n == d[2]
  <2>1. first \in Nat /\ n \in Nat
    BY <1>1
  <2> HIDE DEF first, n
  <2>2. ~ (n <= 1) => f[<<first, n \div 2>>] \in Seq(Pairs) /\ f[<<first + n \div 2, n - n \div 2>>] \in Seq(Pairs)
    BY <1>2, <2>1
  <2>3. NetworkBody(f, first, n) \in V
    BY <2>1, <2>2, NetworkBodyTyped
  <2> QED  BY <2>3 DEF first, n
<1>4. H \in [[D -> V] -> [D -> V]] /\ \A f \in [D -> V] : \A d \in D : H[f][d] = NetworkBody(f, d[1], d[2])
  <2> HIDE DEF D, V
  <2> QED  BY <1>3
<1>5. ASSUME NEW f \in [D -> V], NEW g \in [D -> V], NEW d \in D, \A e \in D : size[e] < size[d] => f[e] = g[e]
      PROVE  NetworkBody(f, d[1], d[2]) = NetworkBody(g, d[1], d[2])
  <2> DEFINE first == d[1]
             n == d[2]
  <2>1. first \in Nat /\ n \in Nat /\ d = <<first, n>>
    BY <1>1
  <2> HIDE DEF first, n
  <2>2. ~ (n <= 1) =>
          f[<<first, n \div 2>>] = g[<<first, n \div 2>>] /\ f[<<first + n \div 2, n - n \div 2>>] = g[<<first + n \div 2, n - n \div 2>>]
    BY <1>2, <1>5, <2>1
  <2>3. NetworkBody(f, first, n) = NetworkBody(g, first, n)
    BY <2>2 DEF NetworkBody
  <2> QED  BY <2>3 DEF first, n
<1>6. \A f, g \in [D -> V] : \A d \in D : (\A e \in D : size[e] < size[d] => f[e] = g[e]) => H[f][d] = H[g][d]
  <2> HIDE DEF H, D, V
  <2> QED  BY <1>4, <1>5
<1>7. size \in [D -> Nat]
  BY DEF size
<1>8. [D -> V] # {}
  <2>1. [d \in D |-> <<>>] \in [D -> V]
    OBVIOUS
  <2> QED  BY <2>1
<1> HIDE DEF H, D, V
<1>9. PICK f \in [D -> V] : \A d \in D : f[d] = H[f][d]
  <2>1. Descends(D, V, size, H)
    BY <1>4, <1>6, <1>7 DEF Descends
  <2> QED  BY <1>8, <2>1, Recursion
<1>10. \A d \in D : f[d] = NetworkBody(f, d[1], d[2])
  BY <1>4, <1>9
<1>11. \A first, n \in Nat : f[<<first, n>>] = NetworkBody(f, first, n)
  BY <1>10 DEF D
<1> QED  BY <1>9, <1>11 DEF D, V

LEMMA NetworkIs ==
  ASSUME NEW first \in Nat, NEW n \in Nat
  PROVE  Network[<<first, n>>] \in Seq(Pairs) /\ Network[<<first, n>>] = NetworkBody(Network, first, n)
<1> DEFINE D == Nat \X Nat
           Eq(f) == f = [w \in D |->
                           LET a == w[1]
                               s == w[2]
                               m == s \div 2
                           IN  IF s <= 1 THEN <<>>
                               ELSE f[<<a, m>>] \o f[<<a + m, s - m>>]
                                    \o Merge[<<WireSeq(a, m, 1), WireSeq(a + m, s - m, 1)>>]]
           network == CHOOSE f : Eq(f)
<1>1. Network = network
  BY DEF Network
<1>2. PICK f \in [D -> Seq(Pairs)] : \A a, s \in Nat : f[<<a, s>>] = NetworkBody(f, a, s)
  BY NetworkExists
<1>3. f = [w \in D |-> NetworkBody(f, w[1], w[2])]
  <2>1. \A w \in D : f[w] = NetworkBody(f, w[1], w[2])
    BY <1>2
  <2> QED  BY <2>1
<1>4. Eq(f)
  BY <1>3 DEF NetworkBody, Lines2
<1>5. Eq(network)
  BY <1>4
<1> HIDE DEF network
<1>6. \A a, s \in Nat : Network[<<a, s>>] = NetworkBody(Network, a, s)
  BY <1>1, <1>5 DEF NetworkBody, Lines2
<1> DEFINE S == {k \in 0 .. n : \A a, s \in Nat : s <= k => Network[<<a, s>>] \in Seq(Pairs)}
<1>7. 0 \in S
  <2>1. ASSUME NEW a \in Nat, NEW s \in Nat, s <= 0 PROVE Network[<<a, s>>] \in Seq(Pairs)
    <3>1. s <= 1
      BY <2>1
    <3>2. Network[<<a, s>>] = <<>>
      BY <1>6, <3>1 DEF NetworkBody
    <3> QED  BY <3>2
  <2> QED  BY <2>1
<1>8. ASSUME NEW k \in 1 .. n, k-1 \in S PROVE k \in S
  <2>1. ASSUME NEW a \in Nat, NEW s \in Nat, s <= k PROVE Network[<<a, s>>] \in Seq(Pairs)
    <3>1. \A x, y \in Nat : y < s => Network[<<x, y>>] \in Seq(Pairs)
      <4>1. \A y \in Nat : y < s => y <= k-1
        BY <2>1
      <4> QED  BY <1>8, <4>1
    <3>2. ~ (s <= 1) => s \div 2 \in Nat /\ s - s \div 2 \in Nat /\ s \div 2 < s /\ s - s \div 2 < s /\ a + s \div 2 \in Nat
      BY HalfLess
    <3>3. NetworkBody(Network, a, s) \in Seq(Pairs)
      BY <3>1, <3>2, NetworkBodyTyped
    <3> QED  BY <1>6, <3>3
  <2> QED  BY <2>1
<1>9. \A k \in 0 .. n : k \in S
  <2> HIDE DEF S
  <2> QED  BY <1>7, <1>8, Upward
<1>10. n \in S
  <2> HIDE DEF S
  <2> QED  BY <1>9
<1> QED  BY <1>6, <1>10

-----------------------------------------------------------------------------
(* What a sequence of comparators does with values 0 and 1: T is the set of *)
(* the wires with the value 1.                                              *)

Exchanged(T, p) ==
  {e \in Nat : IF e = p[1] THEN p[1] \in T /\ p[2] \in T ELSE IF e = p[2] THEN p[1] \in T \/ p[2] \in T ELSE e \in T}
Run(h, T, ps, U) ==
  /\ h \in [0 .. Len(ps) -> SUBSET Nat] /\ h[0] = T /\ h[Len(ps)] = U
  /\ \A k \in 1 .. Len(ps) : h[k] = Exchanged(h[k-1], ps[k])
RunsTo(T, ps, U) == \E h : Run(h, T, ps, U)

\* the wires of some comparators
Touch(ps) == {ps[k][1] : k \in 1 .. Len(ps)} \cup {ps[k][2] : k \in 1 .. Len(ps)}

LEMMA ConcatParts ==
  ASSUME NEW P, NEW ps \in Seq(P), NEW qs \in Seq(P)
  PROVE  /\ ps \o qs \in Seq(P) /\ Len(ps \o qs) = Len(ps) + Len(qs) /\ Len(ps) \in Nat /\ Len(qs) \in Nat
         /\ \A k \in 1 .. Len(ps) : (ps \o qs)[k] = ps[k]
         /\ \A k \in 1 .. Len(qs) : (ps \o qs)[Len(ps) + k] = qs[k]
OBVIOUS

LEMMA TouchIn ==
  ASSUME NEW ps, NEW e
  PROVE  e \in Touch(ps) <=> \E k \in 1 .. Len(ps) : e = ps[k][1] \/ e = ps[k][2]
BY DEF Touch

LEMMA TouchConcat ==
  ASSUME NEW ps \in Seq(Pairs), NEW qs \in Seq(Pairs)
  PROVE  Touch(ps \o qs) = Touch(ps) \cup Touch(qs)
<1> DEFINE rs == ps \o qs
           m == Len(ps)
           n == Len(qs)
<1>1. Len(rs) = m + n /\ m \in Nat /\ n \in Nat /\ (\A k \in 1 .. m : rs[k] = ps[k]) /\ \A k \in 1 .. n : rs[m + k] = qs[k]
  BY ConcatParts
<1> HIDE DEF rs
<1>2. \A k \in 1 .. m : k \in 1 .. m + n
  BY <1>1
<1>3. \A k \in 1 .. n : m + k \in 1 .. m + n
  BY <1>1
<1>4. \A k \in 1 .. m + n : k \in 1 .. m \/ (k - m \in 1 .. n /\ m + (k - m) = k)
  BY <1>1
<1>5. \A e : e \in Touch(ps) <=> \E k \in 1 .. m : e = ps[k][1] \/ e = ps[k][2]
  BY TouchIn
<1>6. \A e : e \in Touch(qs) <=> \E k \in 1 .. n : e = qs[k][1] \/ e = qs[k][2]
  BY TouchIn
<1>12. \A e : e \in Touch(rs) <=> \E k \in 1 .. Len(rs) : e = rs[k][1] \/ e = rs[k][2]
  BY TouchIn
<1> HIDE DEF m, n
<1>7. \A e : e \in Touch(rs) <=> \E k \in 1 .. m + n : e = rs[k][1] \/ e = rs[k][2]
  BY <1>1, <1>12
<1>8. ASSUME NEW e, NEW k \in 1 .. m, e = ps[k][1] \/ e = ps[k][2] PROVE e \in Touch(rs)
  BY <1>1, <1>2, <1>7, <1>8
<1>9. ASSUME NEW e, NEW k \in 1 .. n, e = qs[k][1] \/ e = qs[k][2] PROVE e \in Touch(rs)
  <2>1. rs[m + k] = qs[k] /\ m + k \in 1 .. m + n
    BY <1>1, <1>3
  <2>2. e = rs[m + k][1] \/ e = rs[m + k][2]
    BY <1>9, <2>1
  <2> QED  BY <1>7, <2>1, <2>2
<1>10. ASSUME NEW e, NEW k \in 1 .. m + n, e = rs[k][1] \/ e = rs[k][2] PROVE e \in Touch(ps) \cup Touch(qs)
  <2>1. CASE k \in 1 .. m
    BY <1>1, <1>5, <1>10, <2>1
  <2>2. CASE k - m \in 1 .. n /\ m + (k - m) = k
    <3>1. rs[k] = qs[k - m]
      BY <1>1, <2>2
    <3>2. e = qs[k - m][1] \/ e = qs[k - m][2]
      BY <1>10, <3>1
    <3>3. e \in Touch(qs)
      BY <1>6, <2>2, <3>2
    <3> QED  BY <3>3
  <2> QED  BY <1>4, <2>1, <2>2
<1>11. \A e : e \in Touch(rs) <=> e \in Touch(ps) \/ e \in Touch(qs)
  BY <1>5, <1>6, <1>7, <1>8, <1>9, <1>10
<1> HIDE DEF Touch
<1> QED  BY <1>11 DEF rs

LEMMA RunsToTyped == ASSUME NEW ps \in Seq(Pairs), NEW T, NEW U, RunsTo(T, ps, U) PROVE T \subseteq Nat /\ U \subseteq Nat
<1>1. PICK h : Run(h, T, ps, U)
  BY DEF RunsTo
<1>2. 0 \in 0 .. Len(ps) /\ Len(ps) \in 0 .. Len(ps)
  OBVIOUS
<1> QED  BY <1>1, <1>2 DEF Run

LEMMA RunEmpty == ASSUME NEW T, NEW U, RunsTo(T, <<>>, U) PROVE U = T
<1>1. Len(<<>>) = 0
  OBVIOUS
<1> QED  BY <1>1 DEF RunsTo, Run

LEMMA RunOne == ASSUME NEW T, NEW U, NEW p, RunsTo(T, <<p>>, U) PROVE U = Exchanged(T, p)
<1>1. Len(<<p>>) = 1 /\ <<p>>[1] = p /\ 1 - 1 = 0 /\ 1 \in 1 .. 1
  OBVIOUS
<1>2. PICK h : Run(h, T, <<p>>, U)
  BY DEF RunsTo
<1>3. h[0] = T /\ h[1] = U /\ \A k \in 1 .. 1 : h[k] = Exchanged(h[k-1], <<p>>[k])
  BY <1>1, <1>2 DEF Run
<1> QED  BY <1>1, <1>3

LEMMA RunSplit ==
  ASSUME NEW ps \in Seq(Pairs), NEW qs \in Seq(Pairs), NEW T, NEW U, RunsTo(T, ps \o qs, U)
  PROVE  \E M \in SUBSET Nat : RunsTo(T, ps, M) /\ RunsTo(M, qs, U)
<1> DEFINE rs == ps \o qs
           m == Len(ps)
           n == Len(qs)
<1>1. Len(rs) = m + n /\ m \in Nat /\ n \in Nat /\ (\A k \in 1 .. m : rs[k] = ps[k]) /\ \A k \in 1 .. n : rs[m + k] = qs[k]
  BY ConcatParts
<1> HIDE DEF rs
<1>2. PICK h : Run(h, T, rs, U)
  BY DEF RunsTo, rs
<1>3. h \in [0 .. m + n -> SUBSET Nat] /\ h[0] = T /\ h[m + n] = U /\ \A k \in 1 .. m + n : h[k] = Exchanged(h[k-1], rs[k])
  BY <1>1, <1>2 DEF Run
<1> DEFINE f == [k \in 0 .. m |-> h[k]]
           g == [k \in 0 .. n |-> h[m + k]]
<1>4. Run(f, T, ps, h[m])
  <2>1. \A k \in 0 .. m : k \in 0 .. m + n
    BY <1>1
  <2>2. f \in [0 .. m -> SUBSET Nat] /\ f[0] = T /\ f[m] = h[m]
    BY <1>1, <1>3, <2>1
  <2>3. ASSUME NEW k \in 1 .. m PROVE f[k] = Exchanged(f[k-1], ps[k])
    <3>1. k \in 0 .. m /\ k-1 \in 0 .. m /\ k \in 1 .. m + n
      BY <1>1
    <3> QED  BY <1>1, <1>3, <3>1
  <2> HIDE DEF f
  <2> QED  BY <2>2, <2>3 DEF Run
<1>5. Run(g, h[m], qs, U)
  <2>1. \A k \in 0 .. n : m + k \in 0 .. m + n
    BY <1>1
  <2>2. g \in [0 .. n -> SUBSET Nat] /\ g[0] = h[m] /\ g[n] = U
    BY <1>1, <1>3, <2>1
  <2>3. ASSUME NEW k \in 1 .. n PROVE g[k] = Exchanged(g[k-1], qs[k])
    <3>1. k \in 0 .. n /\ k-1 \in 0 .. n /\ m + k \in 1 .. m + n /\ (m + k) - 1 = m + (k - 1)
      BY <1>1
    <3>2. g[k] = h[m + k] /\ g[k-1] = h[m + (k - 1)]
      BY <3>1
    <3>3. h[m + k] = Exchanged(h[(m + k) - 1], rs[m + k])
      BY <1>3, <3>1
    <3> QED  BY <1>1, <3>1, <3>2, <3>3
  <2> HIDE DEF g
  <2> QED  BY <2>2, <2>3 DEF Run
<1>6. h[m] \in SUBSET Nat
  <2>1. m \in 0 .. m + n
    BY <1>1
  <2> QED  BY <1>3, <2>1
<1> QED  BY <1>4, <1>5, <1>6 DEF RunsTo

LEMMA RunFrame ==
  ASSUME NEW ps \in Seq(Pairs), NEW T, NEW U, RunsTo(T, ps, U), NEW e \in Nat, e \notin Touch(ps)
  PROVE  e \in U <=> e \in T
<1> DEFINE n == Len(ps)
<1>1. PICK h : Run(h, T, ps, U)
  BY DEF RunsTo
<1>2. n \in Nat /\ h[0] = T /\ h[n] = U /\ \A k \in 1 .. n : h[k] = Exchanged(h[k-1], ps[k])
  BY <1>1 DEF Run
<1> DEFINE S == {k \in 0 .. n : e \in h[k] <=> e \in T}
<1>3. 0 \in S
  BY <1>2
<1>4. ASSUME NEW k \in 1 .. n, k-1 \in S PROVE k \in S
  <2>1. e # ps[k][1] /\ e # ps[k][2]
    BY DEF Touch
  <2>2. e \in Exchanged(h[k-1], ps[k]) <=> e \in h[k-1]
    BY <2>1 DEF Exchanged
  <2> QED  BY <1>2, <1>4, <2>2
<1>5. \A k \in 0 .. n : k \in S
  <2> HIDE DEF S
  <2> QED  BY <1>2, <1>3, <1>4, Upward
<1>6. n \in S
  <2> HIDE DEF S
  <2> QED  BY <1>2, <1>5
<1> QED  BY <1>2, <1>6

(* Comparators without a common wire act on their own wires only. *)
LEMMA RunDisjoint ==
  ASSUME NEW ps \in Seq(Pairs), NEW T, NEW U, RunsTo(T, ps, U),
         \A i \in 1 .. Len(ps) : ps[i][1] # ps[i][2],
         \A i, j \in 1 .. Len(ps) : i # j => /\ ps[i][1] # ps[j][1] /\ ps[i][1] # ps[j][2]
                                             /\ ps[i][2] # ps[j][1] /\ ps[i][2] # ps[j][2],
         NEW i \in 1 .. Len(ps)
  PROVE  /\ ps[i][1] \in U <=> (ps[i][1] \in T /\ ps[i][2] \in T)
         /\ ps[i][2] \in U <=> (ps[i][1] \in T \/ ps[i][2] \in T)
<1> DEFINE n == Len(ps)
           a == ps[i][1]
           b == ps[i][2]
<1>1. PICK h : Run(h, T, ps, U)
  BY DEF RunsTo
<1>2. n \in Nat /\ h[0] = T /\ h[n] = U /\ \A k \in 1 .. n : h[k] = Exchanged(h[k-1], ps[k])
  BY <1>1 DEF Run
<1>3. a \in Nat /\ b \in Nat
  <2>1. ps[i] \in Pairs
    OBVIOUS
  <2> QED  BY <2>1 DEF Pairs
<1> DEFINE Same(k) == (a \in h[k] <=> a \in T) /\ (b \in h[k] <=> b \in T)
           Done(k) == (a \in h[k] <=> (a \in T /\ b \in T)) /\ (b \in h[k] <=> (a \in T \/ b \in T))
           S == {k \in 0 .. n : (k < i => Same(k)) /\ (~ (k < i) => Done(k))}
<1>4. 0 \in S
  BY <1>2
<1>5. ASSUME NEW k \in 1 .. n, k-1 \in S PROVE k \in S
  <2>1. h[k] = Exchanged(h[k-1], ps[k])
    BY <1>2
  <2>2. (k-1 < i => Same(k-1)) /\ (~ (k-1 < i) => Done(k-1))
    BY <1>5
  <2>3. (k < i => k-1 < i) /\ (k = i => k-1 < i /\ ~ (k < i)) /\ (~ (k < i) /\ k # i => ~ (k-1 < i))
    BY <1>2
  <2>4. CASE k = i
    <3>1. a # b /\ ps[k][1] = a /\ ps[k][2] = b /\ Same(k-1)
      BY <2>2, <2>3, <2>4
    <3> HIDE DEF a, b
    <3>2. (a \in h[k] <=> (a \in h[k-1] /\ b \in h[k-1])) /\ (b \in h[k] <=> (a \in h[k-1] \/ b \in h[k-1]))
      BY <1>3, <2>1, <3>1 DEF Exchanged
    <3>3. Done(k)
      BY <3>1, <3>2
    <3> HIDE DEF Done, Same
    <3> QED  BY <2>3, <2>4, <3>3
  <2>5. CASE k # i
    <3>1. a # ps[k][1] /\ a # ps[k][2] /\ b # ps[k][1] /\ b # ps[k][2]
      BY <2>5
    <3> HIDE DEF a, b
    <3>2. (a \in h[k] <=> a \in h[k-1]) /\ (b \in h[k] <=> b \in h[k-1])
      BY <1>3, <2>1, <3>1 DEF Exchanged
    <3>3. (Same(k-1) => Same(k)) /\ (Done(k-1) => Done(k))
      BY <3>2
    <3> HIDE DEF Done, Same
    <3> QED  BY <2>2, <2>3, <2>5, <3>3
  <2> QED  BY <2>4, <2>5
<1>6. \A k \in 0 .. n : k \in S
  <2> HIDE DEF S
  <2> QED  BY <1>2, <1>4, <1>5, Upward
<1>7. n \in S /\ ~ (n < i)
  <2> HIDE DEF S
  <2> QED  BY <1>2, <1>6
<1> QED  BY <1>2, <1>7

-----------------------------------------------------------------------------
(* odd_even_merge merges two sorted sequences. *)

Reach(q1, q2) == {At(q1, q2, i) : i \in 1 .. q1.size + q2.size}

\* where the wires of the odd and of the even parts stand in q1, q2
OddPlace(n, i)  == IF n % 2 = 0 \/ 2 * i - 1 <= n THEN 2 * i - 1 ELSE 2 * i - 2
EvenPlace(n, i) == IF n % 2 = 0 \/ 2 * i <= n THEN 2 * i ELSE 2 * i + 1

LEMMA Parity ==
  ASSUME NEW n \in Nat
  PROVE  \E h \in Nat : \/ n = 2 * h /\ n % 2 = 0 /\ n \div 2 = h /\ (n + 1) \div 2 = h
                        \/ n = 2 * h + 1 /\ n % 2 # 0 /\ n \div 2 = h /\ (n + 1) \div 2 = h + 1
<1> DEFINE h == n \div 2
<1>1. h \in Nat /\ (n = 2 * h \/ n = 2 * h + 1)
  OBVIOUS
<1> HIDE DEF h
<1>2. CASE n = 2 * h
  <2>1. n % 2 = 0 /\ n \div 2 = h /\ (n + 1) \div 2 = h
    BY <1>1, <1>2
  <2> QED  BY <1>1, <1>2, <2>1
<1>3. CASE n = 2 * h + 1
  <2>1. n % 2 # 0 /\ n \div 2 = h /\ (n + 1) \div 2 = h + 1
    BY <1>1, <1>3
  <2> QED  BY <1>1, <1>3, <2>1
<1> QED  BY <1>1, <1>2, <1>3

LEMMA OddPlaces ==
  ASSUME NEW q1 \in WireSeqs, NEW q2 \in WireSeqs, NEW i \in 1 .. Odd(q1).size + Odd(q2).size
  PROVE  /\ OddPlace(q1.size, i) \in 1 .. q1.size + q2.size
         /\ At(Odd(q1), Odd(q2), i) = At(q1, q2, OddPlace(q1.size, i))
<1> DEFINE a == q1.size
           b == q2.size
<1>1. a \in Nat /\ b \in Nat /\ Odd(q1).size = (a + 1) \div 2 /\ Odd(q2).size = (b + 1) \div 2
  BY WireSeqsParts, OddWires
<1> HIDE DEF a, b
<1>2. PICK h \in Nat : \/ a = 2 * h /\ a % 2 = 0 /\ (a + 1) \div 2 = h
                       \/ a = 2 * h + 1 /\ a % 2 # 0 /\ (a + 1) \div 2 = h + 1
  BY <1>1, Parity
<1>3. PICK g \in Nat : (b = 2 * g /\ (b + 1) \div 2 = g) \/ (b = 2 * g + 1 /\ (b + 1) \div 2 = g + 1)
  BY <1>1, Parity
<1>4. i \in Nat \ {0} /\ i <= (a + 1) \div 2 + (b + 1) \div 2
  BY <1>1, <1>2, <1>3
<1> DEFINE p == OddPlace(a, i)
<1>5. CASE i <= (a + 1) \div 2
  <2>1. 2 * i - 1 <= a /\ 2 * i - 1 \in Nat /\ 2 * i - 1 >= 1 /\ p = 2 * i - 1
    BY <1>2, <1>4, <1>5 DEF OddPlace
  <2>2. At(Odd(q1), Odd(q2), i) = Nth(q1, 2 * i - 1)
    BY <1>1, <1>4, <1>5, OddWires DEF At
  <2>3. At(q1, q2, p) = Nth(q1, 2 * i - 1)
    BY <2>1 DEF At, a
  <2> HIDE DEF p
  <2>4. p \in 1 .. a + b
    BY <1>1, <2>1
  <2> QED  BY <2>2, <2>3, <2>4 DEF p, a, b
<1>6. CASE ~ (i <= (a + 1) \div 2)
  <2> DEFINE j == i - (a + 1) \div 2
  <2>1. j \in Nat /\ 2 * j - 1 = p - a /\ ~ (p <= a) /\ p \in 1 .. a + b
    BY <1>1, <1>2, <1>3, <1>4, <1>6 DEF OddPlace
  <2>2. At(Odd(q1), Odd(q2), i) = Nth(Odd(q2), j)
    BY <1>1, <1>6 DEF At
  <2> HIDE DEF j
  <2>3. At(Odd(q1), Odd(q2), i) = Nth(q2, 2 * j - 1)
    BY <2>1, <2>2, OddWires
  <2> HIDE DEF p
  <2>4. At(q1, q2, p) = Nth(q2, p - a)
    BY <2>1 DEF At, a
  <2> QED  BY <2>1, <2>3, <2>4 DEF p, a, b
<1> QED  BY <1>5, <1>6

LEMMA EvenPlaces ==
  ASSUME NEW q1 \in WireSeqs, NEW q2 \in WireSeqs, NEW i \in 1 .. Even(q1).size + Even(q2).size
  PROVE  /\ EvenPlace(q1.size, i) \in 1 .. q1.size + q2.size
         /\ At(Even(q1), Even(q2), i) = At(q1, q2, EvenPlace(q1.size, i))
<1> DEFINE a == q1.size
           b == q2.size
<1>1. a \in Nat /\ b \in Nat /\ Even(q1).size = a \div 2 /\ Even(q2).size = b \div 2
  BY WireSeqsParts, EvenWires
<1> HIDE DEF a, b
<1>2. PICK h \in Nat : \/ a = 2 * h /\ a % 2 = 0 /\ a \div 2 = h
                       \/ a = 2 * h + 1 /\ a % 2 # 0 /\ a \div 2 = h
  BY <1>1, Parity
<1>3. PICK g \in Nat : (b = 2 * g /\ b \div 2 = g) \/ (b = 2 * g + 1 /\ b \div 2 = g)
  BY <1>1, Parity
<1>4. i \in Nat \ {0} /\ i <= a \div 2 + b \div 2
  BY <1>1, <1>2, <1>3
<1> DEFINE p == EvenPlace(a, i)
<1>5. CASE i <= a \div 2
  <2>1. 2 * i <= a /\ 2 * i \in Nat /\ 2 * i >= 1 /\ p = 2 * i
    BY <1>2, <1>4, <1>5 DEF EvenPlace
  <2>2. At(Even(q1), Even(q2), i) = Nth(q1, 2 * i)
    BY <1>1, <1>4, <1>5, EvenWires DEF At
  <2>3. At(q1, q2, p) = Nth(q1, 2 * i)
    BY <2>1 DEF At, a
  <2> HIDE DEF p
  <2>4. p \in 1 .. a + b
    BY <1>1, <2>1
  <2> QED  BY <2>2, <2>3, <2>4 DEF p, a, b
<1>6. CASE ~ (i <= a \div 2)
  <2> DEFINE j == i - a \div 2
  <2>1. j \in Nat /\ 2 * j = p - a /\ ~ (p <= a) /\ p \in 1 .. a + b
    BY <1>1, <1>2, <1>3, <1>4, <1>6 DEF EvenPlace
  <2>2. At(Even(q1), Even(q2), i) = Nth(Even(q2), j)
    BY <1>1, <1>6 DEF At
  <2> HIDE DEF j
  <2>3. At(Even(q1), Even(q2), i) = Nth(q2, 2 * j)
    BY <2>1, <2>2, EvenWires
  <2> HIDE DEF p
  <2>4. At(q1, q2, p) = Nth(q2, p - a)
    BY <2>1 DEF At, a
  <2> QED  BY <2>1, <2>3, <2>4 DEF p, a, b
<1> QED  BY <1>5, <1>6

LEMMA PlacesApart ==
  ASSUME NEW n \in Nat, NEW i \in Nat \ {0}, NEW j \in Nat \ {0}
  PROVE  OddPlace(n, i) # EvenPlace(n, j)
<1>1. PICK h \in Nat : (n = 2 * h /\ n % 2 = 0) \/ (n = 2 * h + 1 /\ n % 2 # 0)
  BY Parity
<1> QED  BY <1>1 DEF OddPlace, EvenPlace

\* the comparators are between two positions, the first to the smaller wire
Increasing(ps) == \A k \in 1 .. Len(ps) : ps[k][1] < ps[k][2]

LEMMA IncreasingConcat ==
  ASSUME NEW ps \in Seq(Pairs), NEW qs \in Seq(Pairs), Increasing(ps), Increasing(qs)
  PROVE  Increasing(ps \o qs)
<1> DEFINE rs == ps \o qs
           m == Len(ps)
           n == Len(qs)
<1>1. Len(rs) = m + n /\ m \in Nat /\ n \in Nat /\ (\A k \in 1 .. m : rs[k] = ps[k]) /\ \A k \in 1 .. n : rs[m + k] = qs[k]
  BY ConcatParts
<1> HIDE DEF rs
<1>2. ASSUME NEW k \in 1 .. m + n PROVE rs[k][1] < rs[k][2]
  <2>1. CASE k \in 1 .. m
    BY <1>1, <2>1 DEF Increasing
  <2>2. CASE k - m \in 1 .. n /\ m + (k - m) = k
    <3>1. rs[k] = qs[k - m]
      BY <1>1, <2>2
    <3> QED  BY <2>2, <3>1 DEF Increasing
  <2>3. k \in 1 .. m \/ (k - m \in 1 .. n /\ m + (k - m) = k)
    BY <1>1
  <2> QED  BY <2>1, <2>2, <2>3
<1> HIDE DEF m, n
<1> QED  BY <1>1, <1>2 DEF Increasing, rs

LEMMA PartsOrdered ==
  ASSUME NEW q1, NEW q2, Ordered(q1, q2)
  PROVE  Ordered(Odd(q1), Odd(q2)) /\ Ordered(Even(q1), Even(q2))
<1>1. q1 \in WireSeqs /\ q2 \in WireSeqs /\ q1.step >= 1 /\ q2.step >= 1 /\ q1.size \in Nat /\ q2.size \in Nat
  BY WireSeqsParts DEF Ordered
<1>2. ASSUME NEW i \in 1 .. Odd(q1).size, NEW j \in 1 .. Odd(q2).size PROVE Nth(Odd(q1), i) < Nth(Odd(q2), j)
  <2>1. i \in 1 .. (q1.size + 1) \div 2 /\ j \in 1 .. (q2.size + 1) \div 2
    BY <1>1, OddWires
  <2>2. 2 * i - 1 \in 1 .. q1.size /\ 2 * j - 1 \in 1 .. q2.size /\ i \in Nat /\ j \in Nat
    BY <1>1, <2>1
  <2> QED  BY <1>1, <2>2, OddWires DEF Ordered
<1>3. ASSUME NEW i \in 1 .. Even(q1).size, NEW j \in 1 .. Even(q2).size PROVE Nth(Even(q1), i) < Nth(Even(q2), j)
  <2>1. i \in 1 .. q1.size \div 2 /\ j \in 1 .. q2.size \div 2
    BY <1>1, EvenWires
  <2>2. 2 * i \in 1 .. q1.size /\ 2 * j \in 1 .. q2.size /\ i \in Nat /\ j \in Nat
    BY <1>1, <2>1
  <2> QED  BY <1>1, <2>2, EvenWires DEF Ordered
<1>4. Ordered(Odd(q1), Odd(q2))
  BY <1>1, <1>2, OddWires DEF Ordered
<1>5. Ordered(Even(q1), Even(q2))
  BY <1>1, <1>3, EvenWires DEF Ordered
<1> QED  BY <1>4, <1>5

LEMMA PartsReach ==
  ASSUME NEW q1, NEW q2, Ordered(q1, q2)
  PROVE  /\ Reach(Odd(q1), Odd(q2)) \subseteq Reach(q1, q2) /\ Reach(Even(q1), Even(q2)) \subseteq Reach(q1, q2)
         /\ Reach(Odd(q1), Odd(q2)) \cap Reach(Even(q1), Even(q2)) = {}
<1>1. q1 \in WireSeqs /\ q2 \in WireSeqs /\ q1.size \in Nat /\ q2.size \in Nat
  BY WireSeqsParts DEF Ordered
<1>2. Reach(Odd(q1), Odd(q2)) \subseteq Reach(q1, q2) /\ Reach(Even(q1), Even(q2)) \subseteq Reach(q1, q2)
  BY <1>1, OddPlaces, EvenPlaces DEF Reach
<1>3. ASSUME NEW i \in 1 .. Odd(q1).size + Odd(q2).size, NEW j \in 1 .. Even(q1).size + Even(q2).size
      PROVE  At(Odd(q1), Odd(q2), i) # At(Even(q1), Even(q2), j)
  <2>1. Odd(q1).size \in Nat /\ Odd(q2).size \in Nat /\ Even(q1).size \in Nat /\ Even(q2).size \in Nat
    BY <1>1, OddWires, EvenWires, WireSeqsParts
  <2>2. i \in Nat \ {0} /\ j \in Nat \ {0}
    BY <2>1
  <2>3. OddPlace(q1.size, i) # EvenPlace(q1.size, j)
    BY <1>1, <2>2, PlacesApart
  <2> QED  BY <1>1, <2>3, OddPlaces, EvenPlaces, AtLess
<1>4. Reach(Odd(q1), Odd(q2)) \cap Reach(Even(q1), Even(q2)) = {}
  BY <1>3 DEF Reach
<1> QED  BY <1>2, <1>4

LEMMA SizeOne ==
  ASSUME NEW q1 \in WireSeqs, NEW q2 \in WireSeqs, q1.size = 1, q2.size = 1
  PROVE  At(q1, q2, 1) = q1.first /\ At(q1, q2, 2) = q2.first
<1>1. ASSUME NEW q \in WireSeqs PROVE Nth(q, 1) = q.first
  <2>1. q.first \in Nat /\ q.step \in Nat
    BY WireSeqsParts
  <2>2. q.step * (1 - 1) = 0
    BY <2>1
  <2> QED  BY <2>1, <2>2 DEF Nth
<1>2. At(q1, q2, 1) = Nth(q1, 1) /\ At(q1, q2, 2) = Nth(q2, 1)
  BY DEF At
<1> QED  BY <1>1, <1>2

\* which comparators there are
Covers(q1, q2) ==
  LET ps == Merge[<<q1, q2>>]
  IN  /\ Increasing(ps) /\ Touch(ps) \subseteq Reach(q1, q2)
      /\ q1.size >= 1 /\ q2.size >= 1 => Reach(q1, q2) \subseteq Touch(ps)

LEMMA ExchangesCover ==
  ASSUME NEW q1, NEW q2, Ordered(q1, q2), q1.size >= 1, q2.size >= 1
  PROVE  LET ps == Exchanges(q1, q2)
             n == q1.size + q2.size
         IN  /\ Increasing(ps) /\ Touch(ps) \subseteq Reach(q1, q2)
             /\ \A i \in 2 .. n : i < n \/ n % 2 # 0 => At(q1, q2, i) \in Touch(ps)
             /\ At(q1, q2, 1) \notin Touch(ps)
             /\ n % 2 = 0 => At(q1, q2, n) \notin Touch(ps)
<1> DEFINE ps == Exchanges(q1, q2)
           n == q1.size + q2.size
           m == (n - 1) \div 2
           A(i) == At(q1, q2, i)
<1>0. q1 \in WireSeqs /\ q2 \in WireSeqs /\ q1.size \in Nat /\ q2.size \in Nat
  BY WireSeqsParts DEF Ordered
<1>1. q1 \in WireSeqs /\ q2 \in WireSeqs /\ n \in Nat /\ n >= 2 /\ m \in Nat
  <2>1. n \in Nat /\ n >= 2
    BY <1>0
  <2> HIDE DEF n
  <2>2. m \in Nat
    BY <2>1
  <2> QED  BY <1>0, <2>1, <2>2
<1>2. ps = [k \in 1 .. m |-> <<A(2 * k), A(2 * k + 1)>>]
  <2>1. Exchanges(q1, q2) = [j \in 1 .. (q1.size + q2.size - 1) \div 2 |-> <<At(q1, q2, 2 * j), At(q1, q2, 2 * j + 1)>>]
    BY <1>0, ExchangesAt
  <2>2. m = (q1.size + q2.size - 1) \div 2
    BY <1>0
  <2> HIDE DEF m
  <2> QED  BY <2>1, <2>2
<1>3. Len(ps) = m
  BY <1>1, <1>2
<1>4. \A k \in 1 .. m : ps[k] = <<A(2 * k), A(2 * k + 1)>> /\ 2 * k \in 1 .. n /\ 2 * k + 1 \in 1 .. n /\ 2 * k < 2 * k + 1
  BY <1>1, <1>2
<1>5. \A i, j \in 1 .. n : A(i) \in Nat /\ (i < j => A(i) < A(j)) /\ (A(i) = A(j) => i = j)
  BY AtLess
<1>6. Reach(q1, q2) = {A(i) : i \in 1 .. n}
  BY DEF Reach
<1>7. \A e : e \in Touch(ps) <=> \E k \in 1 .. m : e = A(2 * k) \/ e = A(2 * k + 1)
  <2>1. \A e : e \in Touch(ps) <=> \E k \in 1 .. Len(ps) : e = ps[k][1] \/ e = ps[k][2]
    BY TouchIn
  <2> HIDE DEF A, m, ps
  <2> QED  BY <1>3, <1>4, <2>1
<1> HIDE DEF A, m, ps
<1>8. Increasing(ps)
  BY <1>3, <1>4, <1>5 DEF Increasing
<1>9. Touch(ps) \subseteq Reach(q1, q2)
  BY <1>4, <1>6, <1>7
<1>10. ASSUME NEW i \in 2 .. n, i < n \/ n % 2 # 0 PROVE A(i) \in Touch(ps)
  <2>1. \E k \in 1 .. m : i = 2 * k \/ i = 2 * k + 1
    <3>1. i \div 2 \in 1 .. m /\ (i = 2 * (i \div 2) \/ i = 2 * (i \div 2) + 1)
      <4> HIDE DEF n
      <4>1. i \in Nat /\ i >= 2 /\ i <= n
        BY <1>1
      <4>2. PICK h \in Nat : i = 2 * h \/ i = 2 * h + 1
        BY <4>1, Parity
      <4>3. i \div 2 = h
        BY <4>2
      <4>4. h >= 1 /\ h <= m
        BY <1>1, <1>10, <4>1, <4>2 DEF m
      <4> QED  BY <1>1, <4>2, <4>3, <4>4
    <3> QED  BY <3>1
  <2> QED  BY <1>7, <2>1
<1>11. A(1) \notin Touch(ps)
  <2>1. \A k \in 1 .. m : 1 # 2 * k /\ 1 # 2 * k + 1
    BY <1>1
  <2>2. 1 \in 1 .. n
    BY <1>1
  <2> QED  BY <1>4, <1>5, <1>7, <2>1, <2>2
<1>12. ASSUME n % 2 = 0 PROVE A(n) \notin Touch(ps)
  <2>1. \A k \in 1 .. m : n # 2 * k /\ n # 2 * k + 1
    <3> HIDE DEF n
    <3>1. PICK h \in Nat : n = 2 * h
      BY <1>1, <1>12, Parity
    <3>2. m = h - 1
      BY <1>1, <3>1 DEF m
    <3> QED  BY <3>1, <3>2
  <2>2. n \in 1 .. n
    BY <1>1
  <2> QED  BY <1>4, <1>5, <1>7, <2>1, <2>2
<1> QED  BY <1>8, <1>9, <1>10, <1>11, <1>12 DEF A, ps

LEMMA MergeCoversStep ==
  ASSUME NEW q1, NEW q2, Ordered(q1, q2),
         q1.size # 0 /\ q2.size # 0 /\ ~ (q1.size = 1 /\ q2.size = 1) =>
           Covers(Odd(q1), Odd(q2)) /\ Covers(Even(q1), Even(q2))
  PROVE  Covers(q1, q2)
<1> DEFINE a == q1.size
           b == q2.size
           n == a + b
           ps == Merge[<<q1, q2>>]
<1>1. q1 \in WireSeqs /\ q2 \in WireSeqs /\ a \in Nat /\ b \in Nat
  BY WireSeqsParts DEF Ordered
<1>2. ps = MergeBody(Merge, q1, q2)
  BY <1>1, MergeIs
<1>3. CASE a = 0 \/ b = 0
  <2>1. ps = <<>>
    BY <1>2, <1>3 DEF MergeBody
  <2>2. Len(ps) = 0
    BY <2>1
  <2>3. ~ (a >= 1 /\ b >= 1)
    BY <1>1, <1>3
  <2> HIDE DEF ps
  <2>4. Increasing(ps) /\ Touch(ps) = {}
    BY <2>2 DEF Increasing, Touch
  <2> QED  BY <2>3, <2>4 DEF Covers, ps
<1>4. CASE a = 1 /\ b = 1
  <2>1. ps = <<<<At(q1, q2, 1), At(q1, q2, 2)>>>>
    BY <1>1, <1>2, <1>4, SizeOne DEF MergeBody
  <2>2. Len(ps) = 1 /\ ps[1] = <<At(q1, q2, 1), At(q1, q2, 2)>> /\ n = 2
    BY <1>4, <2>1
  <2>3. At(q1, q2, 1) < At(q1, q2, 2)
    BY <2>2, AtLess
  <2> HIDE DEF ps
  <2>4. Increasing(ps)
    BY <2>2, <2>3 DEF Increasing
  <2>5. Touch(ps) = {At(q1, q2, 1), At(q1, q2, 2)}
    BY <2>2 DEF Touch
  <2>6. Reach(q1, q2) = {At(q1, q2, 1), At(q1, q2, 2)}
    BY <2>2 DEF Reach
  <2> QED  BY <2>4, <2>5, <2>6 DEF Covers, ps
<1>5. CASE ~ (a = 0 \/ b = 0) /\ ~ (a = 1 /\ b = 1)
  <2> DEFINE po == Merge[<<Odd(q1), Odd(q2)>>]
             pe == Merge[<<Even(q1), Even(q2)>>]
             px == Exchanges(q1, q2)
  <2>1. a >= 1 /\ b >= 1 /\ n >= 3
    BY <1>1, <1>5
  <2>2. ps = po \o pe \o px
    BY <1>2, <1>5 DEF MergeBody
  <2>3. po \in Seq(Pairs) /\ pe \in Seq(Pairs) /\ px \in Seq(Pairs)
    BY <1>1, <2>1, OddWires, EvenWires, MergeIs, ExchangesTyped
  <2>4. Covers(Odd(q1), Odd(q2)) /\ Covers(Even(q1), Even(q2))
    BY <1>5
  <2>5. Increasing(po) /\ Increasing(pe) /\ Increasing(px)
    BY <2>1, <2>4, ExchangesCover DEF Covers
  <2>6. Touch(po) \subseteq Reach(q1, q2) /\ Touch(pe) \subseteq Reach(q1, q2) /\ Touch(px) \subseteq Reach(q1, q2)
    BY <2>1, <2>4, PartsReach, ExchangesCover DEF Covers
  <2>7. ASSUME NEW i \in 1 .. n PROVE At(q1, q2, i) \in Touch(po) \cup Touch(pe) \cup Touch(px)
    <3>1. Odd(q1).size = (a + 1) \div 2 /\ Odd(q2).size = (b + 1) \div 2 /\ Even(q1).size = a \div 2 /\ Even(q2).size = b \div 2
      BY <1>1, OddWires, EvenWires
    <3>2. (a + 1) \div 2 >= 1 /\ (b + 1) \div 2 >= 1 /\ (a + 1) \div 2 \in Nat /\ (b + 1) \div 2 \in Nat /\ a \div 2 \in Nat /\ b \div 2 \in Nat
      BY <1>1, <2>1
    <3>3. CASE i = 1
      <4>1. At(q1, q2, 1) = At(Odd(q1), Odd(q2), 1)
        <5>1. OddPlace(a, 1) = 1
          BY <1>1, <2>1 DEF OddPlace
        <5>2. 1 \in 1 .. Odd(q1).size + Odd(q2).size
          BY <3>1, <3>2
        <5> QED  BY <1>1, <5>1, <5>2, OddPlaces
      <4>2. At(Odd(q1), Odd(q2), 1) \in Reach(Odd(q1), Odd(q2))
        BY <3>1, <3>2 DEF Reach
      <4>3. Reach(Odd(q1), Odd(q2)) \subseteq Touch(po)
        BY <2>4, <3>1, <3>2 DEF Covers
      <4> QED  BY <3>3, <4>1, <4>2, <4>3
    <3>4. CASE i # 1 /\ (i < n \/ n % 2 # 0)
      <4>1. i \in 2 .. n
        BY <1>1, <3>4
      <4> QED  BY <2>1, <3>4, <4>1, ExchangesCover
    <3>5. CASE i # 1 /\ ~ (i < n \/ n % 2 # 0)
      <4>0. i = n /\ n % 2 = 0
        BY <1>1, <3>5
      <4>1. PICK h \in Nat : \/ a = 2 * h /\ a % 2 = 0 /\ a \div 2 = h /\ (a + 1) \div 2 = h
                             \/ a = 2 * h + 1 /\ a % 2 # 0 /\ a \div 2 = h /\ (a + 1) \div 2 = h + 1
        BY <1>1, Parity
      <4>2. PICK g \in Nat : \/ b = 2 * g /\ b % 2 = 0 /\ b \div 2 = g /\ (b + 1) \div 2 = g
                             \/ b = 2 * g + 1 /\ b % 2 # 0 /\ b \div 2 = g /\ (b + 1) \div 2 = g + 1
        BY <1>1, Parity
      <4>3. CASE a % 2 = 0
        <5>1. a = 2 * h /\ b = 2 * g /\ h >= 1 /\ g >= 1
          <6>1. a = 2 * h
            BY <4>1, <4>3
          <6>2. b = 2 * g
            BY <1>1, <4>0, <4>2, <6>1
          <6> QED  BY <2>1, <6>1, <6>2
        <5>2. Even(q1).size = h /\ Even(q2).size = g
          BY <3>1, <4>1, <4>2, <4>3, <5>1
        <5>3. h + g \in 1 .. Even(q1).size + Even(q2).size /\ EvenPlace(a, h + g) = n
          BY <4>3, <5>1, <5>2 DEF EvenPlace
        <5>4. At(Even(q1), Even(q2), h + g) = At(q1, q2, n)
          BY <1>1, <5>3, EvenPlaces
        <5>5. Reach(Even(q1), Even(q2)) \subseteq Touch(pe)
          BY <2>4, <5>1, <5>2 DEF Covers
        <5> QED  BY <4>0, <5>3, <5>4, <5>5 DEF Reach
      <4>4. CASE a % 2 # 0
        <5>1. a = 2 * h + 1 /\ b = 2 * g + 1
          <6>1. a = 2 * h + 1
            BY <4>1, <4>4
          <6>2. b = 2 * g + 1
            BY <1>1, <4>0, <4>2, <6>1
          <6> QED  BY <6>1, <6>2
        <5>2. Odd(q1).size = h + 1 /\ Odd(q2).size = g + 1
          <6>1. (2 * h + 1 + 1) \div 2 = h + 1 /\ (2 * g + 1 + 1) \div 2 = g + 1
            OBVIOUS
          <6> QED  BY <3>1, <5>1, <6>1
        <5>3. h + g + 2 \in 1 .. Odd(q1).size + Odd(q2).size /\ OddPlace(a, h + g + 2) = n
          <6>1. ~ (2 * (h + g + 2) - 1 <= a) /\ 2 * (h + g + 2) - 2 = n
            BY <5>1
          <6> QED  BY <4>4, <5>2, <6>1 DEF OddPlace
        <5>4. At(Odd(q1), Odd(q2), h + g + 2) = At(q1, q2, n)
          BY <1>1, <5>3, OddPlaces
        <5>5. Reach(Odd(q1), Odd(q2)) \subseteq Touch(po)
          BY <2>4, <5>2 DEF Covers
        <5> QED  BY <4>0, <5>3, <5>4, <5>5 DEF Reach
      <4> QED  BY <4>3, <4>4
    <3> QED  BY <3>3, <3>4, <3>5
  <2> HIDE DEF po, pe, px, n
  <2>8. po \o pe \in Seq(Pairs)
    BY <2>3
  <2>9. Increasing(ps)
    <3>1. Increasing(po \o pe)
      BY <2>3, <2>5, IncreasingConcat
    <3> QED  BY <2>2, <2>3, <2>5, <2>8, <3>1, IncreasingConcat
  <2>10. Touch(ps) = Touch(po) \cup Touch(pe) \cup Touch(px)
    <3>1. Touch(po \o pe) = Touch(po) \cup Touch(pe)
      BY <2>3, TouchConcat
    <3> QED  BY <2>2, <2>3, <2>8, <3>1, TouchConcat
  <2>11. Reach(q1, q2) \subseteq Touch(ps)
    BY <2>7, <2>10 DEF Reach, n
  <2> HIDE DEF ps
  <2> QED  BY <2>6, <2>9, <2>10, <2>11 DEF Covers, ps
<1> QED  BY <1>3, <1>4, <1>5

LEMMA MergeCovers == ASSUME NEW q1, NEW q2, Ordered(q1, q2) PROVE Covers(q1, q2)
<1> DEFINE n == q1.size + q2.size
           S == {k \in 0 .. n : \A x, y \in WireSeqs : x.size + y.size <= k /\ Ordered(x, y) => Covers(x, y)}
<1>1. q1 \in WireSeqs /\ q2 \in WireSeqs /\ n \in Nat /\ \A x \in WireSeqs : x.size \in Nat
  BY WireSeqsParts DEF Ordered
<1>2. 0 \in S
  <2>1. ASSUME NEW x \in WireSeqs, NEW y \in WireSeqs, x.size + y.size <= 0, Ordered(x, y) PROVE Covers(x, y)
    <3>1. x.size = 0
      BY <1>1, <2>1
    <3> QED  BY <2>1, <3>1, MergeCoversStep
  <2> QED  BY <1>1, <2>1
<1>3. ASSUME NEW k \in 1 .. n, k-1 \in S PROVE k \in S
  <2>1. ASSUME NEW x \in WireSeqs, NEW y \in WireSeqs, x.size + y.size <= k, Ordered(x, y) PROVE Covers(x, y)
    <3>1. \A u, v \in WireSeqs : u.size + v.size < x.size + y.size /\ Ordered(u, v) => Covers(u, v)
      <4>1. \A u, v \in WireSeqs : u.size + v.size < x.size + y.size => u.size + v.size <= k-1
        BY <1>1, <2>1
      <4> QED  BY <1>3, <4>1
    <3>2. x.size # 0 /\ y.size # 0 /\ ~ (x.size = 1 /\ y.size = 1) =>
            Covers(Odd(x), Odd(y)) /\ Covers(Even(x), Even(y))
      BY <2>1, <3>1, MergeSmaller, PartsOrdered
    <3> QED  BY <2>1, <3>2, MergeCoversStep
  <2> QED  BY <2>1
<1>4. \A k \in 0 .. n : k \in S
  <2> HIDE DEF S
  <2> QED  BY <1>1, <1>2, <1>3, Upward
<1>5. n \in S
  <2> HIDE DEF S
  <2> QED  BY <1>1, <1>4
<1> QED  BY <1>1, <1>5

\* q in values T: z zeros, then ones
Low(T, q, z) == z \in 0 .. q.size /\ \A i \in 1 .. q.size : Nth(q, i) \in T <=> i > z

LEMMA OddLow ==
  ASSUME NEW T, NEW q \in WireSeqs, NEW z, Low(T, q, z)
  PROVE  Low(T, Odd(q), (z + 1) \div 2)
<1>1. q.size \in Nat /\ z \in Nat /\ z <= q.size /\ Odd(q).size = (q.size + 1) \div 2
  BY WireSeqsParts, OddWires DEF Low
<1> DEFINE n == q.size
           x == (z + 1) \div 2
<1> HIDE DEF n
<1>2. x \in 0 .. (n + 1) \div 2
  BY <1>1 DEF n
<1>3. ASSUME NEW i \in 1 .. (n + 1) \div 2 PROVE Nth(Odd(q), i) \in T <=> i > x
  <2>1. i \in Nat /\ 2 * i - 1 \in 1 .. n /\ (2 * i - 1 > z <=> i > x)
    BY <1>1 DEF n
  <2> HIDE DEF x
  <2> QED  BY <2>1, OddWires DEF Low, n
<1> HIDE DEF x
<1> QED  BY <1>1, <1>2, <1>3 DEF Low, n, x

LEMMA EvenLow ==
  ASSUME NEW T, NEW q \in WireSeqs, NEW z, Low(T, q, z)
  PROVE  Low(T, Even(q), z \div 2)
<1>1. q.size \in Nat /\ z \in Nat /\ z <= q.size /\ Even(q).size = q.size \div 2
  BY WireSeqsParts, EvenWires DEF Low
<1> DEFINE n == q.size
           x == z \div 2
<1> HIDE DEF n
<1>2. x \in 0 .. n \div 2
  BY <1>1 DEF n
<1>3. ASSUME NEW i \in 1 .. n \div 2 PROVE Nth(Even(q), i) \in T <=> i > x
  <2>1. i \in Nat /\ 2 * i \in 1 .. n /\ (2 * i > z <=> i > x)
    BY <1>1 DEF n
  <2> HIDE DEF x
  <2> QED  BY <2>1, EvenWires DEF Low, n
<1> HIDE DEF x
<1> QED  BY <1>1, <1>2, <1>3 DEF Low, n, x

LEMMA LowSame ==
  ASSUME NEW T, NEW U, NEW q, NEW z, Low(T, q, z), \A i \in 1 .. q.size : Nth(q, i) \in U <=> Nth(q, i) \in T
  PROVE  Low(U, q, z)
BY DEF Low

\* the zeros of the odd and of the even parts
LEMMA ZeroParts ==
  ASSUME NEW z1 \in Nat, NEW z2 \in Nat, NEW n1 \in Nat, NEW n2 \in Nat, z1 <= n1, z2 <= n2,
         NEW zo, zo = (z1 + 1) \div 2 + (z2 + 1) \div 2, NEW ze, ze = z1 \div 2 + z2 \div 2
  PROVE  /\ zo \in Nat /\ ze \in Nat /\ z1 + z2 = zo + ze /\ zo >= ze /\ zo <= ze + 2
         /\ zo <= (n1 + 1) \div 2 + (n2 + 1) \div 2 /\ ze <= n1 \div 2 + n2 \div 2
OBVIOUS

\* position 2k gets the minimum and position 2k + 1 the maximum of the even
\* part's k-th and the odd part's (k + 1)-th value
LEMMA ExchangedRight ==
  ASSUME NEW zo \in Nat, NEW ze \in Nat, zo >= ze, zo <= ze + 2, NEW k \in Nat
  PROVE  /\ (k > ze /\ k + 1 > zo) <=> 2 * k > zo + ze
         /\ (k > ze \/ k + 1 > zo) <=> 2 * k + 1 > zo + ze
OBVIOUS

LEMMA ConcatRun3 ==
  ASSUME NEW ps \in Seq(Pairs), NEW qs \in Seq(Pairs), NEW rs \in Seq(Pairs), NEW T, NEW U, RunsTo(T, ps \o qs \o rs, U)
  PROVE  \E M, N \in SUBSET Nat : RunsTo(T, ps, M) /\ RunsTo(M, qs, N) /\ RunsTo(N, rs, U)
<1>1. ps \o qs \in Seq(Pairs)
  OBVIOUS
<1>2. PICK N \in SUBSET Nat : RunsTo(T, ps \o qs, N) /\ RunsTo(N, rs, U)
  BY <1>1, RunSplit
<1>3. PICK M \in SUBSET Nat : RunsTo(T, ps, M) /\ RunsTo(M, qs, N)
  BY <1>2, RunSplit
<1> QED  BY <1>2, <1>3

LEMMA ExchangesRun ==
  ASSUME NEW q1, NEW q2, Ordered(q1, q2), q1.size >= 1, q2.size >= 1, NEW T, NEW U, RunsTo(T, Exchanges(q1, q2), U),
         NEW k \in 1 .. (q1.size + q2.size - 1) \div 2
  PROVE  LET a == At(q1, q2, 2 * k)
             b == At(q1, q2, 2 * k + 1)
         IN  (a \in U <=> (a \in T /\ b \in T)) /\ (b \in U <=> (a \in T \/ b \in T))
<1> DEFINE ps == Exchanges(q1, q2)
           n == q1.size + q2.size
           m == (n - 1) \div 2
           A(i) == At(q1, q2, i)
<1>0. q1 \in WireSeqs /\ q2 \in WireSeqs /\ q1.size \in Nat /\ q2.size \in Nat
  BY WireSeqsParts DEF Ordered
<1>1. n \in Nat /\ n >= 2
  BY <1>0
<1>2. m \in Nat
  <2> HIDE DEF n
  <2> QED  BY <1>1
<1>3. ps = [j \in 1 .. m |-> <<A(2 * j), A(2 * j + 1)>>] /\ ps \in Seq(Pairs)
  <2>1. Exchanges(q1, q2) = [j \in 1 .. (q1.size + q2.size - 1) \div 2 |-> <<At(q1, q2, 2 * j), At(q1, q2, 2 * j + 1)>>]
    BY <1>0, ExchangesAt
  <2>2. ps \in Seq(Pairs)
    BY <1>0, ExchangesTyped
  <2>3. m = (q1.size + q2.size - 1) \div 2
    BY <1>0
  <2> HIDE DEF m
  <2> QED  BY <2>1, <2>2, <2>3
<1>4. Len(ps) = m
  BY <1>2, <1>3
<1>5. \A j \in 1 .. m : ps[j] = <<A(2 * j), A(2 * j + 1)>>
  BY <1>3
<1>6. \A j \in 1 .. m : 2 * j \in 1 .. n /\ 2 * j + 1 \in 1 .. n /\ j \in Nat
  <2> HIDE DEF n
  <2> QED  BY <1>1, <1>2
<1>7. \A i, j \in 1 .. n : A(i) = A(j) => i = j
  BY AtLess
<1>10. k \in 1 .. m
  <2>1. m = (q1.size + q2.size - 1) \div 2
    BY <1>0
  <2> HIDE DEF m
  <2> QED  BY <2>1
<1> HIDE DEF A, m, n, ps
<1>8. ASSUME NEW i \in 1 .. m, NEW j \in 1 .. m, i # j
      PROVE  ps[i][1] # ps[j][1] /\ ps[i][1] # ps[j][2] /\ ps[i][2] # ps[j][1] /\ ps[i][2] # ps[j][2]
  <2>1. 2 * i # 2 * j /\ 2 * i # 2 * j + 1 /\ 2 * i + 1 # 2 * j /\ 2 * i + 1 # 2 * j + 1
    BY <1>6, <1>8
  <2> QED  BY <1>5, <1>6, <1>7, <2>1
<1>9. \A i \in 1 .. m : ps[i][1] # ps[i][2]
  <2>1. \A i \in 1 .. m : 2 * i # 2 * i + 1
    BY <1>6
  <2> QED  BY <1>5, <1>6, <1>7, <2>1
<1>11. /\ ps[k][1] \in U <=> (ps[k][1] \in T /\ ps[k][2] \in T)
       /\ ps[k][2] \in U <=> (ps[k][1] \in T \/ ps[k][2] \in T)
  BY <1>3, <1>4, <1>8, <1>9, <1>10, RunDisjoint DEF ps
<1>12. ps[k] = <<A(2 * k), A(2 * k + 1)>>
  BY <1>5, <1>10
<1> QED  BY <1>11, <1>12 DEF A

\* the comparators of q1, q2 sort the two sequences
Merges(q1, q2) ==
  \A T, U \in SUBSET Nat : \A z1, z2 \in Nat :
    RunsTo(T, Merge[<<q1, q2>>], U) /\ Low(T, q1, z1) /\ Low(T, q2, z2) =>
      \A i \in 1 .. q1.size + q2.size : At(q1, q2, i) \in U <=> i > z1 + z2

LEMMA AtLow ==
  ASSUME NEW q1 \in WireSeqs, NEW q2 \in WireSeqs, NEW T, NEW z1, NEW z2, Low(T, q1, z1), Low(T, q2, z2),
         NEW i \in 1 .. q1.size + q2.size
  PROVE  At(q1, q2, i) \in T <=> IF i <= q1.size THEN i > z1 ELSE i - q1.size > z2
<1>1. q1.size \in Nat /\ q2.size \in Nat
  BY WireSeqsParts
<1>2. CASE i <= q1.size
  BY <1>1, <1>2 DEF At, Low
<1>3. CASE ~ (i <= q1.size)
  <2>1. i - q1.size \in 1 .. q2.size
    BY <1>1, <1>3
  <2> QED  BY <1>3, <2>1 DEF At, Low
<1> QED  BY <1>2, <1>3

LEMMA MergeOfNone ==
  ASSUME NEW q1 \in WireSeqs, NEW q2 \in WireSeqs, q1.size = 0 \/ q2.size = 0
  PROVE  Merges(q1, q2)
<1>1. Merge[<<q1, q2>>] = <<>>
  BY MergeIs DEF MergeBody
<1>2. ASSUME NEW T \in SUBSET Nat, NEW U \in SUBSET Nat, NEW z1 \in Nat, NEW z2 \in Nat, RunsTo(T, Merge[<<q1, q2>>], U),
             Low(T, q1, z1), Low(T, q2, z2), NEW i \in 1 .. q1.size + q2.size
      PROVE  At(q1, q2, i) \in U <=> i > z1 + z2
  <2>1. U = T
    BY <1>1, <1>2, RunEmpty
  <2>2. At(q1, q2, i) \in T <=> IF i <= q1.size THEN i > z1 ELSE i - q1.size > z2
    BY <1>2, AtLow
  <2>3. z1 <= q1.size /\ z2 <= q2.size
    BY <1>2 DEF Low
  <2>4. q1.size \in Nat /\ q2.size \in Nat
    BY WireSeqsParts
  <2>5. (q1.size = 0 => z1 = 0 /\ ~ (i <= q1.size)) /\ (q2.size = 0 => z2 = 0 /\ i <= q1.size)
    BY <2>3, <2>4
  <2>6. (IF i <= q1.size THEN i > z1 ELSE i - q1.size > z2) <=> i > z1 + z2
    BY <2>4, <2>5
  <2> QED  BY <2>1, <2>2, <2>6
<1> QED  BY <1>2 DEF Merges

LEMMA MergeOfOnes ==
  ASSUME NEW q1, NEW q2, Ordered(q1, q2), q1.size = 1, q2.size = 1
  PROVE  Merges(q1, q2)
<1> DEFINE a == At(q1, q2, 1)
           b == At(q1, q2, 2)
<1>1. q1 \in WireSeqs /\ q2 \in WireSeqs
  BY DEF Ordered
<1>2. Merge[<<q1, q2>>] = <<<<a, b>>>>
  <2>1. Merge[<<q1, q2>>] = MergeBody(Merge, q1, q2)
    BY <1>1, MergeIs
  <2>2. MergeBody(Merge, q1, q2) = <<<<q1.first, q2.first>>>>
    BY DEF MergeBody
  <2>3. a = q1.first /\ b = q2.first
    BY <1>1, SizeOne
  <2> HIDE DEF a, b
  <2> QED  BY <2>1, <2>2, <2>3
<1>3. a \in Nat /\ b \in Nat /\ a # b
  BY AtLess
<1>4. ASSUME NEW T \in SUBSET Nat, NEW U \in SUBSET Nat, NEW z1 \in Nat, NEW z2 \in Nat, RunsTo(T, Merge[<<q1, q2>>], U),
             Low(T, q1, z1), Low(T, q2, z2), NEW i \in 1 .. q1.size + q2.size
      PROVE  At(q1, q2, i) \in U <=> i > z1 + z2
  <2>1. U = Exchanged(T, <<a, b>>)
    BY <1>2, <1>4, RunOne
  <2>2. (a \in T <=> 1 > z1) /\ (b \in T <=> 1 > z2)
    BY <1>1, <1>4, AtLow
  <2>3. z1 <= 1 /\ z2 <= 1
    BY <1>4 DEF Low
  <2> HIDE DEF a, b
  <2>4. (a \in U <=> (a \in T /\ b \in T)) /\ (b \in U <=> (a \in T \/ b \in T))
    BY <1>3, <2>1 DEF Exchanged
  <2>5. (a \in U <=> 1 > z1 + z2) /\ (b \in U <=> 2 > z1 + z2)
    BY <2>2, <2>3, <2>4
  <2>6. i = 1 \/ i = 2
    OBVIOUS
  <2> QED  BY <2>5, <2>6 DEF a, b
<1> QED  BY <1>4 DEF Merges

LEMMA MergePair ==
  ASSUME NEW q1 \in WireSeqs, NEW q2 \in WireSeqs, q1.size >= 1, q2.size >= 1,
         NEW k \in 1 .. (q1.size + q2.size - 1) \div 2
  PROVE  /\ k \in 1 .. Even(q1).size + Even(q2).size /\ k + 1 \in 1 .. Odd(q1).size + Odd(q2).size
         /\ {At(q1, q2, 2 * k), At(q1, q2, 2 * k + 1)} = {At(Even(q1), Even(q2), k), At(Odd(q1), Odd(q2), k + 1)}
<1> DEFINE a == q1.size
           b == q2.size
<1>1. a \in Nat /\ b \in Nat /\ a >= 1 /\ b >= 1 /\ Odd(q1).size = (a + 1) \div 2 /\ Odd(q2).size = (b + 1) \div 2
      /\ Even(q1).size = a \div 2 /\ Even(q2).size = b \div 2
  BY WireSeqsParts, OddWires, EvenWires
<1>0. k \in 1 .. (a + b - 1) \div 2
  OBVIOUS
<1> HIDE DEF a, b
<1>2. PICK h \in Nat : \/ a = 2 * h /\ a % 2 = 0 /\ a \div 2 = h /\ (a + 1) \div 2 = h
                       \/ a = 2 * h + 1 /\ a % 2 # 0 /\ a \div 2 = h /\ (a + 1) \div 2 = h + 1
  BY <1>1, Parity
<1>3. PICK g \in Nat : \/ b = 2 * g /\ b \div 2 = g /\ (b + 1) \div 2 = g
                       \/ b = 2 * g + 1 /\ b \div 2 = g /\ (b + 1) \div 2 = g + 1
  BY <1>1, Parity
<1>4. k \in Nat /\ k >= 1 /\ 2 * k + 1 <= a + b
  BY <1>0, <1>1
<1>5. k \in 1 .. Even(q1).size + Even(q2).size
  BY <1>1, <1>2, <1>3, <1>4
<1>6. k + 1 \in 1 .. Odd(q1).size + Odd(q2).size
  BY <1>1, <1>2, <1>3, <1>4
<1>7. At(Even(q1), Even(q2), k) = At(q1, q2, EvenPlace(a, k)) /\ At(Odd(q1), Odd(q2), k + 1) = At(q1, q2, OddPlace(a, k + 1))
  BY <1>5, <1>6, EvenPlaces, OddPlaces DEF a
<1>8. \/ EvenPlace(a, k) = 2 * k /\ OddPlace(a, k + 1) = 2 * k + 1
      \/ EvenPlace(a, k) = 2 * k + 1 /\ OddPlace(a, k + 1) = 2 * k
  BY <1>2, <1>4 DEF EvenPlace, OddPlace
<1> QED  BY <1>5, <1>6, <1>7, <1>8

\* the first position is the odd part's first, and with an even number of
\* wires the last one is the last of one of the parts
LEMMA MergeEnds ==
  ASSUME NEW q1 \in WireSeqs, NEW q2 \in WireSeqs, q1.size >= 1, q2.size >= 1
  PROVE  LET n == q1.size + q2.size
             no == Odd(q1).size + Odd(q2).size
             ne == Even(q1).size + Even(q2).size
         IN  /\ no \in Nat /\ ne \in Nat /\ no >= 1 /\ At(q1, q2, 1) = At(Odd(q1), Odd(q2), 1)
             /\ n % 2 = 0 => \/ n = 2 * ne /\ no = ne /\ ne >= 1 /\ At(q1, q2, n) = At(Even(q1), Even(q2), ne)
                             \/ n = 2 * no - 2 /\ ne = no - 2 /\ At(q1, q2, n) = At(Odd(q1), Odd(q2), no)
<1> DEFINE a == q1.size
           b == q2.size
           n == a + b
           no == Odd(q1).size + Odd(q2).size
           ne == Even(q1).size + Even(q2).size
<1>1. a \in Nat /\ b \in Nat /\ a >= 1 /\ b >= 1 /\ Odd(q1).size = (a + 1) \div 2 /\ Odd(q2).size = (b + 1) \div 2
      /\ Even(q1).size = a \div 2 /\ Even(q2).size = b \div 2
  BY WireSeqsParts, OddWires, EvenWires
<1> HIDE DEF a, b
<1>2. PICK h \in Nat : \/ a = 2 * h /\ a % 2 = 0 /\ a \div 2 = h /\ (a + 1) \div 2 = h
                       \/ a = 2 * h + 1 /\ a % 2 # 0 /\ a \div 2 = h /\ (a + 1) \div 2 = h + 1
  BY <1>1, Parity
<1>3. PICK g \in Nat : \/ b = 2 * g /\ b % 2 = 0 /\ b \div 2 = g /\ (b + 1) \div 2 = g
                       \/ b = 2 * g + 1 /\ b % 2 # 0 /\ b \div 2 = g /\ (b + 1) \div 2 = g + 1
  BY <1>1, Parity
<1>4. no \in Nat /\ ne \in Nat /\ no >= 1
  BY <1>1, <1>2, <1>3
<1>5. At(q1, q2, 1) = At(Odd(q1), Odd(q2), 1)
  <2>1. OddPlace(a, 1) = 1
    BY <1>1 DEF OddPlace
  <2>2. 1 \in 1 .. Odd(q1).size + Odd(q2).size
    BY <1>4
  <2> QED  BY <2>1, <2>2, OddPlaces DEF a
<1>6. ASSUME n % 2 = 0, a % 2 = 0
      PROVE  n = 2 * ne /\ no = ne /\ ne >= 1 /\ At(q1, q2, n) = At(Even(q1), Even(q2), ne)
  <2>1. a = 2 * h
    BY <1>2, <1>6
  <2>2. b = 2 * g
    BY <1>1, <1>3, <1>6, <2>1
  <2>3. Even(q1).size = h /\ Even(q2).size = g /\ Odd(q1).size = h /\ Odd(q2).size = g
    <3>1. (2 * h) \div 2 = h /\ (2 * g) \div 2 = g /\ (2 * h + 1) \div 2 = h /\ (2 * g + 1) \div 2 = g
      OBVIOUS
    <3> QED  BY <1>1, <2>1, <2>2, <3>1
  <2>4. n = 2 * ne /\ no = ne /\ ne >= 1 /\ ne \in 1 .. Even(q1).size + Even(q2).size
    BY <1>1, <2>1, <2>2, <2>3
  <2>5. EvenPlace(a, ne) = n
    BY <1>6, <2>4 DEF EvenPlace
  <2>6. At(Even(q1), Even(q2), ne) = At(q1, q2, EvenPlace(a, ne))
    BY <2>4, EvenPlaces DEF a
  <2> QED  BY <2>4, <2>5, <2>6
<1>7. ASSUME n % 2 = 0, a % 2 # 0
      PROVE  n = 2 * no - 2 /\ ne = no - 2 /\ At(q1, q2, n) = At(Odd(q1), Odd(q2), no)
  <2>1. a = 2 * h + 1
    BY <1>2, <1>7
  <2>2. b = 2 * g + 1
    BY <1>1, <1>3, <1>7, <2>1
  <2>3. Even(q1).size = h /\ Even(q2).size = g /\ Odd(q1).size = h + 1 /\ Odd(q2).size = g + 1
    <3>1. (2 * h + 1) \div 2 = h /\ (2 * g + 1) \div 2 = g /\ (2 * h + 1 + 1) \div 2 = h + 1 /\ (2 * g + 1 + 1) \div 2 = g + 1
      OBVIOUS
    <3> QED  BY <1>1, <2>1, <2>2, <3>1
  <2>4. n = 2 * no - 2 /\ ne = no - 2 /\ no \in 1 .. Odd(q1).size + Odd(q2).size /\ ~ (2 * no - 1 <= a)
    BY <1>1, <2>1, <2>2, <2>3
  <2>5. OddPlace(a, no) = n
    BY <1>7, <2>4 DEF OddPlace
  <2>6. At(Odd(q1), Odd(q2), no) = At(q1, q2, OddPlace(a, no))
    BY <2>4, OddPlaces DEF a
  <2> QED  BY <2>4, <2>5, <2>6
<1> HIDE DEF no, ne, n
<1>8. n % 2 = 0 => \/ n = 2 * ne /\ no = ne /\ ne >= 1 /\ At(q1, q2, n) = At(Even(q1), Even(q2), ne)
                   \/ n = 2 * no - 2 /\ ne = no - 2 /\ At(q1, q2, n) = At(Odd(q1), Odd(q2), no)
  BY <1>6, <1>7
<1> QED  BY <1>4, <1>5, <1>8 DEF no, ne, n, a, b

LEMMA MergesStep ==
  ASSUME NEW q1, NEW q2, Ordered(q1, q2), q1.size >= 1, q2.size >= 1, ~ (q1.size = 1 /\ q2.size = 1),
         Merges(Odd(q1), Odd(q2)), Merges(Even(q1), Even(q2))
  PROVE  Merges(q1, q2)
<1> DEFINE a == q1.size
           b == q2.size
           n == a + b
           po == Merge[<<Odd(q1), Odd(q2)>>]
           pe == Merge[<<Even(q1), Even(q2)>>]
           px == Exchanges(q1, q2)
           O(i) == At(Odd(q1), Odd(q2), i)
           E(i) == At(Even(q1), Even(q2), i)
           A(i) == At(q1, q2, i)
           no == Odd(q1).size + Odd(q2).size
           ne == Even(q1).size + Even(q2).size
<1>1. q1 \in WireSeqs /\ q2 \in WireSeqs /\ a \in Nat /\ b \in Nat /\ a >= 1 /\ b >= 1
  BY WireSeqsParts DEF Ordered
<1>2. Merge[<<q1, q2>>] = po \o pe \o px
  <2>1. Merge[<<q1, q2>>] = MergeBody(Merge, q1, q2)
    BY <1>1, MergeIs
  <2>2. ~ (q1.size = 0 \/ q2.size = 0)
    BY <1>1
  <2> QED  BY <2>1, <2>2 DEF MergeBody
<1>3. po \in Seq(Pairs) /\ pe \in Seq(Pairs) /\ px \in Seq(Pairs)
  BY <1>1, OddWires, EvenWires, MergeIs, ExchangesTyped
<1>4. Ordered(Odd(q1), Odd(q2)) /\ Ordered(Even(q1), Even(q2))
  BY PartsOrdered
<1>5. Touch(po) \subseteq Reach(Odd(q1), Odd(q2)) /\ Touch(pe) \subseteq Reach(Even(q1), Even(q2))
  BY <1>4, MergeCovers DEF Covers
<1>6. Reach(Odd(q1), Odd(q2)) \cap Reach(Even(q1), Even(q2)) = {}
  BY PartsReach
<1>7. no \in Nat /\ ne \in Nat /\ no >= 1
  BY <1>1, MergeEnds
<1>8. (\A i \in 1 .. no : O(i) \in Nat /\ O(i) \notin Touch(pe)) /\ \A i \in 1 .. ne : E(i) \in Nat /\ E(i) \notin Touch(po)
  <2>1. (\A i \in 1 .. no : O(i) \in Nat) /\ \A i \in 1 .. ne : E(i) \in Nat
    BY <1>4, AtLess
  <2>2. (\A i \in 1 .. no : O(i) \in Reach(Odd(q1), Odd(q2))) /\ \A i \in 1 .. ne : E(i) \in Reach(Even(q1), Even(q2))
    BY DEF Reach
  <2> HIDE DEF O, E, po, pe, no, ne
  <2> QED  BY <1>5, <1>6, <2>1, <2>2
<1>9. ASSUME NEW T \in SUBSET Nat, NEW U \in SUBSET Nat, NEW z1 \in Nat, NEW z2 \in Nat, RunsTo(T, Merge[<<q1, q2>>], U),
             Low(T, q1, z1), Low(T, q2, z2)
      PROVE  \A i \in 1 .. n : A(i) \in U <=> i > z1 + z2
  <2> DEFINE zo == (z1 + 1) \div 2 + (z2 + 1) \div 2
             ze == z1 \div 2 + z2 \div 2
  <2>1. z1 <= a /\ z2 <= b
    BY <1>9 DEF Low
  <2>2. /\ zo \in Nat /\ ze \in Nat /\ z1 + z2 = zo + ze /\ zo >= ze /\ zo <= ze + 2
        /\ zo <= (a + 1) \div 2 + (b + 1) \div 2 /\ ze <= a \div 2 + b \div 2
    <3> HIDE DEF a, b
    <3> QED  BY <1>1, <2>1, ZeroParts
  <2>3. zo <= no /\ ze <= ne
    <3>1. no = (a + 1) \div 2 + (b + 1) \div 2 /\ ne = a \div 2 + b \div 2
      BY <1>1, OddWires, EvenWires
    <3> HIDE DEF zo, ze, no, ne
    <3> QED  BY <2>2, <3>1
  <2>4. PICK M, N \in SUBSET Nat : RunsTo(T, po, M) /\ RunsTo(M, pe, N) /\ RunsTo(N, px, U)
    <3>1. RunsTo(T, po \o pe \o px, U)
      BY <1>2, <1>9
    <3> HIDE DEF po, pe, px
    <3> QED  BY <1>3, <3>1, ConcatRun3
  <2>5. \A i \in 1 .. no : O(i) \in M <=> i > zo
    <3>1. Low(T, Odd(q1), (z1 + 1) \div 2) /\ Low(T, Odd(q2), (z2 + 1) \div 2)
      BY <1>1, <1>9, OddLow
    <3>2. (z1 + 1) \div 2 \in Nat /\ (z2 + 1) \div 2 \in Nat
      BY <2>2
    <3> QED  BY <2>4, <3>1, <3>2 DEF Merges
  <2>6. \A i \in 1 .. ne : E(i) \in N <=> i > ze
    <3>1. Low(T, Even(q1), z1 \div 2) /\ Low(T, Even(q2), z2 \div 2)
      BY <1>1, <1>9, EvenLow
    <3>2. z1 \div 2 \in Nat /\ z2 \div 2 \in Nat
      BY <2>2
    <3>3. \A e \in Reach(Even(q1), Even(q2)) : e \in M <=> e \in T
      <4>1. ASSUME NEW i \in 1 .. ne PROVE E(i) \in M <=> E(i) \in T
        <5> HIDE DEF E, po, ne
        <5> QED  BY <1>3, <1>8, <2>4, RunFrame
      <4> QED  BY <4>1 DEF Reach
    <3>4. (\A i \in 1 .. Even(q1).size : Nth(Even(q1), i) \in Reach(Even(q1), Even(q2)))
          /\ \A i \in 1 .. Even(q2).size : Nth(Even(q2), i) \in Reach(Even(q1), Even(q2))
      <4>0. Even(q1).size \in Nat /\ Even(q2).size \in Nat
        BY <1>1, EvenWires, WireSeqsParts
      <4>1. ASSUME NEW i \in 1 .. Even(q1).size PROVE Nth(Even(q1), i) \in Reach(Even(q1), Even(q2))
        <5>1. At(Even(q1), Even(q2), i) = Nth(Even(q1), i) /\ i \in 1 .. Even(q1).size + Even(q2).size
          BY <4>0 DEF At
        <5> QED  BY <5>1 DEF Reach
      <4>2. ASSUME NEW i \in 1 .. Even(q2).size PROVE Nth(Even(q2), i) \in Reach(Even(q1), Even(q2))
        <5> DEFINE j == Even(q1).size + i
        <5>1. j \in 1 .. Even(q1).size + Even(q2).size /\ ~ (j <= Even(q1).size) /\ j - Even(q1).size = i
          BY <4>0
        <5> HIDE DEF j
        <5>2. At(Even(q1), Even(q2), j) = Nth(Even(q2), i)
          BY <5>1, AtSecond
        <5> QED  BY <5>1, <5>2 DEF Reach
      <4> QED  BY <4>1, <4>2
    <3>5. Low(M, Even(q1), z1 \div 2) /\ Low(M, Even(q2), z2 \div 2)
      BY <3>1, <3>3, <3>4, LowSame
    <3> DEFINE x1 == z1 \div 2
               x2 == z2 \div 2
    <3>6. Low(M, Even(q1), x1) /\ Low(M, Even(q2), x2) /\ x1 \in Nat /\ x2 \in Nat /\ ze = x1 + x2
      BY <3>2, <3>5
    <3>7. RunsTo(M, pe, N) /\ M \in SUBSET Nat /\ N \in SUBSET Nat
      BY <2>4
    <3> HIDE DEF x1, x2, ze
    <3>8. \A i \in 1 .. Even(q1).size + Even(q2).size : At(Even(q1), Even(q2), i) \in N <=> i > x1 + x2
      BY <3>6, <3>7 DEF Merges
    <3> QED  BY <3>6, <3>8
  <2>7. \A i \in 1 .. no : O(i) \in N <=> i > zo
    <3>1. ASSUME NEW i \in 1 .. no PROVE O(i) \in N <=> O(i) \in M
      <4> HIDE DEF O, pe, no
      <4> QED  BY <1>3, <1>8, <2>4, RunFrame
    <3> HIDE DEF O, no, zo
    <3> QED  BY <2>5, <3>1
  <2>8. n \in Nat /\ n >= 2
    BY <1>1
  <2> HIDE DEF zo, ze, po, pe
  <2>9. ASSUME NEW k \in 1 .. (n - 1) \div 2
        PROVE  (A(2 * k) \in U <=> 2 * k > z1 + z2) /\ (A(2 * k + 1) \in U <=> 2 * k + 1 > z1 + z2)
    <3>0. k \in 1 .. (q1.size + q2.size - 1) \div 2
      <4>1. (q1.size + q2.size - 1) \div 2 = (n - 1) \div 2
        BY <1>1
      <4> HIDE DEF n
      <4> QED  BY <4>1
    <3>1. k \in Nat
      <4> HIDE DEF n
      <4> QED  BY <2>8
    <3>2. (A(2 * k) \in U <=> (A(2 * k) \in N /\ A(2 * k + 1) \in N)) /\ (A(2 * k + 1) \in U <=> (A(2 * k) \in N \/ A(2 * k + 1) \in N))
      BY <2>4, <3>0, ExchangesRun
    <3>3. k \in 1 .. ne /\ k + 1 \in 1 .. no /\ {A(2 * k), A(2 * k + 1)} = {E(k), O(k + 1)}
      BY <1>1, <3>0, MergePair
    <3> HIDE DEF A, E, O, no, ne
    <3>4. (E(k) \in N <=> k > ze) /\ (O(k + 1) \in N <=> k + 1 > zo)
      BY <2>6, <2>7, <3>3
    <3>5. (A(2 * k) = E(k) /\ A(2 * k + 1) = O(k + 1)) \/ (A(2 * k) = O(k + 1) /\ A(2 * k + 1) = E(k))
      BY <3>3
    <3>6. (A(2 * k) \in U <=> (k > ze /\ k + 1 > zo)) /\ (A(2 * k + 1) \in U <=> (k > ze \/ k + 1 > zo))
      BY <3>2, <3>4, <3>5
    <3> QED  BY <2>2, <3>1, <3>6, ExchangedRight
  <2>10. A(1) \in U <=> 1 > z1 + z2
    <3>1. A(1) \in Nat /\ A(1) \notin Touch(px)
      <4>1. 1 \in 1 .. q1.size + q2.size
        BY <1>1
      <4> QED  BY <1>1, <4>1, AtLess, ExchangesCover
    <3>2. A(1) \in U <=> A(1) \in N
      <4> HIDE DEF A, px
      <4> QED  BY <1>3, <2>4, <3>1, RunFrame
    <3>3. A(1) = O(1)
      BY <1>1, MergeEnds
    <3>4. A(1) \in N <=> 1 > zo
      <4> HIDE DEF A, O, no
      <4>1. 1 \in 1 .. no
        BY <1>7
      <4> QED  BY <2>7, <3>3, <4>1
    <3> HIDE DEF A
    <3> QED  BY <2>2, <3>2, <3>4
  <2>11. n % 2 = 0 => (A(n) \in U <=> n > z1 + z2)
    <3>1. SUFFICES ASSUME n % 2 = 0 PROVE A(n) \in U <=> n > z1 + z2
      OBVIOUS
    <3>2. A(n) \in Nat /\ A(n) \notin Touch(px)
      <4>1. n \in 1 .. q1.size + q2.size
        BY <1>1
      <4> QED  BY <1>1, <3>1, <4>1, AtLess, ExchangesCover
    <3>3. A(n) \in U <=> A(n) \in N
      <4> HIDE DEF A, px, n
      <4> QED  BY <1>3, <2>4, <3>2, RunFrame
    <3>4. (n = 2 * ne /\ no = ne /\ ne >= 1 /\ A(n) = E(ne)) \/ (n = 2 * no - 2 /\ ne = no - 2 /\ A(n) = O(no))
      BY <1>1, <3>1, MergeEnds
    <3> HIDE DEF A, E, O, no, ne, n
    <3>5. CASE n = 2 * ne /\ no = ne /\ ne >= 1 /\ A(n) = E(ne)
      <4>1. E(ne) \in N <=> ne > ze
        <5>1. ne \in 1 .. ne
          BY <1>7, <3>5
        <5> QED  BY <2>6, <5>1
      <4>2. ne > ze <=> n > zo + ze
        BY <1>7, <2>2, <2>3, <3>5
      <4> QED  BY <2>2, <3>3, <3>5, <4>1, <4>2
    <3>6. CASE n = 2 * no - 2 /\ ne = no - 2 /\ A(n) = O(no)
      <4>1. O(no) \in N <=> no > zo
        <5>1. no \in 1 .. no
          BY <1>7
        <5> QED  BY <2>7, <5>1
      <4>2. no > zo <=> n > zo + ze
        BY <1>7, <2>2, <2>3, <3>6
      <4> QED  BY <2>2, <3>3, <3>6, <4>1, <4>2
    <3> QED  BY <3>4, <3>5, <3>6
  <2>12. ASSUME NEW i \in 1 .. n PROVE A(i) \in U <=> i > z1 + z2
    <3> HIDE DEF A, n
    <3>0. i \in Nat
      BY <2>8
    <3>1. PICK h \in Nat : i = 2 * h \/ i = 2 * h + 1
      BY <3>0, Parity
    <3>2. i = 1 \/ (i = n /\ n % 2 = 0) \/ (h \in 1 .. (n - 1) \div 2 /\ (i = 2 * h \/ i = 2 * h + 1))
      <4>1. i >= 1 /\ i <= n /\ i \in Nat
        BY <2>8
      <4>2. CASE i = 1 \/ (i = n /\ n % 2 = 0)
        BY <4>2
      <4>3. CASE ~ (i = 1 \/ (i = n /\ n % 2 = 0))
        <5>1. PICK g \in Nat : (n = 2 * g /\ n % 2 = 0) \/ (n = 2 * g + 1 /\ n % 2 # 0)
          BY <2>8, Parity
        <5>2. h >= 1 /\ 2 * h + 1 <= n
          BY <2>8, <3>1, <4>1, <4>3, <5>1
        <5>3. h <= (n - 1) \div 2 /\ (n - 1) \div 2 \in Nat
          BY <2>8, <5>2
        <5> QED  BY <3>1, <5>2, <5>3
      <4> QED  BY <4>2, <4>3
    <3> QED  BY <2>9, <2>10, <2>11, <3>2
  <2> QED  BY <2>12
<1> QED  BY <1>9 DEF Merges

LEMMA MergeSorts == ASSUME NEW q1, NEW q2, Ordered(q1, q2) PROVE Merges(q1, q2)
<1> DEFINE n == q1.size + q2.size
           S == {k \in 0 .. n : \A x, y \in WireSeqs : x.size + y.size <= k /\ Ordered(x, y) => Merges(x, y)}
<1>1. q1 \in WireSeqs /\ q2 \in WireSeqs /\ n \in Nat /\ \A x \in WireSeqs : x.size \in Nat
  BY WireSeqsParts DEF Ordered
<1>2. 0 \in S
  <2>1. ASSUME NEW x \in WireSeqs, NEW y \in WireSeqs, x.size + y.size <= 0, Ordered(x, y) PROVE Merges(x, y)
    <3>1. x.size = 0
      BY <1>1, <2>1
    <3> QED  BY <3>1, MergeOfNone
  <2> QED  BY <1>1, <2>1
<1>3. ASSUME NEW k \in 1 .. n, k-1 \in S PROVE k \in S
  <2>1. ASSUME NEW x \in WireSeqs, NEW y \in WireSeqs, x.size + y.size <= k, Ordered(x, y) PROVE Merges(x, y)
    <3>1. \A u, v \in WireSeqs : u.size + v.size < x.size + y.size /\ Ordered(u, v) => Merges(u, v)
      <4>1. \A u, v \in WireSeqs : u.size + v.size < x.size + y.size => u.size + v.size <= k-1
        BY <1>1, <2>1
      <4> QED  BY <1>3, <4>1
    <3>2. x.size # 0 /\ y.size # 0 /\ ~ (x.size = 1 /\ y.size = 1) =>
            Merges(Odd(x), Odd(y)) /\ Merges(Even(x), Even(y)) /\ x.size >= 1 /\ y.size >= 1
      BY <2>1, <3>1, MergeSmaller, PartsOrdered
    <3> QED  BY <2>1, <3>2, MergesStep, MergeOfNone, MergeOfOnes
  <2> QED  BY <2>1
<1>4. \A k \in 0 .. n : k \in S
  <2> HIDE DEF S
  <2> QED  BY <1>1, <1>2, <1>3, Upward
<1>5. n \in S
  <2> HIDE DEF S
  <2> QED  BY <1>1, <1>4
<1> QED  BY <1>1, <1>5

-----------------------------------------------------------------------------
(* encode_network sorts. *)

Block(first, n) == first .. first + n - 1
Zeros(T, first, n) == Cardinality(Block(first, n) \ T)

NetworkCovers(first, n) ==
  LET ps == Network[<<first, n>>]
  IN  Increasing(ps) /\ Touch(ps) \subseteq Block(first, n) /\ (n >= 2 => Block(first, n) \subseteq Touch(ps))

NetworkSorts(first, n) ==
  \A T, U \in SUBSET Nat :
    RunsTo(T, Network[<<first, n>>], U) => \A i \in 1 .. n : first + i - 1 \in U <=> i > Zeros(T, first, n)

LEMMA BlockZeros ==
  ASSUME NEW first \in Nat, NEW a \in Nat, NEW b \in Nat, NEW T
  PROVE  /\ Zeros(T, first, a) \in 0 .. a
         /\ Zeros(T, first, a + b) = Zeros(T, first, a) + Zeros(T, first + a, b)
<1> DEFINE A == Block(first, a)
           B == Block(first + a, b)
           C == Block(first, a + b)
<1>1. A \cap B = {} /\ C = A \cup B
  BY DEF Block
<1>2. IsFiniteSet(A) /\ Cardinality(A) = a /\ IsFiniteSet(B)
  <2>1. IsFiniteSet(A) /\ Cardinality(A) = IF first > first + a - 1 THEN 0 ELSE (first + a - 1) - first + 1
    BY FS_Interval DEF Block
  <2>2. IsFiniteSet(B)
    BY FS_Interval DEF Block
  <2> QED  BY <2>1, <2>2
<1> HIDE DEF A, B, C
<1>3. IsFiniteSet(A \ T) /\ IsFiniteSet(B \ T) /\ Cardinality(A \ T) <= Cardinality(A)
  BY <1>2, FS_Subset
<1>4. Cardinality(A \ T) \in Nat /\ Cardinality(B \ T) \in Nat
  BY <1>3, FS_CardinalityType
<1>5. (A \ T) \cap (B \ T) = {} /\ C \ T = (A \ T) \cup (B \ T)
  BY <1>1
<1>6. Cardinality({}) = 0
  BY FS_EmptySet
<1>7. Cardinality(C \ T) = Cardinality(A \ T) + Cardinality(B \ T) - 0
  BY <1>3, <1>5, <1>6, FS_Union
<1> QED  BY <1>2, <1>3, <1>4, <1>7 DEF Zeros, A, B, C

\* the two halves that encode_network merges
HalvesHold(first, a, b) ==
  LET q1 == Lines2(first, a)
      q2 == Lines2(first + a, b)
  IN  /\ Ordered(q1, q2) /\ q1.size = a /\ q2.size = b
      /\ \A i \in 1 .. a + b : At(q1, q2, i) = first + i - 1
      /\ Reach(q1, q2) = Block(first, a + b)

LEMMA HalvesOrdered == ASSUME NEW first \in Nat, NEW a \in Nat, NEW b \in Nat PROVE HalvesHold(first, a, b)
<1> DEFINE q1 == Lines2(first, a)
           q2 == Lines2(first + a, b)
<1>1. q1 \in WireSeqs /\ q1.size = a /\ q1.step = 1 /\ \A i \in Nat : Nth(q1, i) = first + i - 1
  BY Lines2Typed
<1>2. q2 \in WireSeqs /\ q2.size = b /\ q2.step = 1 /\ \A i \in Nat : Nth(q2, i) = first + a + i - 1
  <2>1. first + a \in Nat
    OBVIOUS
  <2> QED  BY <2>1, Lines2Typed
<1> HIDE DEF q1, q2
<1>3. Ordered(q1, q2)
  <2>1. \A i \in 1 .. a : \A j \in 1 .. b : Nth(q1, i) < Nth(q2, j)
    BY <1>1, <1>2
  <2> QED  BY <1>1, <1>2, <2>1 DEF Ordered
<1>4. ASSUME NEW i \in 1 .. a + b PROVE At(q1, q2, i) = first + i - 1
  <2>1. CASE i <= a
    BY <1>1, <2>1 DEF At
  <2>2. CASE ~ (i <= a)
    <3>1. i - a \in Nat /\ first + a + (i - a) - 1 = first + i - 1
      BY <2>2
    <3>2. At(q1, q2, i) = Nth(q2, i - a)
      BY <1>1, <2>2 DEF At
    <3> QED  BY <1>2, <3>1, <3>2
  <2> QED  BY <2>1, <2>2
<1>5. Reach(q1, q2) = Block(first, a + b)
  <2>1. Reach(q1, q2) = {At(q1, q2, i) : i \in 1 .. a + b}
    BY <1>1, <1>2 DEF Reach
  <2>2. \A e \in Block(first, a + b) : e - first + 1 \in 1 .. a + b /\ e = first + (e - first + 1) - 1
    BY DEF Block
  <2>3. \A i \in 1 .. a + b : first + i - 1 \in Block(first, a + b)
    BY DEF Block
  <2>4. Reach(q1, q2) \subseteq Block(first, a + b)
    BY <1>4, <2>1, <2>3
  <2>5. ASSUME NEW e \in Block(first, a + b) PROVE e \in Reach(q1, q2)
    <3>1. PICK i \in 1 .. a + b : e = first + i - 1
      BY <2>2
    <3>2. e = At(q1, q2, i)
      BY <1>4, <3>1
    <3> QED  BY <2>1, <3>2
  <2> QED  BY <2>4, <2>5
<1> QED  BY <1>1, <1>2, <1>3, <1>4, <1>5 DEF q1, q2, HalvesHold

LEMMA NetworkStep ==
  ASSUME NEW first \in Nat, NEW a \in Nat, NEW b \in Nat, NEW n, n = a + b, a >= 1, b >= 1, a = n \div 2,
         NetworkCovers(first, a), NetworkCovers(first + a, b), NetworkSorts(first, a), NetworkSorts(first + a, b)
  PROVE  NetworkCovers(first, n) /\ NetworkSorts(first, n)
<1> DEFINE q1 == Lines2(first, a)
           q2 == Lines2(first + a, b)
           p1 == Network[<<first, a>>]
           p2 == Network[<<first + a, b>>]
           pm == Merge[<<q1, q2>>]
           ps == Network[<<first, n>>]
           A == Block(first, a)
           B == Block(first + a, b)
           C == Block(first, n)
<1>1. first + a \in Nat /\ n \in Nat /\ ~ (n <= 1) /\ n >= 2 /\ b = n - a
  OBVIOUS
<1>2. p1 \in Seq(Pairs) /\ p2 \in Seq(Pairs) /\ ps = NetworkBody(Network, first, n)
  BY <1>1, NetworkIs
<1>3. ps = p1 \o p2 \o pm
  <2>1. n \div 2 = a /\ n - n \div 2 = b
    BY <1>1
  <2>2. ps = Network[<<first, n \div 2>>] \o Network[<<first + n \div 2, n - n \div 2>>]
             \o Merge[<<Lines2(first, n \div 2), Lines2(first + n \div 2, n - n \div 2)>>]
    BY <1>1, <1>2 DEF NetworkBody
  <2> QED  BY <2>1, <2>2
<1>4. Ordered(q1, q2) /\ q1.size = a /\ q2.size = b /\ (\A i \in 1 .. a + b : At(q1, q2, i) = first + i - 1) /\ Reach(q1, q2) = C
  <2>1. HalvesHold(first, a, b)
    BY HalvesOrdered
  <2>2. C = Block(first, a + b)
    OBVIOUS
  <2> QED  BY <2>1, <2>2 DEF HalvesHold
<1> HIDE DEF q1, q2
<1>5. pm \in Seq(Pairs) /\ Covers(q1, q2) /\ Merges(q1, q2)
  BY <1>4, MergeIs, MergeCovers, MergeSorts DEF Ordered
<1>6. A \cap B = {} /\ C = A \cup B /\ A \subseteq Nat /\ B \subseteq Nat
  BY <1>1 DEF Block
<1>7. Increasing(pm) /\ Touch(pm) \subseteq C /\ C \subseteq Touch(pm)
  BY <1>4, <1>5 DEF Covers
<1>8. Increasing(p1) /\ Increasing(p2) /\ Touch(p1) \subseteq A /\ Touch(p2) \subseteq B
  BY DEF NetworkCovers
<1> HIDE DEF ps, A, B, C
<1>9. NetworkCovers(first, n)
  <2> HIDE DEF p1, p2, pm
  <2>1. p1 \o p2 \in Seq(Pairs)
    BY <1>2
  <2>2. Increasing(p1 \o p2) /\ Touch(p1 \o p2) = Touch(p1) \cup Touch(p2)
    BY <1>2, <1>8, IncreasingConcat, TouchConcat
  <2>3. Increasing(ps) /\ Touch(ps) = Touch(p1) \cup Touch(p2) \cup Touch(pm)
    BY <1>3, <1>5, <1>7, <2>1, <2>2, IncreasingConcat, TouchConcat
  <2> QED  BY <1>6, <1>7, <1>8, <2>3 DEF NetworkCovers, ps, C
<1>10. ASSUME NEW T \in SUBSET Nat, NEW U \in SUBSET Nat, RunsTo(T, ps, U), NEW i \in 1 .. n
       PROVE  first + i - 1 \in U <=> i > Zeros(T, first, n)
  <2>1. PICK M, N \in SUBSET Nat : RunsTo(T, p1, M) /\ RunsTo(M, p2, N) /\ RunsTo(N, pm, U)
    <3>1. RunsTo(T, p1 \o p2 \o pm, U)
      BY <1>3, <1>10
    <3> HIDE DEF p1, p2, pm
    <3> QED  BY <1>2, <1>5, <3>1, ConcatRun3
  <2> DEFINE z1 == Zeros(T, first, a)
             z2 == Zeros(M, first + a, b)
  <2>2. (\A j \in 1 .. a : first + j - 1 \in M <=> j > z1) /\ \A j \in 1 .. b : first + a + j - 1 \in N <=> j > z2
    BY <2>1 DEF NetworkSorts
  <2>3. z1 \in 0 .. a /\ z2 \in 0 .. b /\ Zeros(T, first, n) = z1 + Zeros(T, first + a, b)
    BY <1>1, BlockZeros
  <2>4. \A e \in B : e \in M <=> e \in T
    <3> HIDE DEF p1
    <3> QED  BY <1>2, <1>6, <1>8, <2>1, RunFrame
  <2>5. \A e \in A : e \in N <=> e \in M
    <3> HIDE DEF p2
    <3> QED  BY <1>2, <1>6, <1>8, <2>1, RunFrame
  <2>6. Zeros(T, first + a, b) = z2
    <3>1. B \ T = B \ M
      BY <2>4
    <3> QED  BY <3>1 DEF Zeros, B
  <2> HIDE DEF z1, z2
  <2>7. Low(N, q1, z1)
    <3>1. \A j \in 1 .. a : Nth(q1, j) = first + j - 1 /\ first + j - 1 \in A
      BY Lines2Typed DEF q1, A, Block
    <3> QED  BY <1>4, <2>2, <2>3, <2>5, <3>1 DEF Low
  <2>8. Low(N, q2, z2)
    <3>1. \A j \in 1 .. b : Nth(q2, j) = first + a + j - 1
      BY <1>1, Lines2Typed DEF q2
    <3> QED  BY <1>4, <2>2, <2>3, <3>1 DEF Low
  <2>9. \A j \in 1 .. a + b : At(q1, q2, j) \in U <=> j > z1 + z2
    <3>1. z1 \in Nat /\ z2 \in Nat
      BY <2>3
    <3> HIDE DEF pm
    <3> QED  BY <1>4, <1>5, <2>1, <2>7, <2>8, <3>1 DEF Merges, pm
  <2> QED  BY <1>4, <2>3, <2>6, <2>9
<1>11. NetworkSorts(first, n)
  BY <1>10 DEF NetworkSorts, ps
<1> QED  BY <1>9, <1>11

LEMMA NetworkSmall ==
  ASSUME NEW first \in Nat, NEW n \in Nat, n <= 1
  PROVE  NetworkCovers(first, n) /\ NetworkSorts(first, n)
<1> DEFINE ps == Network[<<first, n>>]
<1>1. ps = <<>>
  BY NetworkIs DEF NetworkBody
<1>2. Len(ps) = 0
  BY <1>1
<1> HIDE DEF ps
<1>3. Increasing(ps) /\ Touch(ps) = {}
  BY <1>2 DEF Increasing, Touch
<1>4. NetworkCovers(first, n)
  BY <1>3 DEF NetworkCovers, ps
<1>5. ASSUME NEW T \in SUBSET Nat, NEW U \in SUBSET Nat, RunsTo(T, ps, U), NEW i \in 1 .. n
      PROVE  first + i - 1 \in U <=> i > Zeros(T, first, n)
  <2>1. U = T
    BY <1>1, <1>5, RunEmpty
  <2>2. n = 1 /\ i = 1 /\ first + i - 1 = first
    OBVIOUS
  <2>3. Block(first, n) = {first}
    BY <2>2 DEF Block
  <2>4. Zeros(T, first, n) = IF first \in T THEN 0 ELSE 1
    <3>1. {first} \ T = IF first \in T THEN {} ELSE {first}
      OBVIOUS
    <3>2. Cardinality({}) = 0 /\ Cardinality({first}) = 1
      BY FS_EmptySet, FS_Singleton
    <3> QED  BY <2>3, <3>1, <3>2 DEF Zeros
  <2> QED  BY <2>1, <2>2, <2>4
<1>6. NetworkSorts(first, n)
  BY <1>5 DEF NetworkSorts, ps
<1> QED  BY <1>4, <1>6

(* encode_network sorts: for every number of wires its comparators touch    *)
(* all of them, and whatever the wires carry, leave it sorted, however the  *)
(* halves of odd sizes are split and merged.                                *)
THEOREM NetworkRight ==
  ASSUME NEW first \in Nat, NEW n \in Nat
  PROVE  NetworkCovers(first, n) /\ NetworkSorts(first, n)
<1> DEFINE Right(f, m) == NetworkCovers(f, m) /\ NetworkSorts(f, m)
           S == {k \in 0 .. n : \A f, m \in Nat : m <= k => Right(f, m)}
<1>1. 0 \in S
  <2>1. \A m \in Nat : m <= 0 => m <= 1
    OBVIOUS
  <2> QED  BY <2>1, NetworkSmall
<1>2. ASSUME NEW k \in 1 .. n, k-1 \in S PROVE k \in S
  <2>1. ASSUME NEW f \in Nat, NEW m \in Nat, m <= k PROVE Right(f, m)
    <3>1. CASE m <= 1
      BY <3>1, NetworkSmall
    <3>2. CASE ~ (m <= 1)
      <4> DEFINE a == m \div 2
                 b == m - m \div 2
      <4>1. a \in Nat /\ b \in Nat /\ a < m /\ b < m /\ a >= 1 /\ b >= 1
        BY <3>2, HalfLess
      <4> HIDE DEF Right
      <4>2. \A x, y \in Nat : y <= k-1 => Right(x, y)
        BY <1>2
      <4>0. a = m \div 2 /\ b = m - a
        OBVIOUS
      <4> HIDE DEF a, b
      <4>3. a <= k-1 /\ b <= k-1 /\ f + a \in Nat /\ m = a + b
        BY <2>1, <4>0, <4>1
      <4>4. Right(f, a) /\ Right(f + a, b)
        BY <4>1, <4>2, <4>3
      <4> QED  BY <4>0, <4>1, <4>3, <4>4, NetworkStep DEF Right
    <3> QED  BY <3>1, <3>2
  <2> HIDE DEF Right
  <2> QED  BY <2>1
<1>3. \A k \in 0 .. n : k \in S
  <2> HIDE DEF S
  <2> QED  BY <1>1, <1>2, Upward
<1>4. n \in S
  <2> HIDE DEF S
  <2> QED  BY <1>3
<1> QED  BY <1>4

-----------------------------------------------------------------------------
(* The clauses of the comparators: what unit propagation derives from them. *)

Closed(L, F) == \A c \in F : \A l \in c : (\A m \in c \ {l} : -m \in L) => l \in L
Shows(L, l, b) == IF b THEN l \in L ELSE -l \in L

LEMMA ClosedLess == ASSUME NEW L, NEW F, NEW G, Closed(L, G), F \subseteq G PROVE Closed(L, F)
BY DEF Closed

FiniteClauses(F) == IsFiniteSet(F) /\ \A c \in F : IsFiniteSet(c) /\ c \subseteq Int

\* the solvers the networks are built in
SolverRecords == [hard : SUBSET SUBSET Int, id : Nat, end : {""}, modulo : {-1}, gte : {<<>>}, buckets : {0}]
Solvers == {s \in SolverRecords : FiniteClauses(s.hard)}

LEMMA MaxExists ==
  ASSUME NEW S, S \subseteq Nat, IsFiniteSet(S), S # {}
  PROVE  \E m \in S : \A x \in S : x <= m
<1> DEFINE n == Cardinality(S)
           M == {k \in 0 .. n : \A T \in SUBSET S : T # {} /\ Cardinality(T) <= k => \E m \in T : \A x \in T : x <= m}
<1>0. n \in Nat /\ \A T \in SUBSET S : IsFiniteSet(T) /\ Cardinality(T) \in Nat /\ Cardinality(T) <= n
  BY FS_CardinalityType, FS_Subset
<1>1. 0 \in M
  <2>1. ASSUME NEW T \in SUBSET S, T # {}, Cardinality(T) <= 0 PROVE FALSE
    <3>1. Cardinality(T) = 0
      BY <1>0, <2>1
    <3> QED  BY <1>0, <2>1, <3>1, FS_EmptySet
  <2> QED  BY <1>0, <2>1
<1>2. ASSUME NEW k \in 1 .. n, k-1 \in M PROVE k \in M
  <2>1. ASSUME NEW T \in SUBSET S, T # {}, Cardinality(T) <= k PROVE \E m \in T : \A x \in T : x <= m
    <3>1. PICK y \in T : TRUE
      BY <2>1
    <3> DEFINE R == T \ {y}
    <3>2. R \in SUBSET S /\ Cardinality(R) = Cardinality(T) - 1
      BY <1>0, FS_RemoveElement
    <3>3. Cardinality(R) <= k-1
      BY <1>0, <2>1, <3>2
    <3>4. T = R \cup {y} /\ y \in Nat
      BY <3>1
    <3>5. CASE R = {}
      BY <3>4, <3>5
    <3>6. CASE R # {}
      <4> HIDE DEF R
      <4>1. PICK m \in R : \A x \in R : x <= m
        BY <1>2, <3>2, <3>3, <3>6
      <4>2. m \in Nat /\ m \in T /\ R \subseteq Nat
        BY <3>2, <3>4
      <4> DEFINE z == IF y <= m THEN m ELSE y
      <4>3. z \in T /\ y <= z /\ m <= z /\ z \in Nat
        BY <3>4, <4>2
      <4>4. \A x \in R : x <= z
        BY <4>1, <4>2, <4>3
      <4> HIDE DEF z
      <4> QED  BY <3>4, <4>3, <4>4
    <3> QED  BY <3>5, <3>6
  <2> QED  BY <2>1
<1>3. \A k \in 0 .. n : k \in M
  <2> HIDE DEF M
  <2> QED  BY <1>0, <1>1, <1>2, Upward
<1>4. n \in M
  <2> HIDE DEF M
  <2> QED  BY <1>0, <1>3
<1>5. Cardinality(S) <= n /\ S \in SUBSET S
  BY <1>0
<1> HIDE DEF n
<1> QED  BY <1>4, <1>5

LEMMA MaxNat ==
  ASSUME NEW S, S \subseteq Nat, IsFiniteSet(S), S # {}
  PROVE  Max(S) \in S /\ \A x \in S : x <= Max(S)
<1>1. PICK m \in S : \A x \in S : x <= m
  BY MaxExists
<1>2. m \in S /\ \A y \in S : m >= y
  BY <1>1
<1> DEFINE P(x) == x \in S /\ \A y \in S : x >= y
           mx == CHOOSE x : P(x)
<1>3. P(mx)
  BY <1>2
<1>4. Max(S) = mx
  BY DEF Max
<1> QED  BY <1>3, <1>4

\* a clause of a list of literals is a finite set
LEMMA FiniteUpTo4 ==
  ASSUME NEW a, NEW b, NEW c, NEW d
  PROVE  IsFiniteSet({a, b}) /\ IsFiniteSet({a, b, c}) /\ IsFiniteSet({a, b, c, d})
<1>1. IsFiniteSet({a})
  BY FS_Singleton
<1>2. {a, b} = {a} \cup {b} /\ {a, b, c} = {a, b} \cup {c} /\ {a, b, c, d} = {a, b, c} \cup {d}
  OBVIOUS
<1>3. IsFiniteSet({a, b})
  BY <1>1, <1>2, FS_AddElement
<1>4. IsFiniteSet({a, b, c})
  BY <1>2, <1>3, FS_AddElement
<1>5. IsFiniteSet({a, b, c, d})
  BY <1>2, <1>4, FS_AddElement
<1> QED  BY <1>3, <1>4, <1>5

\* the clauses of insert_comparator
Comparator(a, b, min, max) == {{-max, a, b}, {max, -a}, {max, -b}, {-min, a}, {-min, b}, {min, -a, -b}}

LEMMA ComparatorFinite ==
  ASSUME NEW a \in Names, NEW b \in Names, NEW min \in Names, NEW max \in Names
  PROVE  /\ FiniteClauses(Comparator(a, b, min, max))
         /\ Vars(Comparator(a, b, min, max)) = {a, b, min, max}
         /\ \A c \in Comparator(a, b, min, max) : c # {} /\ 0 \notin c
<1> DEFINE cs == Comparator(a, b, min, max)
<1>1. \A x \in Names : x \in Int /\ -x \in Int /\ x # 0 /\ -x # 0 /\ AbsLit(x) = x /\ AbsLit(-x) = x
  BY DEF Names, AbsLit
<1>2. \A c \in cs : IsFiniteSet(c) /\ c \subseteq Int /\ c # {} /\ 0 \notin c
  <2>1. ASSUME NEW c \in cs PROVE IsFiniteSet(c)
    <3>1. \/ c = {max, -a} \/ c = {max, -b} \/ c = {-min, a} \/ c = {-min, b}
          \/ c = {-max, a, b} \/ c = {min, -a, -b}
      BY DEF Comparator
    <3> HIDE DEF cs
    <3>2. \A x, y, z : IsFiniteSet({x, y}) /\ IsFiniteSet({x, y, z})
      BY FiniteUpTo4
    <3>3. CASE c = {max, -a}
      BY <3>2, <3>3
    <3>4. CASE c = {max, -b}
      BY <3>2, <3>4
    <3>5. CASE c = {-min, a}
      BY <3>2, <3>5
    <3>6. CASE c = {-min, b}
      BY <3>2, <3>6
    <3>7. CASE c = {-max, a, b}
      BY <3>2, <3>7
    <3>8. CASE c = {min, -a, -b}
      BY <3>2, <3>8
    <3> QED  BY <3>1, <3>3, <3>4, <3>5, <3>6, <3>7, <3>8
  <2>2. ASSUME NEW c \in cs PROVE c \subseteq Int /\ c # {} /\ 0 \notin c
    BY <1>1 DEF Comparator
  <2> QED  BY <2>1, <2>2
<1>3. IsFiniteSet(cs)
  <2> DEFINE x == {{-max, a, b}, {max, -a}, {max, -b}}
             y == {{-min, a}, {-min, b}, {min, -a, -b}}
  <2>1. IsFiniteSet(x) /\ IsFiniteSet(y)
    BY FiniteUpTo4
  <2>2. cs = x \cup y
    BY DEF Comparator
  <2> HIDE DEF x, y, cs
  <2> QED  BY <2>1, <2>2, FS_Union
<1>4. Vars(cs) = {a, b, min, max}
  <2>1. UNION cs = {a, b, min, max, -a, -b, -min, -max}
    BY DEF Comparator
  <2>2. Vars(cs) = {AbsLit(l) : l \in {a, b, min, max, -a, -b, -min, -max}}
    BY <2>1 DEF Vars
  <2> QED  BY <1>1, <2>2
<1> QED  BY <1>2, <1>3, <1>4 DEF FiniteClauses

(* Whatever the inputs of a comparator are shown to be, its outputs are *)
(* shown to be their minimum and their maximum.                         *)
LEMMA ComparatorShows ==
  ASSUME NEW a \in Names, NEW b \in Names, NEW min \in Names, NEW max \in Names, NEW L, Closed(L, Comparator(a, b, min, max)),
         NEW x \in BOOLEAN, NEW y \in BOOLEAN, Shows(L, a, x), Shows(L, b, y)
  PROVE  Shows(L, min, x /\ y) /\ Shows(L, max, x \/ y)
<1>1. a \in Int /\ b \in Int /\ min \in Int /\ max \in Int
  BY DEF Names
<1>2. \A l \in Int : -(-l) = l
  OBVIOUS
<1>3. ASSUME NEW l, NEW m \in L, {l, -m} \in Comparator(a, b, min, max), m \in Int PROVE l \in L
  <2>1. \A k \in {l, -m} \ {l} : -k = m
    BY <1>2, <1>3
  <2> QED  BY <1>3, <2>1 DEF Closed
<1>4. ASSUME NEW l, NEW m \in L, NEW k \in L, {l, -m, -k} \in Comparator(a, b, min, max), m \in Int, k \in Int PROVE l \in L
  <2>1. \A e \in {l, -m, -k} \ {l} : -e = m \/ -e = k
    BY <1>2, <1>4
  <2> QED  BY <1>4, <2>1 DEF Closed
<1>5. {max, -a} \in Comparator(a, b, min, max) /\ {max, -b} \in Comparator(a, b, min, max)
      /\ {-min, -(-a)} \in Comparator(a, b, min, max) /\ {-min, -(-b)} \in Comparator(a, b, min, max)
      /\ {-max, -(-a), -(-b)} \in Comparator(a, b, min, max) /\ {min, -a, -b} \in Comparator(a, b, min, max)
      /\ -a \in Int /\ -b \in Int
  BY <1>1, <1>2 DEF Comparator
<1>6. (a \in L => max \in L) /\ (b \in L => max \in L) /\ (-a \in L => -min \in L) /\ (-b \in L => -min \in L)
  BY <1>1, <1>3, <1>5
<1>7. (-a \in L /\ -b \in L => -max \in L) /\ (a \in L /\ b \in L => min \in L)
  BY <1>1, <1>4, <1>5
<1> QED  BY <1>6, <1>7 DEF Shows

\* the networks with n wires whose wires have a variable or an input
Nets(n, objective) ==
  {net \in [s : Solvers, w : Seq(Names \cup {-1})] :
     Len(net.w) = n /\ \A e \in 1 .. n : net.w[e] = -1 => e \in 1 .. Len(objective)}

\* the variable with the value of wire e, and the wires of T are shown true
Feed(w, objective, e) == IF w[e] = -1 THEN objective[e] ELSE w[e]
ShowsAll(L, w, objective, T) == \A e \in 1 .. Len(w) : Shows(L, Feed(w, objective, e), e \in T)

LEMMA SolverParts ==
  ASSUME NEW S \in Solvers
  PROVE  /\ S = [hard |-> S.hard, id |-> S.id, end |-> "", modulo |-> -1, gte |-> <<>>, buckets |-> 0]
         /\ S.end = "" /\ S.id \in Nat /\ FiniteClauses(S.hard) /\ S.hard \in SUBSET SUBSET Int
BY DEF Solvers, SolverRecords

LEMMA SolverMade ==
  ASSUME NEW h, FiniteClauses(h), NEW id \in Nat
  PROVE  [hard |-> h, id |-> id, end |-> "", modulo |-> -1, gte |-> <<>>, buckets |-> 0] \in Solvers
<1> DEFINE s == [hard |-> h, id |-> id, end |-> "", modulo |-> -1, gte |-> <<>>, buckets |-> 0]
<1>1. h \in SUBSET SUBSET Int
  BY DEF FiniteClauses
<1>2. s \in SolverRecords /\ s.hard = h
  BY <1>1 DEF SolverRecords
<1> HIDE DEF s
<1> QED  BY <1>2 DEF Solvers, s

LEMMA NetParts ==
  ASSUME NEW n \in Nat, NEW objective \in Seq(Names), NEW net \in Nets(n, objective)
  PROVE  /\ net = [s |-> net.s, w |-> net.w] /\ net.s \in Solvers /\ net.w \in Seq(Names \cup {-1}) /\ Len(net.w) = n
         /\ \A e \in 1 .. n : /\ Feed(net.w, objective, e) \in Names
                              /\ net.w[e] = -1 => e \in 1 .. Len(objective)
                              /\ net.w[e] \in Names \cup {-1}
<1>1. net = [s |-> net.s, w |-> net.w] /\ net.s \in Solvers /\ net.w \in Seq(Names \cup {-1}) /\ Len(net.w) = n
      /\ \A e \in 1 .. n : net.w[e] = -1 => e \in 1 .. Len(objective)
  BY DEF Nets
<1>2. \A e \in 1 .. n : net.w[e] \in Names \cup {-1}
  BY <1>1
<1>3. \A e \in 1 .. n : Feed(net.w, objective, e) \in Names
  BY <1>1, <1>2 DEF Feed
<1> QED  BY <1>1, <1>2, <1>3

\* a solver that only has clauses, and what is done to it
SolverOf(h, i, e) == [hard |-> h, id |-> i, end |-> e, modulo |-> -1, gte |-> <<>>, buckets |-> 0]

With(S, h, i) == [S EXCEPT !.hard = h, !.id = i]

LEMMA SolverWith ==
  ASSUME NEW h0, NEW i0, NEW e, NEW h, NEW i
  PROVE  With(SolverOf(h0, i0, e), h, i) = SolverOf(h, i, e)
<1>1. [SolverOf(h0, i0, e) EXCEPT !.hard = h] = SolverOf(h, i0, e)
  BY DEF SolverOf
<1>2. [SolverOf(h, i0, e) EXCEPT !.id = i] = SolverOf(h, i, e)
  BY DEF SolverOf
<1> DEFINE S == SolverOf(h0, i0, e)
<1> HIDE DEF S
<1>3. [S EXCEPT !.hard = h, !.id = i] = [[S EXCEPT !.hard = h] EXCEPT !.id = i]
  OBVIOUS
<1> QED  BY <1>1, <1>2, <1>3 DEF S, With

LEMMA AddedTo ==
  ASSUME NEW h, NEW i, NEW cs, {} \notin cs, \A c \in cs : 0 \notin c
  PROVE  Add(SolverOf(h, i, ""), cs) = SolverOf(h \cup cs, Max({i} \cup Vars(cs)), "")
<1> DEFINE S == SolverOf(h, i, "")
<1>1. S.hard = h /\ S.id = i /\ S.end = ""
  BY DEF SolverOf
<1> HIDE DEF S
<1>2. Add(S, cs) = With(S, h \cup cs, Max({i} \cup Vars(cs)))
  BY <1>1 DEF Add, With
<1> DEFINE c == ""
<1>3. S = SolverOf(h, i, c)
  BY DEF S
<1> HIDE DEF c
<1>4. With(S, h \cup cs, Max({i} \cup Vars(cs))) = SolverOf(h \cup cs, Max({i} \cup Vars(cs)), c)
  BY <1>3, SolverWith
<1> QED  BY <1>2, <1>4 DEF c, S

LEMMA SkippedOf ==
  ASSUME NEW h, NEW i \in Nat, NEW k \in Nat
  PROVE  Skip(SolverOf(h, i, ""), k) = SolverOf(h, i + k, "")
<1>1. [SolverOf(h, i, "") EXCEPT !.id = i + k] = SolverOf(h, i + k, "")
  <2> DEFINE j == i + k
             c == ""
  <2> HIDE DEF j, c
  <2>1. [SolverOf(h, i, c) EXCEPT !.id = j] = SolverOf(h, j, c)
    BY DEF SolverOf
  <2> QED  BY <2>1 DEF j, c
<1>2. SolverOf(h, i, "").id = i
  BY DEF SolverOf
<1> DEFINE S == SolverOf(h, i, "")
<1> HIDE DEF S
<1>3. Skip(S, k) = [S EXCEPT !.id = S.id + k]
  BY DEF Skip
<1> QED  BY <1>1, <1>2, <1>3 DEF S

\* the net r is the net with a comparator on the wires e1 and e2
InsertedOne(net, e1, e2, objective, r) ==
  LET min == net.s.id + 1
      max == net.s.id + 2
      cs  == Comparator(Feed(net.w, objective, e1), Feed(net.w, objective, e2), min, max)
  IN  /\ r.s.hard = net.s.hard \cup cs
      /\ r.s.id = Max({net.s.id + 2} \cup Vars(cs))
      /\ r.w = [net.w EXCEPT ![e1] = min, ![e2] = max]

LEMMA InsertOne ==
  ASSUME NEW n \in Nat, NEW objective \in Seq(Names), NEW net \in Nets(n, objective),
         NEW e1 \in 1 .. n, NEW e2 \in 1 .. n, e1 < e2
  PROVE  LET r == InsertComparator(net, e1, e2, objective)
         IN  /\ r \in Nets(n, objective) /\ net.s.hard \subseteq r.s.hard
             /\ InsertedOne(net, e1, e2, objective, r)
             /\ r.w[e1] \in Names /\ r.w[e2] \in Names /\ \A e \in 1 .. n : e # e1 /\ e # e2 => r.w[e] = net.w[e]
             /\ \A L, T : Closed(L, r.s.hard) /\ ShowsAll(L, net.w, objective, T) /\ T \subseteq Nat =>
                  ShowsAll(L, r.w, objective, Exchanged(T, <<e1, e2>>))
<1> DEFINE r == InsertComparator(net, e1, e2, objective)
           a == Feed(net.w, objective, e1)
           b == Feed(net.w, objective, e2)
           min == net.s.id + 1
           max == net.s.id + 2
           cs == Comparator(a, b, min, max)
           id == Max({net.s.id + 2} \cup Vars(cs))
           w == [net.w EXCEPT ![e1] = min, ![e2] = max]
           h == net.s.hard \cup cs
<1>0. e1 \in Nat /\ e2 \in Nat /\ e1 # e2 /\ ~ (e1 > e2) /\ e2 > e1
  OBVIOUS
<1>1. net = [s |-> net.s, w |-> net.w] /\ net.s \in Solvers /\ net.w \in Seq(Names \cup {-1}) /\ Len(net.w) = n
      /\ a \in Names /\ b \in Names
      /\ \A e \in 1 .. n : (net.w[e] = -1 => e \in 1 .. Len(objective)) /\ net.w[e] \in Names \cup {-1}
  BY NetParts
<1>2. min \in Names /\ max \in Names /\ net.s.id \in Nat /\ net.s.end = "" /\ FiniteClauses(net.s.hard)
  <2>1. net.s.id \in Nat /\ net.s.end = "" /\ FiniteClauses(net.s.hard)
    BY <1>1, SolverParts
  <2>2. \A i \in Nat : i + 1 \in Nat \ {0} /\ i + 2 \in Nat \ {0}
    OBVIOUS
  <2>3. net.s.id + 1 \in Names /\ net.s.id + 2 \in Names
    BY <2>1, <2>2 DEF Names
  <2> QED  BY <2>1, <2>3
<1> HIDE DEF a, b
<1>3. FiniteClauses(cs) /\ Vars(cs) = {a, b, min, max} /\ \A c \in cs : c # {} /\ 0 \notin c
  BY <1>1, <1>2, ComparatorFinite
<1>4. id \in Nat
  <2>1. {net.s.id + 2} \cup Vars(cs) = {a, b, min, max}
    BY <1>3
  <2>2. IsFiniteSet({a, b, min, max}) /\ {a, b, min, max} \subseteq Nat /\ {a, b, min, max} # {}
    BY <1>1, <1>2, FiniteUpTo4 DEF Names
  <2> HIDE DEF min, max, cs
  <2>3. Max({a, b, min, max}) \in {a, b, min, max}
    BY <2>2, MaxNat
  <2> QED  BY <2>1, <2>2, <2>3
<1>5. r = [s |-> Add(Skip(net.s, 2), cs), w |-> w]
  BY <1>0 DEF InsertComparator, Comparator, Feed, a, b
<1>6. Add(Skip(net.s, 2), cs) = SolverOf(h, id, "")
  <2>1. net.s = SolverOf(net.s.hard, net.s.id, "")
    BY <1>1, SolverParts DEF SolverOf
  <2>2. Skip(net.s, 2) = SolverOf(net.s.hard, net.s.id + 2, "")
    <3>1. 2 \in Nat
      OBVIOUS
    <3>2. Skip(SolverOf(net.s.hard, net.s.id, ""), 2) = SolverOf(net.s.hard, net.s.id + 2, "")
      BY <1>2, <3>1, SkippedOf
    <3> QED  BY <2>1, <3>2
  <2> HIDE DEF cs
  <2>3. {} \notin cs /\ \A c \in cs : 0 \notin c
    BY <1>3
  <2> QED  BY <2>2, <2>3, AddedTo
<1>7. FiniteClauses(h)
  <2> HIDE DEF cs
  <2> QED  BY <1>2, <1>3, FS_Union DEF FiniteClauses
<1> HIDE DEF id
<1>8. r.s = SolverOf(h, id, "") /\ r.w = w /\ r = [s |-> r.s, w |-> r.w]
  <2> HIDE DEF w, h, r
  <2> QED  BY <1>5, <1>6
<1>9. r.s \in Solvers /\ r.s.hard = h
  <2> HIDE DEF h, r
  <2>1. SolverOf(h, id, "") \in Solvers
    BY <1>4, <1>7, SolverMade DEF SolverOf
  <2>2. SolverOf(h, id, "").hard = h
    BY DEF SolverOf
  <2> QED  BY <1>8, <2>1, <2>2
<1>10. w \in Seq(Names \cup {-1}) /\ Len(w) = n /\ w[e1] = min /\ w[e2] = max
       /\ \A e \in 1 .. n : e # e1 /\ e # e2 => w[e] = net.w[e]
  <2> HIDE DEF min, max
  <2>1. net.w \in Seq(Names \cup {-1}) /\ Len(net.w) = n /\ min \in Names \cup {-1} /\ max \in Names \cup {-1}
    BY <1>1, <1>2
  <2> QED  BY <1>0, <2>1
<1>a. min # -1 /\ max # -1
  <2>1. -1 \notin Names
    BY DEF Names
  <2> HIDE DEF min, max
  <2> QED  BY <1>2, <2>1
<1> HIDE DEF r, w
<1>11. r \in Nets(n, objective)
  <2>1. \A e \in 1 .. n : w[e] = -1 => e \in 1 .. Len(objective)
    <3> HIDE DEF min, max
    <3> QED  BY <1>1, <1>10, <1>a
  <2> QED  BY <1>8, <1>9, <1>10, <2>1 DEF Nets
<1>12. ASSUME NEW L, NEW T, Closed(L, r.s.hard), ShowsAll(L, net.w, objective, T), T \subseteq Nat, NEW e \in 1 .. n
       PROVE  Shows(L, Feed(w, objective, e), e \in Exchanged(T, <<e1, e2>>))
  <2> DEFINE x == e1 \in T
             y == e2 \in T
  <2>1. Closed(L, cs)
    BY <1>9, <1>12, ClosedLess
  <2>2. Shows(L, a, x) /\ Shows(L, b, y)
    BY <1>1, <1>12 DEF ShowsAll, a, b
  <2>3. Shows(L, min, x /\ y) /\ Shows(L, max, x \/ y)
    <3>1. Closed(L, Comparator(a, b, min, max)) /\ x \in BOOLEAN /\ y \in BOOLEAN
      BY <2>1
    <3>2. a \in Names /\ b \in Names /\ min \in Names /\ max \in Names
      BY <1>1, <1>2
    <3> HIDE DEF min, max, cs, h, x, y
    <3> QED  BY <2>2, <3>1, <3>2, ComparatorShows
  <2>4. min # -1 /\ max # -1
    BY <1>a
  <2> HIDE DEF min, max
  <2>5. CASE e = e1
    <3>1. Feed(w, objective, e) = min
      BY <1>10, <2>4, <2>5 DEF Feed
    <3>2. e \in Exchanged(T, <<e1, e2>>) <=> x /\ y
      BY <1>0, <2>5 DEF Exchanged
    <3> QED  BY <2>3, <3>1, <3>2 DEF Shows
  <2>6. CASE e = e2
    <3>1. Feed(w, objective, e) = max
      BY <1>10, <2>4, <2>6 DEF Feed
    <3>2. e \in Exchanged(T, <<e1, e2>>) <=> x \/ y
      BY <1>0, <2>6 DEF Exchanged
    <3> QED  BY <2>3, <3>1, <3>2 DEF Shows
  <2>7. CASE e # e1 /\ e # e2
    <3>1. Feed(w, objective, e) = Feed(net.w, objective, e)
      BY <1>10, <2>7 DEF Feed
    <3>2. e \in Exchanged(T, <<e1, e2>>) <=> e \in T
      BY <2>7 DEF Exchanged
    <3>3. Shows(L, Feed(net.w, objective, e), e \in T)
      BY <1>1, <1>12 DEF ShowsAll
    <3> QED  BY <3>1, <3>2, <3>3 DEF Shows
  <2> QED  BY <2>5, <2>6, <2>7
<1>13. \A L, T : Closed(L, r.s.hard) /\ ShowsAll(L, net.w, objective, T) /\ T \subseteq Nat =>
         ShowsAll(L, r.w, objective, Exchanged(T, <<e1, e2>>))
  BY <1>8, <1>10, <1>12 DEF ShowsAll
<1>14. r.w[e1] \in Names /\ r.w[e2] \in Names /\ (\A e \in 1 .. n : e # e1 /\ e # e2 => r.w[e] = net.w[e]) /\ net.s.hard \subseteq r.s.hard
  <2> HIDE DEF min, max, cs
  <2> QED  BY <1>2, <1>8, <1>9, <1>10
<1>15. InsertedOne(net, e1, e2, objective, r)
  <2>1. SolverOf(h, id, "").id = id
    BY DEF SolverOf
  <2>2. r.s.hard = h /\ r.s.id = id /\ r.w = w
    <3> HIDE DEF h
    <3> QED  BY <1>8, <1>9, <2>1
  <2> QED  BY <2>2 DEF InsertedOne, a, b, id, w
<1> QED  BY <1>11, <1>13, <1>14, <1>15 DEF r

LEMMA RunExists == ASSUME NEW ps \in Seq(Pairs), NEW T \in SUBSET Nat PROVE \E h : Run(h, T, ps, h[Len(ps)])
<1> DEFINE n == Len(ps)
           D == SUBSET Nat
           H == [k \in 1 .. n |-> [x \in D |-> Exchanged(x, ps[k])]]
<1>1. \A x, p : Exchanged(x, p) \in D
  BY DEF Exchanged
<1>2. \A k \in 1 .. n : H[k] \in [D -> D] /\ \A x \in D : H[k][x] = Exchanged(x, ps[k])
  BY <1>1
<1>3. n \in Nat
  OBVIOUS
<1> HIDE DEF H, D
<1>4. PICK h : Goes(h, n, D, T, H)
  BY <1>2, <1>3, Iteration DEF D
<1>5. \A k \in 1 .. n : k-1 \in 0 .. n
  BY <1>3
<1>6. \A k \in 1 .. n : h[k] = Exchanged(h[k-1], ps[k])
  BY <1>2, <1>4, <1>5 DEF Goes
<1> QED  BY <1>4, <1>6 DEF Goes, Run, D

\* the network after each of the comparators
Inserted(f, net, ps, objective, n) ==
  /\ f[0] = net
  /\ \A k \in 1 .. Len(ps) : f[k] = InsertComparator(f[k-1], ps[k][1], ps[k][2], objective)
  /\ \A k \in 0 .. Len(ps) : f[k] \in Nets(n, objective)

LEMMA InsertAllSteps ==
  ASSUME NEW n \in Nat, NEW objective \in Seq(Names), NEW net \in Nets(n, objective),
         NEW ps \in Seq(Pairs), Increasing(ps), Touch(ps) \subseteq 1 .. n
  PROVE  \E f : Inserted(f, net, ps, objective, n) /\ InsertAll(net, ps, objective) = f[Len(ps)]
<1> DEFINE m == Len(ps)
           D == Nets(n, objective)
           Step(x, k) == InsertComparator(x, ps[k][1], ps[k][2], objective)
           H == [k \in 1 .. m |-> [x \in D |-> Step(x, k)]]
           Eq(f) == f = [i \in 0 .. m |-> IF i = 0 THEN net ELSE InsertComparator(f[i - 1], ps[i][1], ps[i][2], objective)]
           after == CHOOSE f : Eq(f)
<1>1. m \in Nat /\ \A k \in 1 .. m : ps[k][1] \in 1 .. n /\ ps[k][2] \in 1 .. n /\ ps[k][1] < ps[k][2]
  <2>1. \A k \in 1 .. m : ps[k][1] \in Touch(ps) /\ ps[k][2] \in Touch(ps)
    BY TouchIn
  <2> QED  BY <2>1 DEF Increasing
<1>2. \A k \in 1 .. m : \A x \in D : Step(x, k) \in D
  BY <1>1, InsertOne
<1> HIDE DEF Step
<1>3. \A k \in 1 .. m : H[k] \in [D -> D] /\ \A x \in D : H[k][x] = Step(x, k)
  BY <1>2
<1> HIDE DEF H, D
<1>4. PICK g : Goes(g, m, D, net, H)
  BY <1>1, <1>3, Iteration DEF D
<1>5. \A k \in 1 .. m : k-1 \in 0 .. m
  BY <1>1
<1>6. \A k \in 1 .. m : g[k] = Step(g[k-1], k)
  BY <1>3, <1>4, <1>5 DEF Goes
<1>7. Eq(g)
  <2>1. g \in [0 .. m -> D] /\ g[0] = net
    BY <1>4 DEF Goes
  <2>2. \A i \in 0 .. m : g[i] = IF i = 0 THEN net ELSE Step(g[i - 1], i)
    BY <1>1, <1>6, <2>1
  <2>3. g = [i \in 0 .. m |-> IF i = 0 THEN net ELSE Step(g[i - 1], i)]
    BY <2>1, <2>2
  <2> QED  BY <2>3 DEF Step
<1>8. Eq(after)
  BY <1>7
<1>9. InsertAll(net, ps, objective) = after[m]
  BY DEF InsertAll
<1>10. after[0] = net /\ \A k \in 1 .. m : after[k] = InsertComparator(after[k-1], ps[k][1], ps[k][2], objective)
  <2> HIDE DEF after
  <2>1. \A k \in 1 .. m : k \in 0 .. m /\ k # 0
    BY <1>1
  <2>2. 0 \in 0 .. m
    BY <1>1
  <2>3. after = [i \in 0 .. m |-> IF i = 0 THEN net ELSE InsertComparator(after[i - 1], ps[i][1], ps[i][2], objective)]
    BY <1>8
  <2> QED  BY <2>1, <2>2, <2>3
<1> HIDE DEF after
<1> DEFINE S == {k \in 0 .. m : after[k] \in D}
<1>11. 0 \in S
  BY <1>1, <1>10 DEF D
<1>12. ASSUME NEW k \in 1 .. m, k-1 \in S PROVE k \in S
  BY <1>2, <1>10, <1>12 DEF Step
<1>13. \A k \in 0 .. m : k \in S
  <2> HIDE DEF S
  <2> QED  BY <1>1, <1>11, <1>12, Upward
<1>14. Inserted(after, net, ps, objective, n)
  BY <1>10, <1>13 DEF Inserted, D
<1> QED  BY <1>9, <1>14

LEMMA InsertAllRight ==
  ASSUME NEW n \in Nat, NEW objective \in Seq(Names), NEW net \in Nets(n, objective),
         NEW ps \in Seq(Pairs), Increasing(ps), Touch(ps) \subseteq 1 .. n
  PROVE  LET r == InsertAll(net, ps, objective)
         IN  /\ r \in Nets(n, objective) /\ net.s.hard \subseteq r.s.hard
             /\ \A e \in 1 .. n : IF e \in Touch(ps) THEN r.w[e] \in Names ELSE r.w[e] = net.w[e]
             /\ \A T \in SUBSET Nat : \E U \in SUBSET Nat :
                  /\ RunsTo(T, ps, U)
                  /\ \A L : Closed(L, r.s.hard) /\ ShowsAll(L, net.w, objective, T) => ShowsAll(L, r.w, objective, U)
<1> DEFINE m == Len(ps)
           r == InsertAll(net, ps, objective)
<1>0. m \in Nat /\ \A k \in 1 .. m : ps[k] = <<ps[k][1], ps[k][2]>> /\ k-1 \in 0 .. m /\ k \in 0 .. m
  BY DEF Pairs
<1>1. \A k \in 1 .. m : ps[k][1] \in 1 .. n /\ ps[k][2] \in 1 .. n /\ ps[k][1] < ps[k][2]
  <2>1. \A k \in 1 .. m : ps[k][1] \in Touch(ps) /\ ps[k][2] \in Touch(ps)
    BY TouchIn
  <2> QED  BY <2>1 DEF Increasing
<1>2. PICK f : Inserted(f, net, ps, objective, n) /\ r = f[m]
  BY InsertAllSteps
<1> HIDE DEF r
<1>3. f[0] = net /\ (\A k \in 0 .. m : f[k] \in Nets(n, objective)) /\ \A k \in 1 .. m : f[k] = InsertComparator(f[k-1], ps[k][1], ps[k][2], objective)
  BY <1>2 DEF Inserted
<1>4. ASSUME NEW k \in 1 .. m
      PROVE  /\ f[k-1].s.hard \subseteq f[k].s.hard
             /\ f[k].w[ps[k][1]] \in Names /\ f[k].w[ps[k][2]] \in Names
             /\ \A e \in 1 .. n : e # ps[k][1] /\ e # ps[k][2] => f[k].w[e] = f[k-1].w[e]
             /\ \A L, T : Closed(L, f[k].s.hard) /\ ShowsAll(L, f[k-1].w, objective, T) /\ T \subseteq Nat =>
                  ShowsAll(L, f[k].w, objective, Exchanged(T, ps[k]))
  <2> DEFINE e1 == ps[k][1]
             e2 == ps[k][2]
             x == f[k-1]
             y == InsertComparator(x, e1, e2, objective)
  <2>1. x \in Nets(n, objective) /\ e1 \in 1 .. n /\ e2 \in 1 .. n /\ e1 < e2 /\ f[k] = y /\ ps[k] = <<e1, e2>>
    BY <1>0, <1>1, <1>3
  <2> HIDE DEF e1, e2, x
  <2>2. /\ x.s.hard \subseteq y.s.hard
        /\ y.w[e1] \in Names /\ y.w[e2] \in Names /\ \A e \in 1 .. n : e # e1 /\ e # e2 => y.w[e] = x.w[e]
        /\ \A L, T : Closed(L, y.s.hard) /\ ShowsAll(L, x.w, objective, T) /\ T \subseteq Nat =>
             ShowsAll(L, y.w, objective, Exchanged(T, <<e1, e2>>))
    BY <2>1, InsertOne
  <2> HIDE DEF y
  <2> QED  BY <2>1, <2>2 DEF e1, e2, x
<1> DEFINE W(k) == \A e \in 1 .. n : IF \E j \in 1 .. k : e = ps[j][1] \/ e = ps[j][2] THEN f[k].w[e] \in Names ELSE f[k].w[e] = net.w[e]
           S1 == {k \in 0 .. m : net.s.hard \subseteq f[k].s.hard /\ W(k)}
<1>5. 0 \in S1
  BY <1>0, <1>3
<1>6. ASSUME NEW k \in 1 .. m, k-1 \in S1 PROVE k \in S1
  <2>1. net.s.hard \subseteq f[k].s.hard
    BY <1>4, <1>6
  <2>2. ASSUME NEW e \in 1 .. n
        PROVE  IF \E j \in 1 .. k : e = ps[j][1] \/ e = ps[j][2] THEN f[k].w[e] \in Names ELSE f[k].w[e] = net.w[e]
    <3>1. W(k-1)
      BY <1>6
    <3>2. \A j \in 1 .. k : j = k \/ j \in 1 .. k-1
      BY <1>0
    <3>3. \A j \in 1 .. k-1 : j \in 1 .. k
      BY <1>0
    <3>4. k \in 1 .. k
      BY <1>0
    <3>5. CASE e = ps[k][1] \/ e = ps[k][2]
      BY <1>4, <3>4, <3>5
    <3>6. CASE ~ (e = ps[k][1] \/ e = ps[k][2])
      <4>1. f[k].w[e] = f[k-1].w[e]
        BY <1>4, <3>6
      <4>2. (\E j \in 1 .. k : e = ps[j][1] \/ e = ps[j][2]) <=> \E j \in 1 .. k-1 : e = ps[j][1] \/ e = ps[j][2]
        BY <3>2, <3>3, <3>6
      <4> QED  BY <3>1, <4>1, <4>2
    <3> QED  BY <3>5, <3>6
  <2> QED  BY <2>1, <2>2
<1>7. \A k \in 0 .. m : k \in S1
  <2> HIDE DEF S1
  <2> QED  BY <1>0, <1>5, <1>6, Upward
<1>8. m \in S1
  <2> HIDE DEF S1
  <2> QED  BY <1>0, <1>7
<1>9. \A e \in 1 .. n : IF e \in Touch(ps) THEN r.w[e] \in Names ELSE r.w[e] = net.w[e]
  BY <1>2, <1>8, TouchIn
<1>10. ASSUME NEW T \in SUBSET Nat
       PROVE  \E U \in SUBSET Nat :
                /\ RunsTo(T, ps, U)
                /\ \A L : Closed(L, r.s.hard) /\ ShowsAll(L, net.w, objective, T) => ShowsAll(L, r.w, objective, U)
  <2>1. PICK h : Run(h, T, ps, h[m])
    BY RunExists
  <2>2. (\A k \in 0 .. m : h[k] \in SUBSET Nat) /\ h[0] = T /\ \A k \in 1 .. m : h[k] = Exchanged(h[k-1], ps[k])
    BY <2>1 DEF Run
  <2> DEFINE P(k) == \A L : Closed(L, f[k].s.hard) /\ ShowsAll(L, net.w, objective, T) => ShowsAll(L, f[k].w, objective, h[k])
             S2 == {k \in 0 .. m : P(k)}
  <2>3. 0 \in S2
    BY <1>0, <1>3, <2>2
  <2>4. ASSUME NEW k \in 1 .. m, k-1 \in S2 PROVE k \in S2
    <3>1. ASSUME NEW L, Closed(L, f[k].s.hard), ShowsAll(L, net.w, objective, T) PROVE ShowsAll(L, f[k].w, objective, h[k])
      <4>1. Closed(L, f[k-1].s.hard)
        BY <1>4, <3>1, ClosedLess
      <4>2. ShowsAll(L, f[k-1].w, objective, h[k-1])
        BY <2>4, <3>1, <4>1
      <4>3. h[k-1] \subseteq Nat /\ h[k] = Exchanged(h[k-1], ps[k])
        BY <1>0, <2>2
      <4> QED  BY <1>4, <3>1, <4>2, <4>3
    <3> QED  BY <1>0, <3>1
  <2>5. \A k \in 0 .. m : k \in S2
    <3> HIDE DEF S2
    <3> QED  BY <1>0, <2>3, <2>4, Upward
  <2>6. m \in S2 /\ h[m] \in SUBSET Nat
    <3> HIDE DEF S2
    <3> QED  BY <1>0, <2>2, <2>5
  <2> QED  BY <1>2, <2>1, <2>6 DEF RunsTo
<1>11. r \in Nets(n, objective)
  BY <1>0, <1>2, <1>3
<1> QED  BY <1>2, <1>8, <1>9, <1>10, <1>11 DEF r

-----------------------------------------------------------------------------
(* The networks that Sorted and MergeCoreGuided build *)

\* the number of the elements of xs that are not in B
Falses(xs, B) == Cardinality({j \in 1 .. Len(xs) : xs[j] \notin B})

(* w is inputs sorted: where unit propagation from the clauses F knows the  *)
(* values of the inputs, it knows those of w, and they increase.            *)
Sorts(F, inputs, w) ==
  /\ w \in Seq(Names) /\ Len(w) = Len(inputs)
  /\ \A L, B : Closed(L, F) /\ (\A i \in 1 .. Len(inputs) : Shows(L, inputs[i], inputs[i] \in B)) =>
       \A i \in 1 .. Len(w) : Shows(L, w[i], i > Falses(inputs, B))

LEMMA SortsMore ==
  ASSUME NEW F, NEW G, F \subseteq G, NEW inputs, NEW w, Sorts(F, inputs, w)
  PROVE  Sorts(G, inputs, w)
BY ClosedLess DEF Sorts

\* what an operation on the networks gives: a solver with more clauses, and the outputs
Grown(S, r) == r.s \in Solvers /\ S.hard \subseteq r.s.hard

LEMMA FalsesOne ==
  ASSUME NEW xs \in Seq(Names), Len(xs) = 1, NEW B
  PROVE  1 > Falses(xs, B) <=> xs[1] \in B
<1> DEFINE Z == {j \in 1 .. Len(xs) : xs[j] \notin B}
<1>1. CASE xs[1] \in B
  <2>1. Z = {}
    BY <1>1
  <2>2. Cardinality(Z) = 0 /\ Falses(xs, B) = Cardinality(Z)
    BY <2>1, FS_EmptySet DEF Falses
  <2> QED  BY <1>1, <2>2
<1>2. CASE xs[1] \notin B
  <2>1. Z = {1}
    BY <1>2
  <2>2. Cardinality(Z) = 1 /\ Falses(xs, B) = Cardinality(Z)
    BY <2>1, FS_Singleton DEF Falses
  <2> QED  BY <1>2, <2>2
<1> QED  BY <1>1, <1>2

(* The clauses of encode_sorted sort: for every sequence of inputs, unit    *)
(* propagation makes of known inputs the known, sorted outputs.             *)
THEOREM SortedRight ==
  ASSUME NEW S \in Solvers, NEW inputs \in Seq(Names), Len(inputs) >= 1
  PROVE  LET r == Sorted(S, inputs)
         IN  r = [s |-> r.s, w |-> r.w] /\ Grown(S, r) /\ Sorts(r.s.hard, inputs, r.w)
<1> DEFINE r == Sorted(S, inputs)
           n == Len(inputs)
<1>1. n \in Nat /\ DOMAIN inputs = 1 .. n /\ \A i \in 1 .. n : inputs[i] \in Names
  OBVIOUS
<1>2. CASE n = 1
  <2>1. r = [s |-> S, w |-> inputs]
    BY <1>2 DEF Sorted
  <2> HIDE DEF r
  <2>2. r.s = S /\ r.w = inputs /\ r = [s |-> r.s, w |-> r.w]
    BY <2>1
  <2>3. Sorts(S.hard, inputs, inputs)
    <3>1. ASSUME NEW L, NEW B, \A i \in 1 .. n : Shows(L, inputs[i], inputs[i] \in B), NEW i \in 1 .. n
          PROVE  Shows(L, inputs[i], i > Falses(inputs, B))
      <4>1. i = 1
        BY <1>2
      <4> QED  BY <1>2, <3>1, <4>1, FalsesOne DEF Shows
    <3> QED  BY <3>1 DEF Sorts
  <2> QED  BY <2>2, <2>3 DEF Grown, r
<1>3. CASE n # 1
  <2> DEFINE net == [s |-> S, w |-> [i \in DOMAIN inputs |-> -1]]
             ps == Network[<<1, n>>]
             q == InsertAll(net, ps, inputs)
  <2>1. r = q
    BY <1>3 DEF Sorted
  <2>2. net.s = S /\ net.w = [i \in 1 .. n |-> -1]
    BY <1>1
  <2>3. net.w \in Seq(Names \cup {-1}) /\ Len(net.w) = n /\ \A i \in 1 .. n : net.w[i] = -1
    BY <1>1, <2>2
  <2>4. net \in Nets(n, inputs)
    <3>1. net = [s |-> net.s, w |-> net.w]
      BY <2>2
    <3> HIDE DEF net
    <3> QED  BY <2>2, <2>3, <3>1 DEF Nets
  <2> HIDE DEF net, q
  <2>5. NetworkCovers(1, n) /\ NetworkSorts(1, n) /\ ps \in Seq(Pairs)
    BY <1>1, NetworkRight, NetworkIs
  <2>6. Increasing(ps) /\ Touch(ps) \subseteq 1 .. n /\ 1 .. n \subseteq Touch(ps)
    <3>1. Block(1, n) = 1 .. n /\ n >= 2
      BY <1>1, <1>3 DEF Block
    <3> QED  BY <2>5, <3>1 DEF NetworkCovers
  <2> HIDE DEF ps
  <2>7. /\ q \in Nets(n, inputs) /\ net.s.hard \subseteq q.s.hard
        /\ \A e \in 1 .. n : IF e \in Touch(ps) THEN q.w[e] \in Names ELSE q.w[e] = net.w[e]
        /\ \A T \in SUBSET Nat : \E U \in SUBSET Nat :
             /\ RunsTo(T, ps, U)
             /\ \A L : Closed(L, q.s.hard) /\ ShowsAll(L, net.w, inputs, T) => ShowsAll(L, q.w, inputs, U)
    BY <1>1, <2>4, <2>5, <2>6, InsertAllRight DEF q
  <2>8. q = [s |-> q.s, w |-> q.w] /\ q.s \in Solvers /\ Len(q.w) = n /\ q.w \in Seq(Names)
    <3>1. q = [s |-> q.s, w |-> q.w] /\ q.s \in Solvers /\ q.w \in Seq(Names \cup {-1}) /\ Len(q.w) = n
      BY <1>1, <2>7, NetParts
    <3>2. \A e \in 1 .. n : q.w[e] \in Names
      BY <2>6, <2>7
    <3> QED  BY <3>1, <3>2
  <2>9. ASSUME NEW L, NEW B, Closed(L, q.s.hard), \A i \in 1 .. n : Shows(L, inputs[i], inputs[i] \in B), NEW i \in 1 .. n
        PROVE  Shows(L, q.w[i], i > Falses(inputs, B))
    <3> DEFINE T == {j \in 1 .. n : inputs[j] \in B}
    <3>1. T \in SUBSET Nat /\ \A j \in 1 .. n : j \in T <=> inputs[j] \in B
      OBVIOUS
    <3>2. Falses(inputs, B) = Zeros(T, 1, n)
      <4>1. Block(1, n) \ T = {j \in 1 .. n : inputs[j] \notin B}
        BY <1>1 DEF Block
      <4> QED  BY <4>1 DEF Falses, Zeros
    <3> HIDE DEF T
    <3>3. ShowsAll(L, net.w, inputs, T)
      <4>1. ASSUME NEW e \in 1 .. Len(net.w) PROVE Shows(L, Feed(net.w, inputs, e), e \in T)
        <5>1. Feed(net.w, inputs, e) = inputs[e] /\ e \in 1 .. n
          BY <2>3 DEF Feed
        <5> QED  BY <2>9, <3>1, <5>1 DEF Shows
      <4> QED  BY <4>1 DEF ShowsAll
    <3>4. PICK U \in SUBSET Nat : RunsTo(T, ps, U) /\ (\A M : Closed(M, q.s.hard) /\ ShowsAll(M, net.w, inputs, T) => ShowsAll(M, q.w, inputs, U))
      BY <2>7, <3>1
    <3>5. ShowsAll(L, q.w, inputs, U)
      BY <2>9, <3>3, <3>4
    <3>6. i \in U <=> i > Zeros(T, 1, n)
      <4>1. 1 + i - 1 \in U <=> i > Zeros(T, 1, n)
        BY <2>5, <3>1, <3>4 DEF NetworkSorts, ps
      <4>2. 1 + i - 1 = i
        OBVIOUS
      <4> QED  BY <4>1, <4>2
    <3>7. Feed(q.w, inputs, i) = q.w[i]
      <4>1. q.w[i] \in Names
        BY <2>8
      <4> QED  BY <4>1 DEF Feed, Names
    <3>8. Shows(L, q.w[i], i \in U)
      BY <2>8, <3>5, <3>7 DEF ShowsAll
    <3> QED  BY <3>2, <3>6, <3>8 DEF Shows
  <2>10. Sorts(q.s.hard, inputs, q.w)
    BY <2>8, <2>9 DEF Sorts
  <2> HIDE DEF r
  <2> QED  BY <2>1, <2>2, <2>7, <2>8, <2>10 DEF Grown, r
<1> QED  BY <1>2, <1>3

-----------------------------------------------------------------------------
(* Counting the elements of sequences *)

Number(Q, k) == Cardinality((1 .. k) \cap Q)

LEMMA NumberStep ==
  ASSUME NEW Q
  PROVE  /\ Number(Q, 0) = 0
         /\ \A k \in Nat : Number(Q, k) \in 0 .. k
         /\ \A k \in Nat \ {0} : Number(Q, k) = Number(Q, k-1) + IF k \in Q THEN 1 ELSE 0
<1>1. Number(Q, 0) = 0
  <2>1. (1 .. 0) \cap Q = {}
    OBVIOUS
  <2> QED  BY <2>1, FS_EmptySet DEF Number
<1>2. \A k \in Nat : IsFiniteSet(1 .. k) /\ Cardinality(1 .. k) = k
  <2>1. ASSUME NEW k \in Nat PROVE IsFiniteSet(1 .. k) /\ Cardinality(1 .. k) = k
    <3>1. IsFiniteSet(1 .. k) /\ Cardinality(1 .. k) = IF 1 > k THEN 0 ELSE k-1+1
      BY FS_Interval
    <3> QED  BY <3>1
  <2> QED  BY <2>1
<1>3. \A k \in Nat : IsFiniteSet((1 .. k) \cap Q) /\ Number(Q, k) \in 0 .. k
  <2>1. ASSUME NEW k \in Nat PROVE IsFiniteSet((1 .. k) \cap Q) /\ Number(Q, k) \in 0 .. k
    <3> DEFINE R == (1 .. k) \cap Q
    <3>1. R \in SUBSET (1 .. k)
      OBVIOUS
    <3>2. IsFiniteSet(R) /\ Cardinality(R) <= Cardinality(1 .. k)
      BY <1>2, <3>1, FS_Subset
    <3>3. Cardinality(R) \in Nat
      BY <3>2, FS_CardinalityType
    <3> QED  BY <1>2, <3>2, <3>3 DEF Number
  <2> QED  BY <2>1
<1>4. ASSUME NEW k \in Nat \ {0} PROVE Number(Q, k) = Number(Q, k-1) + IF k \in Q THEN 1 ELSE 0
  <2> DEFINE R == (1 .. k-1) \cap Q
  <2>1. k-1 \in Nat /\ k \notin R
    OBVIOUS
  <2>2. IsFiniteSet(R) /\ Cardinality(R) \in Nat
    BY <1>3, <2>1 DEF Number
  <2>3. CASE k \in Q
    <3>1. (1 .. k) \cap Q = R \cup {k}
      BY <2>3
    <3> HIDE DEF R
    <3>2. Cardinality(R \cup {k}) = Cardinality(R) + 1
      BY <2>1, <2>2, FS_AddElement
    <3> QED  BY <2>3, <3>1, <3>2 DEF Number, R
  <2>4. CASE k \notin Q
    <3>1. (1 .. k) \cap Q = R
      BY <2>4
    <3>2. Number(Q, k) = Cardinality(R) /\ Number(Q, k-1) = Cardinality(R)
      BY <3>1 DEF Number
    <3> HIDE DEF R
    <3> QED  BY <2>2, <2>4, <3>2
  <2> QED  BY <2>3, <2>4
<1> QED  BY <1>1, <1>3, <1>4

LEMMA CountNumber ==
  ASSUME NEW X, NEW s \in Seq(X), NEW B
  PROVE  /\ Count(s, B) = Number({j \in 1 .. Len(s) : s[j] \in B}, Len(s))
         /\ Falses(s, B) = Number({j \in 1 .. Len(s) : s[j] \notin B}, Len(s))
         /\ Count(s, B) \in 0 .. Len(s) /\ Falses(s, B) \in 0 .. Len(s)
<1> DEFINE Q == {j \in 1 .. Len(s) : s[j] \in B}
           R == {j \in 1 .. Len(s) : s[j] \notin B}
<1>1. DOMAIN s = 1 .. Len(s) /\ Len(s) \in Nat
  OBVIOUS
<1>2. (1 .. Len(s)) \cap Q = {j \in DOMAIN s : s[j] \in B} /\ (1 .. Len(s)) \cap R = {j \in 1 .. Len(s) : s[j] \notin B}
  BY <1>1
<1>3. Count(s, B) = Number(Q, Len(s)) /\ Falses(s, B) = Number(R, Len(s))
  BY <1>2 DEF Count, Falses, Number
<1> HIDE DEF Q, R
<1>4. Number(Q, Len(s)) \in 0 .. Len(s) /\ Number(R, Len(s)) \in 0 .. Len(s)
  BY <1>1, NumberStep
<1> QED  BY <1>3, <1>4 DEF Q, R

\* two ways of counting that agree at every step
LEMMA SameNumber ==
  ASSUME NEW n \in Nat, NEW Q, NEW R, NEW m \in Nat, \A k \in 1 .. n : k \in Q <=> m + k \in R
  PROVE  Number(R, m + n) = Number(R, m) + Number(Q, n)
<1> DEFINE S == {k \in 0 .. n : Number(R, m + k) = Number(R, m) + Number(Q, k)}
<1>0. \A k \in Nat : Number(R, m + k) \in Nat /\ Number(Q, k) \in Nat /\ Number(R, m) \in Nat
  <2>1. \A k \in Nat : \A Z : Number(Z, k) \in Nat
    <3>1. ASSUME NEW k \in Nat, NEW Z PROVE Number(Z, k) \in Nat
      <4>1. Number(Z, k) \in 0 .. k
        BY NumberStep
      <4> QED  BY <4>1
    <3> QED  BY <3>1
  <2>2. \A k \in Nat : m + k \in Nat
    OBVIOUS
  <2> QED  BY <2>1, <2>2
<1>1. 0 \in S
  <2>1. m + 0 = m /\ Number(Q, 0) = 0 /\ Number(R, m) \in Nat
    BY NumberStep
  <2> QED  BY <2>1
<1>2. ASSUME NEW k \in 1 .. n, k-1 \in S PROVE k \in S
  <2>1. k \in Nat \ {0} /\ m + k \in Nat \ {0} /\ (m + k) - 1 = m + (k-1) /\ k-1 \in Nat
    OBVIOUS
  <2>2. Number(Q, k) = Number(Q, k-1) + IF k \in Q THEN 1 ELSE 0
    BY <2>1, NumberStep
  <2>3. Number(R, m + k) = Number(R, m + (k-1)) + IF m + k \in R THEN 1 ELSE 0
    BY <2>1, NumberStep
  <2>4. Number(R, m + (k-1)) = Number(R, m) + Number(Q, k-1)
    BY <1>2
  <2> QED  BY <1>0, <2>1, <2>2, <2>3, <2>4
<1>3. \A k \in 0 .. n : k \in S
  <2> HIDE DEF S
  <2> QED  BY <1>1, <1>2, Upward
<1> QED  BY <1>3

LEMMA NumberFirst ==
  ASSUME NEW n \in Nat, NEW Q, NEW R, \A k \in 1 .. n : k \in Q <=> k \in R
  PROVE  Number(R, n) = Number(Q, n)
<1>1. (1 .. n) \cap Q = (1 .. n) \cap R
  OBVIOUS
<1> QED  BY <1>1 DEF Number

LEMMA CountConcat ==
  ASSUME NEW X, NEW s \in Seq(X), NEW t \in Seq(X), NEW B
  PROVE  /\ Count(s \o t, B) = Count(s, B) + Count(t, B)
         /\ Falses(s \o t, B) = Falses(s, B) + Falses(t, B)
<1> DEFINE a == Len(s)
           b == Len(t)
           u == s \o t
<1>1. a \in Nat /\ b \in Nat /\ u \in Seq(X) /\ Len(u) = a + b
      /\ (\A i \in 1 .. a : u[i] = s[i]) /\ \A i \in 1 .. b : u[a + i] = t[i]
  BY ConcatParts
<1> HIDE DEF u
<1>2. ASSUME NEW C
      PROVE  LET QS == {j \in 1 .. a : s[j] \in C}
                 QT == {j \in 1 .. b : t[j] \in C}
                 QU == {j \in 1 .. a + b : u[j] \in C}
             IN  Number(QU, a + b) = Number(QS, a) + Number(QT, b)
  <2> DEFINE QS == {j \in 1 .. a : s[j] \in C}
             QT == {j \in 1 .. b : t[j] \in C}
             QU == {j \in 1 .. a + b : u[j] \in C}
  <2>1. \A k \in 1 .. a : k \in QS <=> k \in QU
    BY <1>1
  <2>2. \A k \in 1 .. b : k \in QT <=> a + k \in QU
    <3>1. \A k \in 1 .. b : a + k \in 1 .. a + b
      BY <1>1
    <3> QED  BY <1>1, <3>1
  <2> HIDE DEF QS, QT, QU, a, b
  <2>3. Number(QU, a) = Number(QS, a)
    BY <1>1, <2>1, NumberFirst
  <2>4. Number(QU, a + b) = Number(QU, a) + Number(QT, b)
    BY <1>1, <2>2, SameNumber
  <2> QED  BY <2>3, <2>4 DEF QS, QT, QU
<1>5. Count(s, B) = Number({j \in 1 .. a : s[j] \in B}, a) /\ Falses(s, B) = Number({j \in 1 .. a : s[j] \notin B}, a)
  BY CountNumber
<1>6. Count(t, B) = Number({j \in 1 .. b : t[j] \in B}, b) /\ Falses(t, B) = Number({j \in 1 .. b : t[j] \notin B}, b)
  BY CountNumber
<1>7. Count(u, B) = Number({j \in 1 .. a + b : u[j] \in B}, a + b) /\ Falses(u, B) = Number({j \in 1 .. a + b : u[j] \notin B}, a + b)
  <2>1. Count(u, B) = Number({j \in 1 .. Len(u) : u[j] \in B}, Len(u)) /\ Falses(u, B) = Number({j \in 1 .. Len(u) : u[j] \notin B}, Len(u))
    BY <1>1, CountNumber
  <2> HIDE DEF a, b
  <2> QED  BY <1>1, <2>1
<1>3. Count(u, B) = Count(s, B) + Count(t, B)
  BY <1>2, <1>5, <1>6, <1>7
<1>4. Falses(u, B) = Falses(s, B) + Falses(t, B)
  <2> DEFINE C == {x \in {s[j] : j \in 1 .. a} \cup {t[j] : j \in 1 .. b} : x \notin B}
  <2>1. /\ {j \in 1 .. a : s[j] \in C} = {j \in 1 .. a : s[j] \notin B}
        /\ {j \in 1 .. b : t[j] \in C} = {j \in 1 .. b : t[j] \notin B}
    OBVIOUS
  <2>2. {j \in 1 .. a + b : u[j] \in C} = {j \in 1 .. a + b : u[j] \notin B}
    <3>1. \A j \in 1 .. a + b : u[j] \in {s[i] : i \in 1 .. a} \cup {t[i] : i \in 1 .. b}
      <4>1. ASSUME NEW j \in 1 .. a + b PROVE u[j] \in {s[i] : i \in 1 .. a} \cup {t[i] : i \in 1 .. b}
        <5>1. CASE j <= a
          BY <1>1, <5>1
        <5>2. CASE ~ (j <= a)
          <6>1. j - a \in 1 .. b /\ a + (j - a) = j
            BY <1>1, <5>2
          <6> QED  BY <1>1, <6>1
        <5> QED  BY <5>1, <5>2
      <4> QED  BY <4>1
    <3> QED  BY <3>1
  <2> HIDE DEF C
  <2>3. LET QS == {j \in 1 .. a : s[j] \in C}
            QT == {j \in 1 .. b : t[j] \in C}
            QU == {j \in 1 .. a + b : u[j] \in C}
        IN  Number(QU, a + b) = Number(QS, a) + Number(QT, b)
    BY <1>2
  <2> HIDE DEF a, b
  <2> QED  BY <1>5, <1>6, <1>7, <2>1, <2>2, <2>3
<1> QED  BY <1>3, <1>4 DEF u

-----------------------------------------------------------------------------
(* Merging new inputs into a network *)

\* the values of the inputs of two networks are low first
LEMMA MergedValues ==
  ASSUME NEW a \in Nat, NEW b \in Nat, NEW z1 \in 0 .. a, NEW z2 \in 0 .. b,
         NEW T \in SUBSET Nat, \A i \in 1 .. a + b : i \in T <=> IF i <= a THEN i > z1 ELSE i - a > z2, NEW U \in SUBSET Nat,
         RunsTo(T, Merge[<<Lines2(1, a), Lines2(a + 1, b)>>], U)
  PROVE  \A i \in 1 .. a + b : i \in U <=> i > z1 + z2
<1> DEFINE q1 == Lines2(1, a)
           q2 == Lines2(1 + a, b)
<1>0. 1 + a = a + 1 /\ a + 1 \in Nat
  OBVIOUS
<1>1. Ordered(q1, q2) /\ q1.size = a /\ q2.size = b /\ \A i \in 1 .. a + b : At(q1, q2, i) = 1 + i - 1
  <2>1. 1 \in Nat
    OBVIOUS
  <2>2. HalvesHold(1, a, b)
    BY <2>1, HalvesOrdered
  <2> QED  BY <2>2 DEF HalvesHold
<1>2. \A i \in Nat : Nth(q1, i) = i
  <2>1. \A i \in Nat : Nth(q1, i) = 1 + i - 1
    BY Lines2Typed
  <2> QED  BY <2>1
<1>3. \A i \in Nat : Nth(q2, i) = a + i
  <2>1. \A i \in Nat : Nth(q2, i) = a + 1 + i - 1
    BY <1>0, Lines2Typed
  <2> QED  BY <2>1
<1>4. RunsTo(T, Merge[<<q1, q2>>], U)
  BY <1>0
<1> HIDE DEF q1, q2
<1>5. Low(T, q1, z1)
  <2>1. \A i \in 1 .. a : i \in T <=> i > z1
    OBVIOUS
  <2> QED  BY <1>1, <1>2, <2>1 DEF Low
<1>6. Low(T, q2, z2)
  <2>1. \A i \in 1 .. b : a + i \in T <=> i > z2
    <3>1. \A i \in 1 .. b : a + i \in 1 .. a + b /\ ~ (a + i <= a) /\ (a + i) - a = i
      OBVIOUS
    <3> QED  BY <3>1
  <2> QED  BY <1>1, <1>3, <2>1 DEF Low
<1>7. T \in SUBSET Nat
  OBVIOUS
<1>8. Merges(q1, q2)
  BY <1>1, MergeSorts
<1>9. z1 \in Nat /\ z2 \in Nat
  OBVIOUS
<1>10. \A i \in 1 .. q1.size + q2.size : At(q1, q2, i) \in U <=> i > z1 + z2
  BY <1>4, <1>5, <1>6, <1>7, <1>8, <1>9 DEF Merges
<1>11. \A i \in 1 .. a + b : 1 + i - 1 = i
  OBVIOUS
<1> QED  BY <1>1, <1>10, <1>11

LEMMA ConcatNames ==
  ASSUME NEW s \in Seq(Names), NEW t \in Seq(Names)
  PROVE  /\ s \o t \in Seq(Names) /\ Len(s \o t) = Len(s) + Len(t) /\ Len(s) \in Nat /\ Len(t) \in Nat
         /\ \A k \in 1 .. Len(s) : (s \o t)[k] = s[k]
         /\ \A k \in 1 .. Len(t) : (s \o t)[Len(s) + k] = t[k]
BY ConcatParts

LEMMA NewOutputs ==
  ASSUME NEW x, NEW v, x = [s |-> x.s, w |-> x.w]
  PROVE  [x EXCEPT !.w = v] = [s |-> x.s, w |-> v]
<1>1. \A y, z : [[s |-> y, w |-> z] EXCEPT !.w = v] = [s |-> y, w |-> v]
  OBVIOUS
<1> QED  BY <1>1

(* merge_core_guided sorts: the network of the new inputs, merged into one  *)
(* that sorts the inputs so far, sorts all of them, for networks of every   *)
(* size, and the unit core variables stay at the end of the outputs.        *)
THEOREM MergedRight ==
  ASSUME NEW S \in Solvers, NEW inputs \in Seq(Names), Len(inputs) >= 1, NEW xs \in Seq(Names),
         NEW p, Sorts(S.hard, xs, p), NEW us \in Seq(Names)
  PROVE  LET r == MergeCoreGuided(S, inputs, p \o us, us)
         IN  /\ r = [s |-> r.s, w |-> r.w] /\ Grown(S, r)
             /\ \E m : r.w = m \o us /\ Sorts(r.s.hard, xs \o inputs, m)
<1> DEFINE new == Sorted(S, inputs)
           a == Len(p)
           b == Len(inputs)
           n == a + b
           r == MergeCoreGuided(S, inputs, p \o us, us)
           net == [s |-> new.s, w |-> p \o new.w]
           ps == Merge[<<Lines2(1, a), Lines2(a + 1, b)>>]
           q == InsertAll(net, ps, <<>>)
<1>1. p \in Seq(Names) /\ a = Len(xs) /\ a \in Nat /\ b \in Nat /\ b >= 1 /\ n \in Nat /\ inputs # <<>>
  BY DEF Sorts
<1>2. new = [s |-> new.s, w |-> new.w] /\ Grown(S, new) /\ Sorts(new.s.hard, inputs, new.w)
  BY SortedRight
<1>3. SubSeq(p \o us, 1, Len(p \o us) - Len(us)) = p
  <2> DEFINE u == p \o us
  <2>1. u \in Seq(Names) /\ Len(u) = a + Len(us) /\ Len(us) \in Nat /\ \A i \in 1 .. a : u[i] = p[i]
    BY <1>1, ConcatParts
  <2>2. Len(u) - Len(us) = a /\ a <= Len(u)
    BY <1>1, <2>1
  <2> HIDE DEF u
  <2>3. SubSeq(u, 1, a) \in Seq(Names) /\ Len(SubSeq(u, 1, a)) = a /\ \A i \in 1 .. a : SubSeq(u, 1, a)[i] = u[i]
    BY <1>1, <2>1, <2>2
  <2>4. SubSeq(u, 1, a) = p
    BY <1>1, <2>1, <2>3
  <2> QED  BY <2>2, <2>4 DEF u
<1>4. r = [q EXCEPT !.w = @ \o us]
  <2>1. [new EXCEPT !.w = p \o @] = net
    <3>1. [new EXCEPT !.w = p \o new.w] = [s |-> new.s, w |-> p \o new.w]
      <4> HIDE DEF new
      <4> QED  BY <1>2, NewOutputs
    <3> QED  BY <3>1
  <2>2. Lines2(1, a) = WireSeq(1, a, 1) /\ Lines2(a + 1, b) = WireSeq(a + 1, b, 1)
    BY DEF Lines2
  <2> HIDE DEF new
  <2> QED  BY <1>1, <1>3, <2>1, <2>2 DEF MergeCoreGuided, new
<1>5. new.s \in Solvers /\ S.hard \subseteq new.s.hard /\ new.w \in Seq(Names) /\ Len(new.w) = b
  BY <1>2 DEF Grown, Sorts
<1> HIDE DEF r, new
<1>6. /\ p \o new.w \in Seq(Names) /\ Len(p \o new.w) = n
      /\ \A i \in 1 .. a : (p \o new.w)[i] = p[i]
      /\ \A i \in 1 .. b : (p \o new.w)[a + i] = new.w[i]
  <2> DEFINE v == new.w
  <2>1. v \in Seq(Names) /\ Len(v) = b
    BY <1>5
  <2> HIDE DEF v
  <2>2. /\ p \o v \in Seq(Names) /\ Len(p \o v) = Len(p) + Len(v)
        /\ \A i \in 1 .. Len(p) : (p \o v)[i] = p[i]
        /\ \A i \in 1 .. Len(v) : (p \o v)[Len(p) + i] = v[i]
    <3>1. p \in Seq(Names)
      BY <1>1
    <3> HIDE DEF n, ps, q, a, b
    <3> QED  BY <2>1, <3>1, ConcatNames
  <2> QED  BY <2>1, <2>2 DEF v
<1>7. net.s = new.s /\ net.w = p \o new.w /\ net = [s |-> net.s, w |-> net.w]
  OBVIOUS
<1> HIDE DEF net
<1>8. \A i \in 1 .. n : net.w[i] \in Names /\ net.w[i] # -1
  <2>1. net.w \in Seq(Names) /\ Len(net.w) = n
    BY <1>6, <1>7
  <2> HIDE DEF n
  <2>2. \A i \in 1 .. n : net.w[i] \in Names
    BY <2>1
  <2> QED  BY <2>2 DEF Names
<1>9. net \in Nets(n, <<>>)
  <2>1. net.w \in Seq(Names \cup {-1})
    BY <1>6, <1>7
  <2> QED  BY <1>5, <1>6, <1>7, <1>8, <2>1 DEF Nets
<1>10. ps \in Seq(Pairs) /\ Increasing(ps) /\ Touch(ps) \subseteq 1 .. n
  <2> DEFINE q1 == Lines2(1, a)
             q2 == Lines2(1 + a, b)
  <2>1. Ordered(q1, q2) /\ Reach(q1, q2) = Block(1, n)
    <3>1. 1 \in Nat
      OBVIOUS
    <3>2. a \in Nat /\ b \in Nat /\ a + b = n
      BY <1>1
    <3>3. HalvesHold(1, a, b)
      <4> HIDE DEF a, b
      <4> QED  BY <3>1, <3>2, HalvesOrdered
    <3> QED  BY <3>2, <3>3 DEF HalvesHold
  <2>2. Block(1, n) = 1 .. n /\ 1 + a = a + 1
    <3>1. 1 + n - 1 = n /\ 1 + a = a + 1
      BY <1>1
    <3> HIDE DEF n
    <3> QED  BY <3>1 DEF Block
  <2>3. q1 \in WireSeqs /\ q2 \in WireSeqs
    BY <2>1 DEF Ordered
  <2>4. ps = Merge[<<q1, q2>>]
    BY <2>2
  <2> HIDE DEF q1, q2, ps
  <2>5. Covers(q1, q2)
    BY <2>1, MergeCovers
  <2> QED  BY <2>1, <2>2, <2>3, <2>4, <2>5, MergeIs DEF Covers
<1>11. /\ q \in Nets(n, <<>>) /\ net.s.hard \subseteq q.s.hard
       /\ \A e \in 1 .. n : IF e \in Touch(ps) THEN q.w[e] \in Names ELSE q.w[e] = net.w[e]
       /\ \A T \in SUBSET Nat : \E U \in SUBSET Nat :
            /\ RunsTo(T, ps, U)
            /\ \A L : Closed(L, q.s.hard) /\ ShowsAll(L, net.w, <<>>, T) => ShowsAll(L, q.w, <<>>, U)
  <2>1. <<>> \in Seq(Names)
    OBVIOUS
  <2> HIDE DEF ps, n
  <2> QED  BY <1>1, <1>9, <1>10, <2>1, InsertAllRight
<1> HIDE DEF q
<1>12. q = [s |-> q.s, w |-> q.w] /\ q.s \in Solvers /\ Len(q.w) = n /\ q.w \in Seq(Names)
  <2>1. <<>> \in Seq(Names)
    OBVIOUS
  <2>2. q = [s |-> q.s, w |-> q.w] /\ q.s \in Solvers /\ q.w \in Seq(Names \cup {-1}) /\ Len(q.w) = n
    BY <1>1, <1>11, <2>1, NetParts
  <2> HIDE DEF n, ps
  <2>3. \A e \in 1 .. n : q.w[e] \in Names
    BY <1>8, <1>11
  <2>4. q.w \in Seq(Names)
    <3> DEFINE w == q.w
    <3>1. w \in Seq(Names \cup {-1}) /\ Len(w) = n /\ \A e \in 1 .. n : w[e] \in Names
      BY <2>2, <2>3
    <3> HIDE DEF w
    <3>2. w \in Seq(Names)
      BY <3>1
    <3> QED  BY <3>2 DEF w
  <2> QED  BY <2>2, <2>4
<1>13. xs \o inputs \in Seq(Names) /\ Len(xs \o inputs) = n
       /\ (\A i \in 1 .. a : (xs \o inputs)[i] = xs[i]) /\ \A i \in 1 .. b : (xs \o inputs)[a + i] = inputs[i]
  BY <1>1, ConcatParts
<1>14. ASSUME NEW L, NEW B, Closed(L, q.s.hard),
              \A i \in 1 .. n : Shows(L, (xs \o inputs)[i], (xs \o inputs)[i] \in B), NEW i \in 1 .. n
       PROVE  Shows(L, q.w[i], i > Falses(xs \o inputs, B))
  <2> DEFINE z1 == Falses(xs, B)
             z2 == Falses(inputs, B)
             T == {j \in 1 .. a + b : IF j <= a THEN j > z1 ELSE j - a > z2}
  <2>1. z1 \in 0 .. a /\ z2 \in 0 .. b /\ Falses(xs \o inputs, B) = z1 + z2
    <3>1. z1 \in 0 .. Len(xs) /\ z2 \in 0 .. Len(inputs)
      BY CountNumber
    <3>2. Falses(xs \o inputs, B) = Falses(xs, B) + Falses(inputs, B)
      BY CountConcat
    <3> QED  BY <1>1, <3>1, <3>2
  <2> HIDE DEF z1, z2
  <2>2. \A j \in 1 .. a : Shows(L, p[j], j > z1)
    <3>1. Closed(L, S.hard)
      BY <1>5, <1>7, <1>11, <1>14, ClosedLess
    <3>2. \A j \in 1 .. Len(xs) : Shows(L, xs[j], xs[j] \in B)
      <4>1. \A j \in 1 .. a : j \in 1 .. n
        BY <1>1
      <4> QED  BY <1>1, <1>13, <1>14, <4>1
    <3> QED  BY <3>1, <3>2 DEF Sorts, z1
  <2>3. \A j \in 1 .. b : Shows(L, new.w[j], j > z2)
    <3>1. Closed(L, new.s.hard)
      BY <1>7, <1>11, <1>14, ClosedLess
    <3>2. \A j \in 1 .. b : Shows(L, inputs[j], inputs[j] \in B)
      <4>1. \A j \in 1 .. b : a + j \in 1 .. n
        BY <1>1
      <4> QED  BY <1>13, <1>14, <4>1
    <3> QED  BY <1>2, <1>5, <3>1, <3>2 DEF Sorts, z2
  <2>4. ShowsAll(L, net.w, <<>>, T)
    <3>1. ASSUME NEW e \in 1 .. n PROVE Shows(L, net.w[e], e \in T)
      <4>1. CASE e <= a
        <5>1. e \in 1 .. a /\ (e \in T <=> e > z1) /\ net.w[e] = p[e]
          BY <1>1, <1>6, <1>7, <4>1
        <5> HIDE DEF T
        <5> QED  BY <2>2, <5>1 DEF Shows
      <4>2. CASE ~ (e <= a)
        <5>1. e - a \in 1 .. b /\ (e \in T <=> e - a > z2) /\ a + (e - a) = e
          BY <1>1, <4>2
        <5>2. net.w[e] = new.w[e - a]
          BY <1>6, <1>7, <5>1
        <5> HIDE DEF T
        <5> QED  BY <2>3, <5>1, <5>2 DEF Shows
      <4> QED  BY <4>1, <4>2
    <3>2. \A e \in 1 .. n : Feed(net.w, <<>>, e) = net.w[e]
      BY <1>8 DEF Feed
    <3>3. Len(net.w) = n
      BY <1>6, <1>7
    <3> HIDE DEF T, n
    <3> QED  BY <3>1, <3>2, <3>3 DEF ShowsAll
  <2>5. T \in SUBSET Nat
    BY <1>1
  <2>6. PICK U \in SUBSET Nat : RunsTo(T, ps, U) /\ (\A M : Closed(M, q.s.hard) /\ ShowsAll(M, net.w, <<>>, T) => ShowsAll(M, q.w, <<>>, U))
    <3> HIDE DEF T, ps
    <3> QED  BY <1>11, <2>5
  <2>7. ShowsAll(L, q.w, <<>>, U)
    BY <1>14, <2>4, <2>6
  <2>8. i \in U <=> i > z1 + z2
    <3>1. T \in SUBSET Nat /\ (\A j \in 1 .. a + b : j \in T <=> IF j <= a THEN j > z1 ELSE j - a > z2) /\ RunsTo(T, Merge[<<Lines2(1, a), Lines2(a + 1, b)>>], U)
      BY <2>5, <2>6
    <3>2. i \in 1 .. a + b
      OBVIOUS
    <3> HIDE DEF T, a, b
    <3>3. a \in Nat /\ b \in Nat /\ z1 \in 0 .. a /\ z2 \in 0 .. b
      BY <1>1, <2>1
    <3> QED  BY <3>1, <3>2, <3>3, MergedValues
  <2>9. Feed(q.w, <<>>, i) = q.w[i]
    <3>1. q.w[i] \in Names
      BY <1>12
    <3> QED  BY <3>1 DEF Feed, Names
  <2>10. Shows(L, q.w[i], i \in U)
    BY <1>12, <2>7, <2>9 DEF ShowsAll
  <2> QED  BY <2>1, <2>8, <2>10 DEF Shows
<1>15. Sorts(q.s.hard, xs \o inputs, q.w)
  <2>1. \A i \in 1 .. Len(xs \o inputs) : i \in 1 .. n
    BY <1>13
  <2> HIDE DEF n
  <2> QED  BY <1>12, <1>13, <1>14 DEF Sorts
<1>16. r = [s |-> q.s, w |-> q.w \o us]
  BY <1>4, <1>12
<1>17. r.s = q.s /\ r.w = q.w \o us /\ r = [s |-> r.s, w |-> r.w]
  BY <1>16
<1>18. Grown(S, r)
  BY <1>5, <1>7, <1>11, <1>12, <1>17 DEF Grown
<1> QED  BY <1>15, <1>17, <1>18 DEF r

-----------------------------------------------------------------------------
(* Unit propagation reaches a closed set of literals: each round adds a     *)
(* literal, until there is none left to add.                                *)

More(F, L) == L \cup Forced(F, L)
RoundBody(f, F, n, L) == IF n = 0 \/ More(F, L) = L THEN L ELSE f[<<n - 1, More(F, L)>>]

LEMMA MoreWithin == ASSUME NEW F, NEW L \in SUBSET UNION F PROVE More(F, L) \in SUBSET UNION F /\ L \subseteq More(F, L)
BY DEF More, Forced

LEMMA FixedClosed == ASSUME NEW F, NEW L, More(F, L) = L PROVE Closed(L, F)
BY DEF More, Forced, Closed

LEMMA RoundsExist ==
  ASSUME NEW F, NEW C \in Nat
  PROVE  \E f \in [(0 .. C) \X SUBSET UNION F -> SUBSET UNION F] :
           \A n \in 0 .. C : \A L \in SUBSET UNION F : f[<<n, L>>] = RoundBody(f, F, n, L)
<1> DEFINE V == SUBSET UNION F
           D == (0 .. C) \X V
           size == [d \in D |-> d[1]]
           H == [f \in [D -> V] |-> [d \in D |-> RoundBody(f, F, d[1], d[2])]]
<1>1. \A d \in D : size[d] = d[1] /\ d[1] \in 0 .. C /\ d[1] \in Nat /\ d[2] \in V /\ d = <<d[1], d[2]>>
  OBVIOUS
<1>0. \A n \in 0 .. C : \A L \in V : <<n, L>> \in D /\ <<n, L>>[1] = n /\ <<n, L>>[2] = L
  OBVIOUS
<1>2. ASSUME NEW n \in 0 .. C, NEW L \in V, n # 0
      PROVE  <<n-1, More(F, L)>> \in D /\ size[<<n-1, More(F, L)>>] < size[<<n, L>>] /\ More(F, L) \in V
  <2>1. n-1 \in 0 .. C /\ n-1 < n
    BY <1>2
  <2>2. More(F, L) \in V
    BY MoreWithin
  <2> DEFINE M == More(F, L)
  <2> HIDE DEF V, M, size
  <2>3. <<n-1, M>> \in D /\ <<n, L>> \in D /\ <<n-1, M>>[1] = n-1 /\ <<n, L>>[1] = n
    BY <2>1, <2>2 DEF M
  <2>4. size[<<n-1, M>>] = n-1 /\ size[<<n, L>>] = n
    BY <1>1, <2>3
  <2> QED  BY <2>1, <2>2, <2>3, <2>4 DEF M
<1>7. size \in [D -> Nat]
  BY <1>1
<1>8. [D -> V] # {}
  <2>1. [d \in D |-> {}] \in [D -> V]
    OBVIOUS
  <2> QED  BY <2>1
<1> HIDE DEF size, V
<1>3. ASSUME NEW f \in [D -> V], NEW d \in D PROVE RoundBody(f, F, d[1], d[2]) \in V
  <2> DEFINE n == d[1]
             L == d[2]
  <2>1. n \in 0 .. C /\ L \in V
    BY <1>1
  <2> HIDE DEF n, L
  <2>2. n # 0 => f[<<n-1, More(F, L)>>] \in V
    BY <1>2, <2>1
  <2>3. RoundBody(f, F, n, L) \in V
    BY <2>1, <2>2 DEF RoundBody
  <2> QED  BY <2>3 DEF n, L
<1>4. H \in [[D -> V] -> [D -> V]] /\ \A f \in [D -> V] : \A d \in D : H[f][d] = RoundBody(f, F, d[1], d[2])
  <2> HIDE DEF D
  <2> QED  BY <1>3
<1>5. ASSUME NEW f \in [D -> V], NEW g \in [D -> V], NEW d \in D, \A e \in D : size[e] < size[d] => f[e] = g[e]
      PROVE  RoundBody(f, F, d[1], d[2]) = RoundBody(g, F, d[1], d[2])
  <2> DEFINE n == d[1]
             L == d[2]
  <2>1. n \in 0 .. C /\ L \in V /\ d = <<n, L>>
    BY <1>1
  <2> HIDE DEF n, L
  <2>2. n # 0 => f[<<n-1, More(F, L)>>] = g[<<n-1, More(F, L)>>]
    BY <1>2, <1>5, <2>1
  <2>3. RoundBody(f, F, n, L) = RoundBody(g, F, n, L)
    BY <2>2 DEF RoundBody
  <2> QED  BY <2>3 DEF n, L
<1>6. \A f, g \in [D -> V] : \A d \in D : (\A e \in D : size[e] < size[d] => f[e] = g[e]) => H[f][d] = H[g][d]
  <2> HIDE DEF H, D
  <2> QED  BY <1>4, <1>5
<1> HIDE DEF H, D
<1>9. PICK f \in [D -> V] : \A d \in D : f[d] = H[f][d]
  <2>1. Descends(D, V, size, H)
    BY <1>4, <1>6, <1>7 DEF Descends
  <2> QED  BY <1>8, <2>1, Recursion
<1>10. \A d \in D : f[d] = RoundBody(f, F, d[1], d[2])
  BY <1>4, <1>9
<1>11. \A n \in 0 .. C : \A L \in V : f[<<n, L>>] = RoundBody(f, F, n, L)
  <2>1. ASSUME NEW n \in 0 .. C, NEW L \in V PROVE f[<<n, L>>] = RoundBody(f, F, n, L)
    <3>1. <<n, L>> \in D /\ <<n, L>>[1] = n /\ <<n, L>>[2] = L
      BY <1>0
    <3> QED  BY <1>10, <3>1
  <2> QED  BY <2>1
<1> QED  BY <1>9, <1>11 DEF D, V

LEMMA PropagatedClosed ==
  ASSUME NEW F, FiniteClauses(F)
  PROVE  Closed(Propagated(F), F)
<1> DEFINE U == UNION F
           V == SUBSET U
           C == Cardinality(U)
           Eq(f) == f = [q \in (0 .. C) \X SUBSET U |->
                           LET L == q[2] \cup Forced(F, q[2])
                           IN  IF q[1] = 0 \/ L = q[2] THEN q[2] ELSE f[<<q[1] - 1, L>>]]
           after == CHOOSE f : Eq(f)
<1>1. IsFiniteSet(U) /\ C \in Nat
  BY FS_UNION, FS_CardinalityType DEF FiniteClauses
<1>2. PICK g \in [(0 .. C) \X SUBSET U -> SUBSET U] : \A n \in 0 .. C : \A L \in SUBSET U : g[<<n, L>>] = RoundBody(g, F, n, L)
  BY <1>1, RoundsExist
<1>3. Eq(g)
  <2> HIDE DEF U, C
  <2>1. g = [q \in (0 .. C) \X SUBSET U |-> RoundBody(g, F, q[1], q[2])]
    <3>1. \A q \in (0 .. C) \X SUBSET U : q = <<q[1], q[2]>> /\ q[1] \in 0 .. C /\ q[2] \in SUBSET U
      OBVIOUS
    <3>2. \A q \in (0 .. C) \X SUBSET U : g[q] = RoundBody(g, F, q[1], q[2])
      BY <1>2, <3>1 DEF U
    <3> QED  BY <1>2, <3>2 DEF U
  <2> QED  BY <2>1 DEF RoundBody, More
<1>4. Eq(after)
  BY <1>3
<1>5. Propagated(F) = after[<<C, {}>>]
  BY DEF Propagated
<1> HIDE DEF after
<1> HIDE DEF C
<1>6. \A n \in 0 .. C : \A L \in SUBSET U : after[<<n, L>>] = RoundBody(after, F, n, L)
  <2> HIDE DEF U
  <2> QED  BY <1>4 DEF RoundBody, More
<1> DEFINE S == {n \in 0 .. C : \A L \in V : Cardinality(U \ L) <= n => Closed(after[<<n, L>>], F)}
<1>7. \A L : IsFiniteSet(U \ L) /\ Cardinality(U \ L) \in Nat
  <2> HIDE DEF U
  <2> QED  BY <1>1, FS_Difference, FS_CardinalityType
<1>8. 0 \in S
  <2>1. ASSUME NEW L \in V, Cardinality(U \ L) <= 0 PROVE Closed(after[<<0, L>>], F)
    <3> DEFINE R == U \ L
    <3>0. IsFiniteSet(R) /\ Cardinality(R) \in Nat /\ Cardinality(R) <= 0
      BY <1>7, <2>1
    <3> HIDE DEF R
    <3>1. Cardinality(R) = 0
      BY <3>0
    <3>5. R = {}
      BY <3>0, <3>1, FS_EmptySet
    <3>2. U \ L = {}
      BY <3>5 DEF R
    <3>3. after[<<0, L>>] = L
      <4>1. 0 \in 0 .. C
        BY <1>1
      <4>2. after[<<0, L>>] = RoundBody(after, F, 0, L)
        BY <1>6, <4>1
      <4> QED  BY <4>2 DEF RoundBody
    <3>4. Closed(L, F)
      BY <3>2 DEF Closed
    <3> QED  BY <3>3, <3>4
  <2> QED  BY <1>1, <2>1
<1>9. ASSUME NEW n \in 1 .. C, n-1 \in S PROVE n \in S
  <2>1. ASSUME NEW L \in V, Cardinality(U \ L) <= n PROVE Closed(after[<<n, L>>], F)
    <3> DEFINE M == More(F, L)
    <3>0. n \in 0 .. C /\ n # 0 /\ n-1 \in 0 .. C /\ n \in Nat
      BY <1>1
    <3>1. M \in V /\ L \subseteq M
      BY MoreWithin
    <3>2. after[<<n, L>>] = IF M = L THEN L ELSE after[<<n-1, M>>]
      <4>1. after[<<n, L>>] = RoundBody(after, F, n, L)
        BY <1>6, <3>0
      <4> QED  BY <3>0, <4>1 DEF RoundBody
    <3>3. CASE M = L
      BY <3>2, <3>3, FixedClosed
    <3>4. CASE M # L
      <4> HIDE DEF M
      <4>1. PICK l \in M : l \notin L
        BY <3>1, <3>4
      <4> DEFINE R == U \ L
      <4>2. (U \ M) \subseteq R \ {l} /\ l \in R
        BY <3>1, <4>1
      <4>3. IsFiniteSet(R) /\ Cardinality(R) \in Nat /\ Cardinality(R) <= n
        BY <1>7, <2>1
      <4> HIDE DEF R
      <4>4. IsFiniteSet(R \ {l}) /\ Cardinality(R \ {l}) = Cardinality(R) - 1
        BY <4>2, <4>3, FS_RemoveElement
      <4>5. Cardinality(U \ M) <= Cardinality(R \ {l})
        BY <4>2, <4>4, FS_Subset
      <4>6. Cardinality(U \ M) \in Nat
        BY <1>7
      <4>7. Cardinality(U \ M) <= n-1
        BY <3>0, <4>3, <4>4, <4>5, <4>6
      <4>8. Closed(after[<<n-1, M>>], F)
        BY <1>9, <3>1, <4>7
      <4> QED  BY <3>2, <3>4, <4>8
    <3> QED  BY <3>3, <3>4
  <2> QED  BY <1>1, <2>1
<1>10. \A n \in 0 .. C : n \in S
  <2> HIDE DEF S
  <2> QED  BY <1>1, <1>8, <1>9, Upward
<1>11. Closed(after[<<C, {}>>], F)
  <2>1. C \in S
    <3>1. C \in 0 .. C
      BY <1>1
    <3> HIDE DEF S
    <3> QED  BY <1>10, <3>1
  <2>2. {} \in V /\ U \ {} = U /\ Cardinality(U \ {}) <= C
    <3>1. U \ {} = U /\ {} \in V
      OBVIOUS
    <3>2. Cardinality(U) = C
      BY DEF C
    <3> HIDE DEF U, V
    <3> QED  BY <1>1, <3>1, <3>2
  <2> QED  BY <2>1, <2>2
<1> QED  BY <1>5, <1>11

\* with the values of some variables as further clauses
Units(vec, B) == {{IF v \in B THEN v ELSE -v} : v \in Range(vec)}

LEMMA UnitsShown ==
  ASSUME NEW F, FiniteClauses(F), NEW vec \in Seq(Names), NEW B
  PROVE  LET L == Propagated(F \cup Units(vec, B))
         IN  Closed(L, F) /\ \A v \in Range(vec) : Shows(L, v, v \in B)
<1> DEFINE G == F \cup Units(vec, B)
           L == Propagated(G)
           R == Range(vec)
<1>1. IsFiniteSet(R) /\ R \subseteq Names
  <2>1. Len(vec) \in Nat /\ DOMAIN vec = 1 .. Len(vec) /\ \A i \in 1 .. Len(vec) : vec[i] \in Names
    OBVIOUS
  <2>2. IsFiniteSet(1 .. Len(vec))
    BY <2>1, FS_Interval
  <2>3. R = {vec[i] : i \in 1 .. Len(vec)}
    BY <2>1 DEF Range
  <2>4. IsFiniteSet({vec[i] : i \in 1 .. Len(vec)})
    <3> DEFINE f == [i \in 1 .. Len(vec) |-> vec[i]]
    <3>1. f \in Surjection(1 .. Len(vec), {vec[i] : i \in 1 .. Len(vec)})
      BY DEF Surjection
    <3> HIDE DEF f
    <3> QED  BY <2>2, <3>1, FS_Surjection
  <2> QED  BY <2>1, <2>3, <2>4
<1> DEFINE Lit(v) == IF v \in B THEN v ELSE -v
           US == {{Lit(v)} : v \in R}
<1>2. Units(vec, B) = US
  BY DEF Units
<1>3. IsFiniteSet(US)
  <2> DEFINE f == [v \in R |-> {Lit(v)}]
  <2>1. f \in Surjection(R, US)
    BY DEF Surjection
  <2> HIDE DEF f, R, US
  <2> QED  BY <1>1, <2>1, FS_Surjection
<1>4. \A c \in US : IsFiniteSet(c) /\ c \subseteq Int
  <2>1. ASSUME NEW v \in R PROVE IsFiniteSet({Lit(v)}) /\ {Lit(v)} \subseteq Int
    <3>1. Lit(v) \in Int
      BY <1>1 DEF Names
    <3> HIDE DEF Lit
    <3> QED  BY <3>1, FS_Singleton
  <2> HIDE DEF R, Lit
  <2> QED  BY <2>1
<1> HIDE DEF US
<1>5. FiniteClauses(G)
  <2>1. IsFiniteSet(F \cup US)
    BY <1>3, FS_Union DEF FiniteClauses
  <2> QED  BY <1>2, <1>4, <2>1 DEF FiniteClauses
<1> HIDE DEF L
<1>6. Closed(L, G)
  BY <1>5, PropagatedClosed DEF L
<1>7. Closed(L, F)
  BY <1>6, ClosedLess
<1>8. ASSUME NEW v \in R PROVE Shows(L, v, v \in B)
  <2>1. {Lit(v)} \in G
    BY <1>2 DEF US
  <2> HIDE DEF Lit, G
  <2>2. \A m \in {Lit(v)} \ {Lit(v)} : -m \in L
    OBVIOUS
  <2>3. Lit(v) \in L
    BY <1>6, <2>1, <2>2 DEF Closed
  <2> QED  BY <2>3 DEF Lit, Shows
<1> QED  BY <1>7, <1>8 DEF L

-----------------------------------------------------------------------------
(* Sequences and the elements taken from them *)

LEMMA NumberUnion ==
  ASSUME NEW n \in Nat, NEW Q, NEW R, \A k \in 1 .. n : ~ (k \in Q /\ k \in R),
         NEW V, \A k \in 1 .. n : k \in V <=> k \in Q \/ k \in R
  PROVE  Number(V, n) = Number(Q, n) + Number(R, n)
<1> DEFINE A == (1 .. n) \cap Q
           B == (1 .. n) \cap R
<1>1. IsFiniteSet(1 .. n) /\ A \in SUBSET (1 .. n) /\ B \in SUBSET (1 .. n)
  BY FS_Interval
<1>2. (1 .. n) \cap V = A \cup B /\ A \cap B = {}
  OBVIOUS
<1> HIDE DEF A, B
<1>3. IsFiniteSet(A) /\ IsFiniteSet(B)
  BY <1>1, FS_Subset
<1>4. Cardinality(A) \in Nat /\ Cardinality(B) \in Nat
  BY <1>3, FS_CardinalityType
<1>5. Cardinality(A \cup B) = Cardinality(A) + Cardinality(B) - Cardinality({})
  BY <1>2, <1>3, FS_Union
<1>6. Cardinality({}) = 0
  BY FS_EmptySet
<1>7. Cardinality(A \cup B) = Cardinality(A) + Cardinality(B)
  BY <1>4, <1>5, <1>6
<1> QED  BY <1>2, <1>7 DEF Number, A, B

LEMMA CountAppend ==
  ASSUME NEW X, NEW s \in Seq(X), NEW x \in X, NEW B
  PROVE  /\ Append(s, x) \in Seq(X) /\ Len(Append(s, x)) = Len(s) + 1
         /\ Count(Append(s, x), B) = Count(s, B) + IF x \in B THEN 1 ELSE 0
<1> DEFINE t == Append(s, x)
           n == Len(s)
           Q == {j \in 1 .. n : s[j] \in B}
           R == {j \in 1 .. n + 1 : t[j] \in B}
<1>1. t \in Seq(X) /\ Len(t) = n + 1 /\ n \in Nat /\ t[n + 1] = x /\ \A j \in 1 .. n : t[j] = s[j]
  OBVIOUS
<1> HIDE DEF t
<1>2. Count(s, B) = Number(Q, n)
  BY CountNumber
<1>3. Count(t, B) = Number(R, n + 1)
  <2>1. Count(t, B) = Number({j \in 1 .. Len(t) : t[j] \in B}, Len(t))
    BY <1>1, CountNumber
  <2> HIDE DEF n
  <2> QED  BY <1>1, <2>1
<1>4. \A k \in 1 .. n : k \in Q <=> k \in R
  BY <1>1
<1>5. n + 1 \in R <=> x \in B
  BY <1>1
<1>6. n + 1 \in Nat \ {0} /\ (n + 1) - 1 = n
  BY <1>1
<1> HIDE DEF n, Q, R
<1>7. Number(R, n) = Number(Q, n)
  BY <1>1, <1>4, NumberFirst
<1>8. Number(R, n + 1) = Number(R, (n + 1) - 1) + IF n + 1 \in R THEN 1 ELSE 0
  BY <1>6, NumberStep
<1> QED  BY <1>1, <1>2, <1>3, <1>5, <1>6, <1>7, <1>8 DEF t, n

LEMMA CountBasics ==
  ASSUME NEW X, NEW s \in Seq(X), NEW B
  PROVE  /\ Count(s, B) \in 0 .. Len(s)
         /\ Falses(s, B) = Len(s) - Count(s, B)
         /\ X \subseteq B => Count(s, B) = Len(s)
         /\ (\A x \in Range(s) : x \in B) => Count(s, B) = Len(s)
         /\ (\A x \in Range(s) : x \notin B) => Count(s, B) = 0
         /\ \A x \in Range(s) : x \in B => Count(s, B) >= 1
         /\ Count(s, B) >= 1 => \E x \in Range(s) : x \in B
<1> DEFINE n == Len(s)
           Q == {j \in 1 .. n : s[j] \in B}
           R == {j \in 1 .. n : s[j] \notin B}
<1>1. n \in Nat /\ DOMAIN s = 1 .. n /\ \A j \in 1 .. n : s[j] \in X
  OBVIOUS
<1>2. Count(s, B) = Number(Q, n) /\ Falses(s, B) = Number(R, n) /\ Count(s, B) \in 0 .. n /\ Falses(s, B) \in 0 .. n
  BY CountNumber
<1>3. Number(1 .. n, n) = n
  <2>1. (1 .. n) \cap (1 .. n) = 1 .. n
    OBVIOUS
  <2>2. Cardinality(1 .. n) = IF 1 > n THEN 0 ELSE n - 1 + 1
    BY <1>1, FS_Interval
  <2>3. Number(1 .. n, n) = Cardinality(1 .. n)
    BY <2>1 DEF Number
  <2> HIDE DEF n
  <2> QED  BY <1>1, <2>2, <2>3
<1>4. Number(1 .. n, n) = Number(Q, n) + Number(R, n)
  <2>1. (\A k \in 1 .. n : ~ (k \in Q /\ k \in R)) /\ \A k \in 1 .. n : k \in 1 .. n <=> k \in Q \/ k \in R
    OBVIOUS
  <2> HIDE DEF n, Q, R
  <2> QED  BY <1>1, <2>1, NumberUnion
<1>5. Falses(s, B) = n - Count(s, B)
  BY <1>1, <1>2, <1>3, <1>4
<1>6. ASSUME \A x \in Range(s) : x \in B PROVE Count(s, B) = n
  <2>1. \A k \in 1 .. n : k \in 1 .. n <=> k \in Q
    BY <1>1, <1>6 DEF Range
  <2> HIDE DEF n, Q, R
  <2>2. Number(Q, n) = Number(1 .. n, n)
    BY <1>1, <2>1, NumberFirst
  <2> QED  BY <1>2, <1>3, <2>2
<1>7. ASSUME \A x \in Range(s) : x \notin B PROVE Count(s, B) = 0
  <2>1. \A k \in 1 .. n : k \in 1 .. n <=> k \in R
    BY <1>1, <1>7 DEF Range
  <2> HIDE DEF n, Q, R
  <2>2. Number(R, n) = Number(1 .. n, n)
    BY <1>1, <2>1, NumberFirst
  <2>3. Falses(s, B) = n
    BY <1>2, <1>3, <2>2
  <2>4. Count(s, B) \in Nat
    BY <1>1, <1>2
  <2> QED  BY <1>1, <1>5, <2>3, <2>4
<1>8. ASSUME NEW x \in Range(s), x \in B PROVE Count(s, B) >= 1
  <2>1. PICK k \in 1 .. n : s[k] = x
    BY <1>1 DEF Range
  <2> DEFINE P == (1 .. n) \cap Q
  <2>2. k \in P
    BY <1>8, <2>1
  <2>3. IsFiniteSet(P)
    <3>1. IsFiniteSet(1 .. n) /\ P \in SUBSET (1 .. n)
      BY <1>1, FS_Interval
    <3> HIDE DEF P
    <3> QED  BY <3>1, FS_Subset
  <2>4. Number(Q, n) = Cardinality(P)
    BY DEF Number
  <2> HIDE DEF P, Q, R, n
  <2>5. Cardinality(P) # 0
    BY <2>2, <2>3, FS_EmptySet
  <2> QED  BY <1>1, <1>2, <2>4, <2>5
<1>9. X \subseteq B => \A x \in Range(s) : x \in B
  BY <1>1 DEF Range
<1> QED  BY <1>1, <1>2, <1>5, <1>6, <1>7, <1>8, <1>9

Takes(f, v, P, X) ==
  /\ f \in [0 .. Len(v) -> Seq(X)] /\ f[0] = <<>>
  /\ \A i \in 1 .. Len(v) : f[i] = IF i \in P THEN Append(f[i-1], v[i]) ELSE f[i-1]

LEMMA TakenSteps ==
  ASSUME NEW X, NEW v \in Seq(X), NEW P
  PROVE  \E f : Takes(f, v, P, X) /\ Taken(v, P) = f[Len(v)]
<1> DEFINE n == Len(v)
           Step(x, i) == IF i \in P THEN Append(x, v[i]) ELSE x
           H == [i \in 1 .. n |-> [x \in Seq(X) |-> Step(x, i)]]
           Eq(f) == f = [i \in 0 .. Len(v) |->
                           IF i = 0 THEN <<>> ELSE IF i \in P THEN Append(f[i - 1], v[i]) ELSE f[i - 1]]
           taken == CHOOSE f : Eq(f)
           D == Seq(X)
<1>1. n \in Nat /\ (\A i \in 1 .. n : v[i] \in X /\ i-1 \in 0 .. n) /\ <<>> \in D
  OBVIOUS
<1>2. \A i \in 1 .. n : \A x \in D : Step(x, i) \in D
  BY <1>1
<1> HIDE DEF Step
<1>3. \A i \in 1 .. n : H[i] \in [D -> D] /\ \A x \in D : H[i][x] = Step(x, i)
  BY <1>2
<1> HIDE DEF H, D
<1>4. PICK g : Goes(g, n, D, <<>>, H)
  BY <1>1, <1>3, Iteration
<1>5. g \in [0 .. n -> D] /\ g[0] = <<>> /\ \A i \in 1 .. n : g[i] = Step(g[i-1], i)
  BY <1>1, <1>3, <1>4 DEF Goes
<1>6. Eq(g)
  <2>1. \A i \in 0 .. n : g[i] = IF i = 0 THEN <<>> ELSE Step(g[i - 1], i)
    BY <1>1, <1>5
  <2>2. g = [i \in 0 .. n |-> IF i = 0 THEN <<>> ELSE Step(g[i - 1], i)]
    BY <1>5, <2>1
  <2> QED  BY <2>2 DEF Step
<1>7. Eq(taken)
  BY <1>6
<1>8. Taken(v, P) = taken[n]
  BY DEF Taken
<1> HIDE DEF taken
<1>9. taken[0] = <<>> /\ \A i \in 1 .. n : taken[i] = Step(taken[i-1], i)
  <2>1. \A i \in 0 .. n : taken[i] = IF i = 0 THEN <<>> ELSE Step(taken[i - 1], i)
    BY <1>7 DEF Step
  <2> QED  BY <1>1, <2>1
<1> DEFINE S == {i \in 0 .. n : taken[i] \in D}
<1>10. 0 \in S
  BY <1>1, <1>9
<1>11. ASSUME NEW k \in 1 .. n, k-1 \in S PROVE k \in S
  BY <1>2, <1>9, <1>11
<1>12. \A k \in 0 .. n : k \in S
  <2> HIDE DEF S
  <2> QED  BY <1>1, <1>10, <1>11, Upward
<1>13. taken \in [0 .. n -> D]
  BY <1>7, <1>12
<1>14. Takes(taken, v, P, X)
  BY <1>9, <1>13 DEF D, Step, Takes
<1> QED  BY <1>8, <1>14

LEMMA TakenRight ==
  ASSUME NEW X, NEW v \in Seq(X), NEW P
  PROVE  /\ Taken(v, P) \in Seq(X)
         /\ \A B : Count(Taken(v, P), B) = Number({i \in 1 .. Len(v) : i \in P /\ v[i] \in B}, Len(v))
<1> DEFINE n == Len(v)
<1>1. n \in Nat /\ \A i \in 1 .. n : v[i] \in X /\ i-1 \in 0 .. n
  OBVIOUS
<1>0. PICK f : Takes(f, v, P, X) /\ Taken(v, P) = f[Len(v)]
  BY TakenSteps
<1>2. /\ f \in [0 .. n -> Seq(X)] /\ f[0] = <<>> /\ Taken(v, P) = f[n]
      /\ \A i \in 1 .. n : f[i] = IF i \in P THEN Append(f[i-1], v[i]) ELSE f[i-1]
  BY <1>0 DEF Takes
<1>3. ASSUME NEW B PROVE Count(f[n], B) = Number({i \in 1 .. n : i \in P /\ v[i] \in B}, n)
  <2> DEFINE Q == {i \in 1 .. n : i \in P /\ v[i] \in B}
             S == {k \in 0 .. n : Count(f[k], B) = Number(Q, k)}
  <2>1. 0 \in S
    <3>1. Count(<<>>, B) = 0
      <4>1. <<>> \in Seq(X) /\ Len(<<>>) = 0
        OBVIOUS
      <4>2. Count(<<>>, B) \in 0 .. Len(<<>>)
        BY <4>1, CountBasics
      <4> QED  BY <4>1, <4>2
    <3>2. Number(Q, 0) = 0
      BY NumberStep
    <3> HIDE DEF Q
    <3> QED  BY <1>1, <1>2, <3>1, <3>2
  <2>2. ASSUME NEW k \in 1 .. n, k-1 \in S PROVE k \in S
    <3>1. Number(Q, k) = Number(Q, k-1) + IF k \in Q THEN 1 ELSE 0
      <4>1. k \in Nat \ {0}
        OBVIOUS
      <4> HIDE DEF Q
      <4> QED  BY <4>1, NumberStep
    <3>2. k \in Q <=> k \in P /\ v[k] \in B
      OBVIOUS
    <3>3. Count(f[k-1], B) = Number(Q, k-1) /\ Number(Q, k-1) \in Nat
      <4>1. k-1 \in Nat
        OBVIOUS
      <4>2. Number(Q, k-1) \in 0 .. k-1
        BY <4>1, NumberStep
      <4>3. Count(f[k-1], B) = Number(Q, k-1)
        BY <2>2
      <4> HIDE DEF Q, S
      <4> QED  BY <4>1, <4>2, <4>3
    <3> HIDE DEF Q
    <3>4. CASE k \in P
      <4>1. f[k] = Append(f[k-1], v[k]) /\ f[k-1] \in Seq(X) /\ v[k] \in X
        BY <1>1, <1>2, <3>4
      <4>2. Count(f[k], B) = Count(f[k-1], B) + IF v[k] \in B THEN 1 ELSE 0
        BY <4>1, CountAppend
      <4>3. Count(f[k], B) = Number(Q, k)
        BY <3>1, <3>2, <3>3, <3>4, <4>2
      <4> QED  BY <4>3
    <3>5. CASE k \notin P
      <4>1. f[k] = f[k-1]
        BY <1>2, <3>5
      <4>2. Count(f[k], B) = Number(Q, k)
        BY <3>1, <3>2, <3>3, <3>5, <4>1
      <4> QED  BY <4>2
    <3> QED  BY <3>4, <3>5
  <2>3. \A k \in 0 .. n : k \in S
    <3> HIDE DEF S
    <3> QED  BY <1>1, <2>1, <2>2, Upward
  <2>4. n \in S
    <3>1. n \in 0 .. n
      BY <1>1
    <3> HIDE DEF S
    <3> QED  BY <2>3, <3>1
  <2> HIDE DEF Q
  <2> QED  BY <2>4 DEF Q
<1>4. f[n] \in Seq(X)
  <2>1. n \in 0 .. n
    BY <1>1
  <2> QED  BY <1>2, <2>1
<1> QED  BY <1>2, <1>3, <1>4

\* the elements taken, and those that are left
Divides(P, Q, V, n) == \A i \in 1 .. n : ~ (i \in P /\ i \in Q) /\ (i \in V <=> i \in P \/ i \in Q)

LEMMA TakenTwo ==
  ASSUME NEW X, NEW v \in Seq(X), NEW P, NEW Q, NEW V, Divides(P, Q, V, Len(v))
  PROVE  \A B : Count(Taken(v, V), B) = Count(Taken(v, P), B) + Count(Taken(v, Q), B)
<1> DEFINE n == Len(v)
           T(Z, B) == {i \in 1 .. n : i \in Z /\ v[i] \in B}
<1>1. ASSUME NEW B PROVE Number(T(V, B), n) = Number(T(P, B), n) + Number(T(Q, B), n)
  <2>1. /\ \A k \in 1 .. n : ~ (k \in T(P, B) /\ k \in T(Q, B))
        /\ \A k \in 1 .. n : k \in T(V, B) <=> k \in T(P, B) \/ k \in T(Q, B)
    BY DEF Divides
  <2>2. n \in Nat
    OBVIOUS
  <2> HIDE DEF n, T
  <2> QED  BY <2>1, <2>2, NumberUnion
<1>2. \A Z, B : Count(Taken(v, Z), B) = Number(T(Z, B), n)
  BY TakenRight
<1> HIDE DEF T, n
<1> QED  BY <1>1, <1>2

LEMMA TakenAll ==
  ASSUME NEW X, NEW v \in Seq(X), NEW P, 1 .. Len(v) \subseteq P
  PROVE  \A B : Count(Taken(v, P), B) = Count(v, B)
<1> DEFINE n == Len(v)
<1>1. ASSUME NEW B PROVE Count(Taken(v, P), B) = Count(v, B)
  <2>1. {i \in 1 .. n : i \in P /\ v[i] \in B} = {i \in 1 .. n : v[i] \in B}
    OBVIOUS
  <2>2. Count(Taken(v, P), B) = Number({i \in 1 .. n : i \in P /\ v[i] \in B}, n)
    BY TakenRight
  <2>3. Count(v, B) = Number({i \in 1 .. n : v[i] \in B}, n)
    BY CountNumber
  <2> QED  BY <2>1, <2>2, <2>3
<1> QED  BY <1>1

LEMMA TakenNone ==
  ASSUME NEW X, NEW v \in Seq(X), NEW P, P \cap (1 .. Len(v)) = {}
  PROVE  Taken(v, P) = <<>>
<1> DEFINE t == Taken(v, P)
<1>1. t \in Seq(X) /\ Count(t, X) = Number({i \in 1 .. Len(v) : i \in P /\ v[i] \in X}, Len(v))
  BY TakenRight
<1>2. (1 .. Len(v)) \cap {i \in 1 .. Len(v) : i \in P /\ v[i] \in X} = {}
  OBVIOUS
<1>3. Cardinality({}) = 0
  BY FS_EmptySet
<1>4. Count(t, X) = 0
  BY <1>1, <1>2, <1>3 DEF Number
<1> HIDE DEF t
<1>5. Count(t, X) = Len(t)
  BY <1>1, CountBasics
<1>6. t = <<>>
  BY <1>1, <1>4, <1>5
<1> QED  BY <1>6 DEF t

-----------------------------------------------------------------------------
(* The networks of one objective obj: s is its outputs, r the inputs that   *)
(* are left, u the unit core variables, F the clauses.  Some inputs xs are  *)
(* sorted, and every occurrence of a variable in obj is in one of the       *)
(* three.                                                                   *)

SameElements(obj, xs, r, u) == \A B : Count(obj, B) = Count(xs, B) + Count(r, B) + Count(u, B)
SortedPart(obj, F, s, r, u, xs, p) == s = p \o u /\ Sorts(F, xs, p) /\ SameElements(obj, xs, r, u)
NetPart(obj, F, s, r, u) ==
  /\ s \in Seq(Names) /\ r \in Seq(Names) /\ u \in Seq(Names)
  /\ \E xs \in Seq(Names) : \E p \in Seq(Names) : SortedPart(obj, F, s, r, u, xs, p)

LEMMA PartMore ==
  ASSUME NEW obj, NEW F, NEW G, NEW s, NEW r, NEW u, NetPart(obj, F, s, r, u), F \subseteq G
  PROVE  NetPart(obj, G, s, r, u)
<1>1. PICK xs \in Seq(Names), p \in Seq(Names) : SortedPart(obj, F, s, r, u, xs, p)
  BY DEF NetPart
<1>2. Sorts(G, xs, p)
  BY <1>1, SortsMore DEF SortedPart
<1>3. SortedPart(obj, G, s, r, u, xs, p)
  BY <1>1, <1>2 DEF SortedPart
<1> QED  BY <1>1, <1>3 DEF NetPart

LEMMA PartMade ==
  ASSUME NEW obj, NEW F, NEW r \in Seq(Names), NEW u \in Seq(Names), NEW xs \in Seq(Names), NEW p,
         Sorts(F, xs, p), SameElements(obj, xs, r, u)
  PROVE  NetPart(obj, F, p \o u, r, u)
<1>1. p \in Seq(Names)
  BY DEF Sorts
<1>2. p \o u \in Seq(Names)
  BY <1>1, ConcatNames
<1> QED  BY <1>1, <1>2 DEF NetPart, SortedPart

LEMMA PartShown ==
  ASSUME NEW obj \in Seq(Names), NEW F, FiniteClauses(F), NEW s, NEW r, NEW u, NetPart(obj, F, s, r, u),
         NEW B, Range(u) \subseteq B
  PROVE  LET L == Propagated(F \cup Units(obj, B))
             n == Len(s)
             true == Count(obj, B) - Count(r, B)
         IN  /\ n = Len(obj) - Len(r)
             /\ \A i \in 1 .. n : (IF i > n - true THEN s[i] ELSE -s[i]) \in L
<1> DEFINE L == Propagated(F \cup Units(obj, B))
           n == Len(s)
           true == Count(obj, B) - Count(r, B)
<1>1. PICK xs \in Seq(Names), p \in Seq(Names) : s = p \o u /\ Sorts(F, xs, p) /\ SameElements(obj, xs, r, u)
  BY DEF NetPart, SortedPart
<1>2. r \in Seq(Names) /\ u \in Seq(Names) /\ s \in Seq(Names)
  BY DEF NetPart
<1>3. n = Len(p) + Len(u) /\ Len(p) = Len(xs) /\ Len(p) \in Nat /\ Len(u) \in Nat
      /\ (\A i \in 1 .. Len(p) : s[i] = p[i]) /\ \A i \in 1 .. Len(u) : s[Len(p) + i] = u[i]
  <2>1. Len(p) = Len(xs)
    BY <1>1 DEF Sorts
  <2> QED  BY <1>1, <1>2, <2>1, ConcatNames
<1>4. Len(obj) = Len(xs) + Len(r) + Len(u)
  <2>1. Count(obj, Names) = Len(obj) /\ Count(xs, Names) = Len(xs) /\ Count(r, Names) = Len(r) /\ Count(u, Names) = Len(u)
    BY <1>1, <1>2, CountBasics
  <2> QED  BY <1>1, <2>1 DEF SameElements
<1>5. Len(r) \in Nat
  BY <1>2
<1>6. Count(u, B) = Len(u)
  BY <1>2, CountBasics
<1>7. Count(xs, B) \in 0 .. Len(xs) /\ Falses(xs, B) = Len(xs) - Count(xs, B) /\ Count(r, B) \in 0 .. Len(r)
  BY <1>2, CountBasics
<1>8. Count(obj, B) = Count(xs, B) + Count(r, B) + Count(u, B)
  BY <1>1 DEF SameElements
<1>9. n - true = Falses(xs, B) /\ n = Len(obj) - Len(r) /\ Falses(xs, B) \in 0 .. Len(p)
  <2>1. \A a, b, c, x, y, o, l \in Nat :
          x <= a /\ y <= b /\ o = x + y + c /\ l = a + b + c =>
            (a + c) - (o - y) = a - x /\ a + c = l - b /\ a - x \in 0 .. a
    OBVIOUS
  <2>2. /\ Len(xs) \in Nat /\ Len(r) \in Nat /\ Len(u) \in Nat /\ Count(xs, B) \in Nat /\ Count(r, B) \in Nat
        /\ Count(xs, B) <= Len(xs) /\ Count(r, B) <= Len(r)
    BY <1>3, <1>5, <1>7
  <2>3. Count(obj, B) = Count(xs, B) + Count(r, B) + Len(u) /\ Count(obj, B) \in Nat /\ Len(obj) \in Nat
    BY <1>4, <1>6, <1>8, <2>2
  <2>4. /\ (Len(xs) + Len(u)) - (Count(obj, B) - Count(r, B)) = Len(xs) - Count(xs, B)
        /\ Len(xs) + Len(u) = Len(obj) - Len(r)
        /\ Len(xs) - Count(xs, B) \in 0 .. Len(xs)
    BY <1>4, <2>1, <2>2, <2>3
  <2>5. n = Len(xs) + Len(u) /\ Len(p) = Len(xs)
    BY <1>3
  <2>6. n - true = Falses(xs, B)
    <3> HIDE DEF n
    <3> QED  BY <1>7, <2>4, <2>5
  <2> QED  BY <1>7, <2>4, <2>5, <2>6
<1>10. Closed(L, F) /\ \A v \in Range(obj) : Shows(L, v, v \in B)
  BY UnitsShown
<1>11. ASSUME NEW v \in Names, Count(xs, {v}) >= 1 \/ Count(u, {v}) >= 1 PROVE v \in Range(obj)
  <2>1. Count(xs, {v}) \in Nat /\ Count(u, {v}) \in Nat /\ Count(r, {v}) \in Nat
    <3>1. Count(xs, {v}) \in 0 .. Len(xs) /\ Count(u, {v}) \in 0 .. Len(u) /\ Count(r, {v}) \in 0 .. Len(r)
      BY <1>2, CountBasics
    <3> QED  BY <3>1
  <2>2. Count(obj, {v}) >= 1
    BY <1>1, <1>11, <2>1 DEF SameElements
  <2>3. \E x \in Range(obj) : x \in {v}
    BY <2>2, CountBasics
  <2> QED  BY <2>3
<1>12. ASSUME NEW v \in Range(xs) \cup Range(u) PROVE v \in Range(obj) /\ v \in Names
  <2>1. v \in Names
    BY <1>2 DEF Range
  <2>2. Count(xs, {v}) >= 1 \/ Count(u, {v}) >= 1
    BY <1>2, CountBasics
  <2> QED  BY <1>11, <2>1, <2>2
<1> HIDE DEF L, n, true
<1>13. \A i \in 1 .. Len(p) : Shows(L, p[i], i > Falses(xs, B))
  <2>1. \A i \in 1 .. Len(xs) : xs[i] \in Range(xs)
    BY DEF Range
  <2>2. \A i \in 1 .. Len(xs) : Shows(L, xs[i], xs[i] \in B)
    BY <1>10, <1>12, <2>1
  <2> QED  BY <1>1, <1>10, <2>2 DEF Sorts
<1>14. ASSUME NEW i \in 1 .. n PROVE (IF i > n - true THEN s[i] ELSE -s[i]) \in L
  <2>1. CASE i <= Len(p)
    <3>1. i \in 1 .. Len(p) /\ s[i] = p[i]
      BY <1>3, <2>1
    <3> QED  BY <1>9, <1>13, <3>1 DEF Shows
  <2>2. CASE ~ (i <= Len(p))
    <3>1. i - Len(p) \in 1 .. Len(u) /\ Len(p) + (i - Len(p)) = i
      BY <1>3, <2>2
    <3>2. s[i] = u[i - Len(p)]
      BY <1>3, <3>1
    <3>3. u[i - Len(p)] \in Range(u)
      BY <1>2, <3>1 DEF Range
    <3>4. s[i] \in L
      BY <1>10, <1>12, <3>2, <3>3 DEF Shows
    <3>5. i > n - true
      BY <1>3, <1>9, <2>2
    <3> QED  BY <3>4, <3>5
  <2> QED  BY <2>1, <2>2
<1> QED  BY <1>9, <1>14 DEF L, n, true

-----------------------------------------------------------------------------
(* What the operations do to the networks of an objective *)

\* an operation in the solver T gives outputs, and a solver with more clauses
Made(T, q) == q = [s |-> q.s, w |-> q.w] /\ Grown(T, q) /\ q.w \in Seq(Names)

LEMMA NothingSorted == ASSUME NEW F PROVE Sorts(F, <<>>, <<>>)
<1>1. <<>> \in Seq(Names) /\ Len(<<>>) = 0 /\ \A i \in 1 .. 0 : FALSE
  OBVIOUS
<1> QED  BY <1>1 DEF Sorts

LEMMA EmptyCount == ASSUME NEW B PROVE Count(<<>>, B) = 0
<1>1. <<>> \in Seq(Names) /\ Len(<<>>) = 0
  OBVIOUS
<1>2. Count(<<>>, B) \in 0 .. Len(<<>>)
  BY <1>1, CountBasics
<1> QED  BY <1>1, <1>2

LEMMA EncodeSortedRight ==
  ASSUME NEW T \in Solvers, NEW inputs \in Seq(Names), NEW old \in Seq(Names)
  PROVE  LET q == EncodeSorted(T, inputs, old)
         IN  /\ Made(T, q)
             /\ inputs = <<>> => q.w = old
             /\ inputs # <<>> => Sorts(q.s.hard, inputs, q.w)
<1> DEFINE q == EncodeSorted(T, inputs, old)
<1>1. CASE inputs = <<>>
  <2>1. q = [s |-> T, w |-> old]
    BY <1>1 DEF EncodeSorted
  <2> HIDE DEF q
  <2>2. q.s = T /\ q.w = old /\ q = [s |-> q.s, w |-> q.w]
    BY <2>1
  <2> QED  BY <1>1, <2>2 DEF Made, Grown, q
<1>2. CASE inputs # <<>>
  <2>1. q = Sorted(T, inputs) /\ Len(inputs) >= 1
    BY <1>2 DEF EncodeSorted
  <2> HIDE DEF q
  <2>2. q = [s |-> q.s, w |-> q.w] /\ Grown(T, q) /\ Sorts(q.s.hard, inputs, q.w)
    BY <2>1, SortedRight
  <2>3. q.w \in Seq(Names)
    BY <2>2 DEF Sorts
  <2> QED  BY <1>2, <2>2, <2>3 DEF Made, q
<1> QED  BY <1>1, <1>2

\* without old outputs, it sorts in any case
LEMMA EncodeNewRight ==
  ASSUME NEW T \in Solvers, NEW inputs \in Seq(Names)
  PROVE  LET q == EncodeSorted(T, inputs, <<>>) IN Made(T, q) /\ Sorts(q.s.hard, inputs, q.w)
<1>1. <<>> \in Seq(Names)
  OBVIOUS
<1> QED  BY <1>1, EncodeSortedRight, NothingSorted

LEMMA PutBack ==
  ASSUME NEW T, NEW q, Made(T, q), NEW u \in Seq(Names)
  PROVE  LET z == [q EXCEPT !.w = @ \o u] IN z.s = q.s /\ z.w = q.w \o u /\ Made(T, z)
<1> DEFINE z == [q EXCEPT !.w = @ \o u]
<1>1. q = [s |-> q.s, w |-> q.w] /\ q.w \in Seq(Names)
  BY DEF Made
<1>2. q.w \o u \in Seq(Names)
  BY <1>1, ConcatNames
<1>3. z = [s |-> q.s, w |-> q.w \o u]
  BY <1>1, NewOutputs
<1> HIDE DEF z
<1>4. z.s = q.s /\ z.w = q.w \o u /\ z = [s |-> z.s, w |-> z.w]
  BY <1>3
<1> QED  BY <1>2, <1>4 DEF Made, Grown, z

LEMMA PartStatic ==
  ASSUME NEW T \in Solvers, NEW obj \in Seq(Names)
  PROVE  LET q == EncodeSorted(T, obj, <<>>) IN Made(T, q) /\ NetPart(obj, q.s.hard, q.w, <<>>, <<>>)
<1> DEFINE q == EncodeSorted(T, obj, <<>>)
<1>1. Made(T, q) /\ Sorts(q.s.hard, obj, q.w)
  BY EncodeNewRight
<1> HIDE DEF q
<1>2. SameElements(obj, obj, <<>>, <<>>)
  <2>1. ASSUME NEW B PROVE Count(obj, B) = Count(obj, B) + Count(<<>>, B) + Count(<<>>, B)
    <3>1. Count(obj, B) \in 0 .. Len(obj)
      BY CountBasics
    <3>2. Count(<<>>, B) = 0
      BY EmptyCount
    <3> QED  BY <3>1, <3>2
  <2> QED  BY <2>1 DEF SameElements
<1>3. <<>> \in Seq(Names)
  OBVIOUS
<1>4. NetPart(obj, q.s.hard, q.w \o <<>>, <<>>, <<>>)
  BY <1>1, <1>2, <1>3, PartMade
<1>5. q.w \o <<>> = q.w
  BY <1>1 DEF Made
<1> QED  BY <1>1, <1>4, <1>5 DEF q

LEMMA PartFirst ==
  ASSUME NEW T \in Solvers, NEW obj \in Seq(Names), NEW new, NEW single,
         new \cap single = {}, new \subseteq DOMAIN obj, single \subseteq DOMAIN obj
  PROVE  LET u == Taken(obj, single)
             r == Left(obj, new \cup single)
             q == EncodeSorted(T, Taken(obj, new), <<>>)
             z == [q EXCEPT !.w = @ \o u]
         IN  Made(T, z) /\ NetPart(obj, z.s.hard, z.w, r, u)
<1> DEFINE u == Taken(obj, single)
           r == Left(obj, new \cup single)
           xs == Taken(obj, new)
           q == EncodeSorted(T, xs, <<>>)
           z == [q EXCEPT !.w = @ \o u]
           V == new \cup single
           W == DOMAIN obj \ V
<1>0. DOMAIN obj = 1 .. Len(obj)
  OBVIOUS
<1>1. r = Taken(obj, W)
  BY DEF Left
<1>2. u \in Seq(Names) /\ xs \in Seq(Names) /\ Taken(obj, W) \in Seq(Names) /\ Taken(obj, V) \in Seq(Names)
  BY TakenRight
<1>3. \A B : Count(Taken(obj, V), B) = Count(xs, B) + Count(u, B)
  <2>1. Divides(new, single, V, Len(obj))
    BY DEF Divides
  <2> HIDE DEF V
  <2> QED  BY <2>1, TakenTwo
<1>4. \A B : Count(Taken(obj, DOMAIN obj), B) = Count(Taken(obj, V), B) + Count(Taken(obj, W), B)
  <2>1. Divides(V, W, DOMAIN obj, Len(obj))
    BY <1>0 DEF Divides
  <2> HIDE DEF V, W
  <2> QED  BY <2>1, TakenTwo
<1>5. \A B : Count(Taken(obj, DOMAIN obj), B) = Count(obj, B)
  BY <1>0, TakenAll
<1> HIDE DEF u, r, xs, V, W
<1>6. SameElements(obj, xs, r, u)
  <2>1. ASSUME NEW B PROVE Count(obj, B) = Count(xs, B) + Count(r, B) + Count(u, B)
    <3>1. Count(xs, B) \in Nat /\ Count(r, B) \in Nat /\ Count(u, B) \in Nat
      <4>1. Count(xs, B) \in 0 .. Len(xs) /\ Count(r, B) \in 0 .. Len(r) /\ Count(u, B) \in 0 .. Len(u)
        BY <1>1, <1>2, CountBasics
      <4> QED  BY <4>1
    <3>2. Count(obj, B) = (Count(xs, B) + Count(u, B)) + Count(r, B)
      BY <1>1, <1>3, <1>4, <1>5
    <3> QED  BY <3>1, <3>2
  <2> QED  BY <2>1 DEF SameElements
<1>7. Made(T, q) /\ Sorts(q.s.hard, xs, q.w)
  BY <1>2, EncodeNewRight
<1> HIDE DEF q
<1>8. z.s = q.s /\ z.w = q.w \o u /\ Made(T, z)
  BY <1>2, <1>7, PutBack
<1>9. NetPart(obj, q.s.hard, q.w \o u, r, u)
  BY <1>1, <1>2, <1>6, <1>7, PartMade
<1> HIDE DEF z
<1> QED  BY <1>8, <1>9 DEF z, q, u, r, xs, V

\* what is taken from the inputs that are left is sorted as well
LEMMA MovedElements ==
  ASSUME NEW obj, NEW xs \in Seq(Names), NEW r \in Seq(Names), NEW u \in Seq(Names), SameElements(obj, xs, r, u), NEW P,
         P \subseteq DOMAIN r
  PROVE  /\ Taken(r, P) \in Seq(Names) /\ Left(r, P) \in Seq(Names)
         /\ SameElements(obj, xs \o Taken(r, P), Left(r, P), u)
         /\ Taken(r, P) = <<>> => SameElements(obj, xs, Left(r, P), u)
<1> DEFINE t == Taken(r, P)
           D == DOMAIN r
           W == D \ P
           l == Taken(r, W)
<1>0. Left(r, P) = l /\ D = 1 .. Len(r)
  BY DEF Left
<1>1. t \in Seq(Names) /\ l \in Seq(Names)
  BY TakenRight
<1>2. \A B : Count(Taken(r, D), B) = Count(t, B) + Count(l, B)
  <2>1. Divides(P, W, D, Len(r))
    BY <1>0 DEF Divides
  <2> HIDE DEF W, D, t, l
  <2>2. \A B : Count(Taken(r, D), B) = Count(Taken(r, P), B) + Count(Taken(r, W), B)
    BY <2>1, TakenTwo
  <2> QED  BY <2>2 DEF t, l
<1>3. \A B : Count(Taken(r, D), B) = Count(r, B)
  <2> HIDE DEF D
  <2> QED  BY <1>0, TakenAll
<1> HIDE DEF t, l, W
<1>4. ASSUME NEW B
      PROVE  /\ Count(obj, B) = Count(xs \o t, B) + Count(l, B) + Count(u, B)
             /\ t = <<>> => Count(obj, B) = Count(xs, B) + Count(l, B) + Count(u, B)
  <2>1. Count(xs, B) \in Nat /\ Count(t, B) \in Nat /\ Count(l, B) \in Nat /\ Count(u, B) \in Nat
    <3>1. Count(xs, B) \in 0 .. Len(xs) /\ Count(t, B) \in 0 .. Len(t) /\ Count(l, B) \in 0 .. Len(l) /\ Count(u, B) \in 0 .. Len(u)
      BY <1>1, CountBasics
    <3> QED  BY <3>1
  <2>2. Count(xs \o t, B) = Count(xs, B) + Count(t, B)
    BY <1>1, CountConcat
  <2>3. Count(obj, B) = Count(xs, B) + Count(r, B) + Count(u, B) /\ Count(r, B) = Count(t, B) + Count(l, B)
    BY <1>2, <1>3 DEF SameElements
  <2>4. t = <<>> => Count(t, B) = 0
    BY EmptyCount
  <2> QED  BY <2>1, <2>2, <2>3, <2>4
<1>5. SameElements(obj, xs \o t, l, u) /\ (t = <<>> => SameElements(obj, xs, l, u))
  BY <1>4 DEF SameElements
<1> QED  BY <1>0, <1>1, <1>5 DEF t

LEMMA PartMerged ==
  ASSUME NEW obj, NEW F, NEW s, NEW r, NEW u, NetPart(obj, F, s, r, u),
         NEW T \in Solvers, F \subseteq T.hard, NEW new, new \subseteq DOMAIN r
  PROVE  LET q == MergeCoreGuided(T, Taken(r, new), s, u)
         IN  Made(T, q) /\ NetPart(obj, q.s.hard, q.w, Left(r, new), u)
<1> DEFINE t == Taken(r, new)
           l == Left(r, new)
           q == MergeCoreGuided(T, t, s, u)
<1>1. s \in Seq(Names) /\ r \in Seq(Names) /\ u \in Seq(Names)
  BY DEF NetPart
<1>2. PICK xs \in Seq(Names), p \in Seq(Names) : s = p \o u /\ Sorts(F, xs, p) /\ SameElements(obj, xs, r, u)
  BY DEF NetPart, SortedPart
<1>3. t \in Seq(Names) /\ l \in Seq(Names) /\ SameElements(obj, xs \o t, l, u) /\ (t = <<>> => SameElements(obj, xs, l, u))
  BY <1>1, <1>2, MovedElements
<1> HIDE DEF t, l
<1>4. Sorts(T.hard, xs, p)
  BY <1>2, SortsMore
<1>5. CASE t = <<>>
  <2>1. q = [s |-> T, w |-> s]
    BY <1>5 DEF MergeCoreGuided
  <2> HIDE DEF q
  <2>2. q.s = T /\ q.w = s /\ q = [s |-> q.s, w |-> q.w]
    BY <2>1
  <2>3. NetPart(obj, T.hard, s, l, u)
    BY <1>1, <1>2, <1>3, <1>4, <1>5, PartMade
  <2>4. Made(T, q)
    BY <1>1, <2>2 DEF Made, Grown
  <2> QED  BY <2>2, <2>3, <2>4 DEF q, t, l
<1>6. CASE t # <<>>
  <2>1. Len(t) >= 1
    BY <1>3, <1>6
  <2>2. q = [s |-> q.s, w |-> q.w] /\ Grown(T, q) /\ \E m : q.w = m \o u /\ Sorts(q.s.hard, xs \o t, m)
    <3>1. q = MergeCoreGuided(T, t, p \o u, u)
      BY <1>2
    <3> HIDE DEF q
    <3>2. LET z == MergeCoreGuided(T, t, p \o u, u)
          IN  /\ z = [s |-> z.s, w |-> z.w] /\ Grown(T, z)
              /\ \E m : z.w = m \o u /\ Sorts(z.s.hard, xs \o t, m)
      BY <1>1, <1>3, <1>4, <2>1, MergedRight
    <3> QED  BY <3>1, <3>2
  <2> HIDE DEF q
  <2>3. PICK m : q.w = m \o u /\ Sorts(q.s.hard, xs \o t, m)
    BY <2>2
  <2>4. xs \o t \in Seq(Names)
    BY <1>3, ConcatNames
  <2>5. NetPart(obj, q.s.hard, q.w, l, u)
    BY <1>1, <1>3, <2>3, <2>4, PartMade
  <2>6. Made(T, q)
    BY <2>2, <2>5 DEF Made, NetPart
  <2> QED  BY <2>5, <2>6 DEF q, t, l
<1> QED  BY <1>5, <1>6

\* set_inputs_sorted, where no variable is repeated: the inputs are those that
\* are sorted already and the new ones
LEMMA InputsKept ==
  ASSUME NEW k, objectives[k] \in Seq(Names), unit[k] \in Seq(Names), IsInjective(objectives[k]),
         NEW xs \in Seq(Names), NEW l \in Seq(Names), SameElements(objectives[k], xs, l, unit[k])
  PROVE  /\ InputsSorted(k, l) \in Seq(Names) /\ Len(InputsSorted(k, l)) = Len(xs)
         /\ SameElements(objectives[k], InputsSorted(k, l), l, unit[k])
<1> DEFINE obj == objectives[k]
           u == unit[k]
           found == Range(l) \cup Range(u)
           P == {i \in DOMAIN obj : obj[i] \notin found}
           kept == Taken(obj, P)
           size == Len(obj) - Len(l) - Len(u)
<1>1. InputsSorted(k, l) = kept \o [i \in 1 .. size - Len(kept) |-> 0]
  BY DEF InputsSorted
<1>12. obj \in Seq(Names) /\ u \in Seq(Names) /\ IsInjective(obj) /\ SameElements(obj, xs, l, u)
  OBVIOUS
<1> HIDE DEF obj, u
<1>0. DOMAIN obj = 1 .. Len(obj) /\ Len(obj) \in Nat /\ Len(l) \in Nat /\ Len(u) \in Nat /\ Len(xs) \in Nat
  BY <1>12
<1>2. kept \in Seq(Names) /\ \A B : Count(kept, B) = Number({i \in 1 .. Len(obj) : i \in P /\ obj[i] \in B}, Len(obj))
  <2> HIDE DEF P
  <2> QED  BY <1>12, TakenRight
<1>3. \A B : Count(kept, B) = Count(obj, B \ found)
  <2>1. ASSUME NEW B PROVE Count(kept, B) = Count(obj, B \ found)
    <3>1. {i \in 1 .. Len(obj) : i \in P /\ obj[i] \in B} = {i \in 1 .. Len(obj) : obj[i] \in B \ found}
      BY <1>0
    <3>2. Count(obj, B \ found) = Number({i \in 1 .. Len(obj) : obj[i] \in B \ found}, Len(obj))
      <4> HIDE DEF found
      <4> QED  BY <1>12, CountNumber
    <3> QED  BY <1>2, <3>1, <3>2
  <2> QED  BY <2>1
<1>4. \A B : Count(l, B \ found) = 0 /\ Count(u, B \ found) = 0
  <2>1. ASSUME NEW B PROVE Count(l, B \ found) = 0 /\ Count(u, B \ found) = 0
    <3>1. (\A x \in Range(l) : x \notin B \ found) /\ \A x \in Range(u) : x \notin B \ found
      OBVIOUS
    <3> HIDE DEF found
    <3> QED  BY <1>12, <3>1, CountBasics
  <2> QED  BY <2>1
<1> HIDE DEF kept, P
<1>5. \A B : Count(xs, B) \in Nat /\ Count(l, B) \in Nat /\ Count(u, B) \in Nat /\ Count(obj, B) = Count(xs, B) + Count(l, B) + Count(u, B)
  <2>1. ASSUME NEW B PROVE Count(xs, B) \in Nat /\ Count(l, B) \in Nat /\ Count(u, B) \in Nat
    <3>1. Count(xs, B) \in 0 .. Len(xs) /\ Count(l, B) \in 0 .. Len(l) /\ Count(u, B) \in 0 .. Len(u)
      BY <1>12, CountBasics
    <3> QED  BY <1>0, <3>1
  <2> QED  BY <1>12, <2>1 DEF SameElements
<1>6. ASSUME NEW x \in Range(xs), x \in found PROVE FALSE
  <2> DEFINE Q == {i \in 1 .. Len(obj) : obj[i] \in {x}}
  <2>1. Count(xs, {x}) >= 1
    BY CountBasics
  <2>2. Count(l, {x}) >= 1 \/ Count(u, {x}) >= 1
    <3>1. CASE x \in Range(l)
      BY <3>1, CountBasics
    <3>2. CASE x \in Range(u)
      BY <1>12, <3>2, CountBasics
    <3> QED  BY <1>6, <3>1, <3>2
  <2>3. Count(obj, {x}) >= 2
    BY <1>5, <2>1, <2>2
  <2>4. Count(obj, {x}) = Cardinality(Q)
    BY <1>0 DEF Count
  <2>5. PICK i \in Q : TRUE
    <3> HIDE DEF Q
    <3>1. ASSUME Q = {} PROVE FALSE
      <4>1. Cardinality(Q) = 0
        BY <3>1, FS_EmptySet
      <4>2. Count(obj, {x}) = 0
        BY <2>4, <4>1
      <4> QED  BY <2>3, <4>2
    <3> QED  BY <3>1
  <2>6. Q = {i}
    <3>1. \A j \in Q : j = i
      BY <1>0, <1>12, <2>5 DEF IsInjective
    <3> QED  BY <2>5, <3>1
  <2>7. Cardinality({i}) = 1
    BY FS_Singleton
  <2> HIDE DEF Q
  <2> QED  BY <2>3, <2>4, <2>6, <2>7
<1>7. \A B : Count(xs, B \ found) = Count(xs, B)
  <2>1. ASSUME NEW B PROVE Count(xs, B \ found) = Count(xs, B)
    <3>1. {j \in DOMAIN xs : xs[j] \in B \ found} = {j \in DOMAIN xs : xs[j] \in B}
      BY <1>6 DEF Range
    <3> QED  BY <3>1 DEF Count
  <2> QED  BY <2>1
<1>8. \A B : Count(kept, B) = Count(xs, B)
  <2>1. ASSUME NEW B PROVE Count(kept, B) = Count(xs, B)
    <3> DEFINE C == B \ found
    <3>1. Count(kept, B) = Count(obj, C) /\ Count(xs, C) = Count(xs, B) /\ Count(l, C) = 0 /\ Count(u, C) = 0
      BY <1>3, <1>4, <1>7
    <3> HIDE DEF C
    <3>2. Count(obj, C) = Count(xs, C) + Count(l, C) + Count(u, C) /\ Count(xs, C) \in Nat
      BY <1>5
    <3> QED  BY <3>1, <3>2
  <2> QED  BY <2>1
<1>9. Len(kept) = Len(xs) /\ size - Len(kept) = 0
  <2>1. Count(kept, Names) = Len(kept) /\ Count(xs, Names) = Len(xs) /\ Count(l, Names) = Len(l) /\ Count(u, Names) = Len(u) /\ Count(obj, Names) = Len(obj)
    BY <1>2, <1>12, CountBasics
  <2>2. Len(kept) = Len(xs)
    BY <1>8, <2>1
  <2>3. Len(obj) = Len(xs) + Len(l) + Len(u)
    BY <1>5, <2>1
  <2>4. size = Len(xs)
    BY <1>0, <2>3
  <2> HIDE DEF size
  <2> QED  BY <1>0, <2>2, <2>4
<1>10. InputsSorted(k, l) = kept
  <2>1. [i \in 1 .. size - Len(kept) |-> 0] = <<>>
    <3> HIDE DEF size
    <3> QED  BY <1>9
  <2>2. kept \o <<>> = kept
    BY <1>2
  <2> HIDE DEF size
  <2> QED  BY <1>1, <2>1, <2>2
<1>11. SameElements(obj, kept, l, u)
  BY <1>5, <1>8 DEF SameElements
<1> QED  BY <1>2, <1>9, <1>10, <1>11 DEF obj, u

LEMMA TakenSome ==
  ASSUME NEW v \in Seq(Names), NEW P, P \subseteq DOMAIN v, P # {}
  PROVE  Taken(v, P) # <<>>
<1> DEFINE t == Taken(v, P)
           A == {i \in 1 .. Len(v) : i \in P /\ v[i] \in Names}
<1>1. t \in Seq(Names) /\ Count(t, Names) = Number(A, Len(v))
  BY TakenRight
<1>2. A # {} /\ A \subseteq 1 .. Len(v)
  <2>1. PICK i \in P : TRUE
    OBVIOUS
  <2>2. i \in 1 .. Len(v) /\ v[i] \in Names
    BY <2>1
  <2> QED  BY <2>1, <2>2
<1>3. IsFiniteSet(1 .. Len(v)) /\ IsFiniteSet(A)
  <2>1. IsFiniteSet(1 .. Len(v))
    BY FS_Interval
  <2> HIDE DEF A
  <2> QED  BY <1>2, <2>1, FS_Subset
<1>4. (1 .. Len(v)) \cap A = A
  <2> HIDE DEF A
  <2> QED  BY <1>2
<1>5. Number(A, Len(v)) = Cardinality(A)
  <2> HIDE DEF A
  <2> QED  BY <1>4 DEF Number
<1>6. Cardinality(A) # 0
  <2> HIDE DEF A
  <2> QED  BY <1>2, <1>3, FS_EmptySet
<1>7. ASSUME t = <<>> PROVE FALSE
  <2>1. Count(t, Names) = 0
    BY <1>7, EmptyCount
  <2> HIDE DEF A, t
  <2> QED  BY <1>1, <1>5, <1>6, <2>1
<1> QED  BY <1>7

\* the network of an objective is built again, or kept
LEMMA PartRebuilt ==
  ASSUME NEW k, objectives[k] \in Seq(Names), IsInjective(objectives[k]),
         NEW F, NEW s, s = sorted[k], NEW r, NetPart(objectives[k], F, s, r, unit[k]),
         NEW T \in Solvers, input.mode # "core_rebuild" => F \subseteq T.hard,
         input.mode = "core_rebuild" => unit[k] = <<>>,
         NEW new, new \subseteq DOMAIN r
  PROVE  LET q == Rebuild(T, k, Left(r, new), new # {})
         IN  Made(T, q) /\ NetPart(objectives[k], q.s.hard, q.w, Left(r, new), unit[k])
<1> DEFINE obj == objectives[k]
           u == unit[k]
           t == Taken(r, new)
           l == Left(r, new)
           inputs == InputsSorted(k, l)
           q == Rebuild(T, k, l, new # {})
<1>1. s \in Seq(Names) /\ r \in Seq(Names) /\ u \in Seq(Names)
  BY DEF NetPart
<1>2. PICK xs \in Seq(Names), p \in Seq(Names) : s = p \o u /\ Sorts(F, xs, p) /\ SameElements(obj, xs, r, u)
  BY DEF NetPart, SortedPart
<1>3. t \in Seq(Names) /\ l \in Seq(Names) /\ SameElements(obj, xs \o t, l, u) /\ (t = <<>> => SameElements(obj, xs, l, u))
  BY <1>1, <1>2, MovedElements
<1>4. new # {} => t # <<>>
  BY <1>1, TakenSome
<1>5. new = {} => t = <<>>
  BY <1>1, TakenNone
<1>6. xs \o t \in Seq(Names) /\ Len(xs \o t) = Len(xs) + Len(t)
  <2> HIDE DEF t
  <2> QED  BY <1>2, <1>3, ConcatNames
<1> HIDE DEF t, l
<1>7. inputs \in Seq(Names) /\ Len(inputs) = Len(xs) + Len(t) /\ SameElements(obj, inputs, l, u)
  <2>1. InputsSorted(k, l) \in Seq(Names) /\ Len(InputsSorted(k, l)) = Len(xs \o t) /\ SameElements(obj, InputsSorted(k, l), l, u)
    BY <1>1, <1>3, <1>6, InputsKept
  <2> QED  BY <1>6, <2>1
<1> HIDE DEF inputs
<1>8. CASE input.mode = "core_rebuild" \/ new # {}
  <2> DEFINE e == EncodeSorted(T, inputs, s)
             z == [e EXCEPT !.w = @ \o u]
  <2>1. q = z
    BY <1>8 DEF Rebuild, inputs
  <2>2. Made(T, e) /\ (inputs = <<>> => e.w = s) /\ (inputs # <<>> => Sorts(e.s.hard, inputs, e.w))
    BY <1>1, <1>7, EncodeSortedRight
  <2> HIDE DEF e
  <2>3. z.s = e.s /\ z.w = e.w \o u /\ Made(T, z)
    <3> HIDE DEF u
    <3> QED  BY <1>1, <2>2, PutBack
  <2>4. CASE inputs # <<>>
    <3>1. NetPart(obj, e.s.hard, e.w \o u, l, u)
      <4> HIDE DEF obj, u
      <4> QED  BY <1>1, <1>3, <1>7, <2>2, <2>4, PartMade
    <3> HIDE DEF z, q
    <3> QED  BY <2>1, <2>3, <3>1 DEF q, l
  <2>5. CASE inputs = <<>>
    <3>1. Len(xs) = 0 /\ Len(t) = 0
      <4>1. Len(inputs) = 0
        BY <2>5
      <4>2. Len(xs) \in Nat /\ Len(t) \in Nat
        BY <1>2, <1>3
      <4>3. Len(inputs) = Len(xs) + Len(t)
        BY <1>7
      <4>4. \A a, b \in Nat : a + b = 0 => a = 0 /\ b = 0
        OBVIOUS
      <4>5. Len(xs) + Len(t) = 0
        BY <4>1, <4>3
      <4> QED  BY <4>2, <4>4, <4>5
    <3>2. xs = <<>> /\ t = <<>>
      BY <1>2, <1>3, <3>1
    <3>3. p = <<>>
      <4>1. p \in Seq(Names) /\ Len(p) = Len(xs)
        BY <1>2 DEF Sorts
      <4> QED  BY <3>1, <4>1
    <3>4. u = <<>>
      BY <1>4, <1>8, <3>2
    <3>5. z.w = <<>>
      <4>1. s = <<>>
        BY <1>2, <3>3, <3>4
      <4>2. e.w = <<>>
        BY <2>2, <2>5, <4>1
      <4> HIDE DEF z, u
      <4> QED  BY <2>3, <3>4, <4>2
    <3>6. <<>> \in Seq(Names) /\ <<>> \o <<>> = <<>>
      OBVIOUS
    <3>7. SameElements(obj, <<>>, l, <<>>)
      BY <1>3, <3>2, <3>4
    <3>8. NetPart(obj, e.s.hard, <<>> \o <<>>, l, <<>>)
      <4> HIDE DEF obj
      <4> QED  BY <1>3, <3>6, <3>7, NothingSorted, PartMade
    <3>9. NetPart(obj, z.s.hard, z.w, l, u)
      <4> HIDE DEF z, obj, u
      <4> QED  BY <2>3, <3>4, <3>5, <3>6, <3>8
    <3> HIDE DEF z, q
    <3> QED  BY <2>1, <2>3, <3>9 DEF q, l
  <2> QED  BY <2>4, <2>5
<1>9. CASE ~ (input.mode = "core_rebuild" \/ new # {})
  <2>1. q = [s |-> T, w |-> s]
    BY <1>9 DEF Rebuild
  <2> HIDE DEF q
  <2>2. q.s = T /\ q.w = s /\ q = [s |-> q.s, w |-> q.w]
    BY <2>1
  <2>3. SameElements(obj, xs, l, u) /\ Sorts(T.hard, xs, p)
    BY <1>2, <1>3, <1>5, <1>9, SortsMore
  <2>4. NetPart(obj, T.hard, p \o u, l, u)
    <3> HIDE DEF obj, u
    <3> QED  BY <1>1, <1>2, <1>3, <2>3, PartMade
  <2>5. Made(T, q)
    BY <1>1, <2>2 DEF Made, Grown
  <2> QED  BY <1>2, <2>2, <2>4, <2>5 DEF q, l
<1> QED  BY <1>8, <1>9

-----------------------------------------------------------------------------
(* The networks restrict nothing.  The outputs of a comparator are new      *)
(* variables, so that its clauses can be satisfied whatever the variables   *)
(* are that the solver had before.                                          *)

Satisfies(B, F) == \A c \in F : \E l \in c : Holds(B, l)
Within(F, id) == \A c \in F : \A l \in c : AbsLit(l) <= id
Same(B, C, id) == \A v \in 0 .. id : v \in C <=> v \in B

\* every model of the clauses of S is one of those of T, for some values of
\* the variables that T has in addition
Enlarges(S, T) ==
  /\ S.id <= T.id /\ Within(T.hard, T.id)
  /\ \A B : Satisfies(B, S.hard) => \E C : Satisfies(C, T.hard) /\ Same(B, C, S.id)

LEMMA SameSatisfies ==
  ASSUME NEW F, F \subseteq SUBSET Int, NEW id \in Nat, Within(F, id), NEW B, NEW C, Same(B, C, id), Satisfies(B, F)
  PROVE  Satisfies(C, F)
<1>1. ASSUME NEW l \in Int, AbsLit(l) <= id PROVE Holds(B, l) <=> Holds(C, l)
  <2>1. CASE l > 0
    <3>1. l \in 0 .. id
      BY <1>1, <2>1 DEF AbsLit
    <3> QED  BY <2>1, <3>1 DEF Same, Holds
  <2>2. CASE ~ (l > 0)
    <3>1. -l \in 0 .. id
      BY <1>1, <2>2 DEF AbsLit
    <3> QED  BY <2>2, <3>1 DEF Same, Holds
  <2> QED  BY <2>1, <2>2
<1>2. ASSUME NEW c \in F PROVE \E l \in c : Holds(C, l)
  <2>1. PICK l \in c : Holds(B, l)
    BY DEF Satisfies
  <2>2. l \in Int /\ AbsLit(l) <= id
    BY DEF Within
  <2> QED  BY <1>1, <2>1, <2>2
<1> QED  BY <1>2 DEF Satisfies

LEMMA EnlargesItself == ASSUME NEW S \in Solvers, Within(S.hard, S.id) PROVE Enlarges(S, S)
<1>1. S.id \in Nat
  BY SolverParts
<1>2. \A B : Same(B, B, S.id)
  BY DEF Same
<1> QED  BY <1>1, <1>2 DEF Enlarges

LEMMA EnlargesMore ==
  ASSUME NEW S \in Solvers, NEW T \in Solvers, NEW U \in Solvers, Enlarges(S, T), Enlarges(T, U)
  PROVE  Enlarges(S, U)
<1>1. S.id \in Nat /\ T.id \in Nat /\ U.id \in Nat
  BY SolverParts
<1>2. S.id <= T.id /\ T.id <= U.id /\ Within(U.hard, U.id)
  BY DEF Enlarges
<1>3. ASSUME NEW B, Satisfies(B, S.hard) PROVE \E C : Satisfies(C, U.hard) /\ Same(B, C, S.id)
  <2>1. PICK C : Satisfies(C, T.hard) /\ Same(B, C, S.id)
    BY <1>3 DEF Enlarges
  <2>2. PICK D : Satisfies(D, U.hard) /\ Same(C, D, T.id)
    BY <2>1 DEF Enlarges
  <2>3. \A v \in 0 .. S.id : v \in 0 .. T.id
    BY <1>1, <1>2
  <2>4. Same(B, D, S.id)
    BY <2>1, <2>2, <2>3 DEF Same
  <2> QED  BY <2>2, <2>4
<1>4. S.id <= U.id
  BY <1>1, <1>2
<1> QED  BY <1>2, <1>3, <1>4 DEF Enlarges

LEMMA ComparatorSatisfied ==
  ASSUME NEW id \in Nat, NEW a \in 1 .. id, NEW b \in 1 .. id, NEW B
  PROVE  \E C : Satisfies(C, Comparator(a, b, id + 1, id + 2)) /\ Same(B, C, id)
<1> DEFINE min == id + 1
           max == id + 2
           C == {v \in B : v \in 0 .. id} \cup {v \in {min} : a \in B /\ b \in B} \cup {v \in {max} : a \in B \/ b \in B}
<1>1. /\ a \in Int /\ b \in Int /\ a > 0 /\ b > 0 /\ a \in 0 .. id /\ b \in 0 .. id
      /\ min \in Int /\ max \in Int /\ min > 0 /\ max > 0 /\ min # max /\ min \notin 0 .. id /\ max \notin 0 .. id
  OBVIOUS
<1> HIDE DEF min, max
<1>2. \A v \in 0 .. id : v \in C <=> v \in B
  BY <1>1
<1>3. (min \in C <=> a \in B /\ b \in B) /\ (max \in C <=> a \in B \/ b \in B) /\ (a \in C <=> a \in B) /\ (b \in C <=> b \in B)
  BY <1>1
<1> HIDE DEF C
<1>4. \A v \in Int : v > 0 => (Holds(C, v) <=> v \in C) /\ (Holds(C, -v) <=> v \notin C)
  BY DEF Holds
<1>5. ASSUME NEW c \in Comparator(a, b, min, max) PROVE \E l \in c : Holds(C, l)
  <2>1. CASE c = {-max, a, b}
    BY <1>1, <1>3, <1>4, <2>1
  <2>2. CASE c = {max, -a}
    BY <1>1, <1>3, <1>4, <2>2
  <2>3. CASE c = {max, -b}
    BY <1>1, <1>3, <1>4, <2>3
  <2>4. CASE c = {-min, a}
    BY <1>1, <1>3, <1>4, <2>4
  <2>5. CASE c = {-min, b}
    BY <1>1, <1>3, <1>4, <2>5
  <2>6. CASE c = {min, -a, -b}
    BY <1>1, <1>3, <1>4, <2>6
  <2> QED  BY <2>1, <2>2, <2>3, <2>4, <2>5, <2>6 DEF Comparator
<1> QED  BY <1>2, <1>5 DEF Satisfies, Same, min, max

\* the clauses of a comparator on variables of S, whose outputs are new
LEMMA ComparatorEnlarges ==
  ASSUME NEW S \in Solvers, Within(S.hard, S.id), NEW a \in 1 .. S.id, NEW b \in 1 .. S.id,
         NEW T \in Solvers, T.hard = S.hard \cup Comparator(a, b, S.id + 1, S.id + 2), T.id = S.id + 2
  PROVE  Enlarges(S, T)
<1> DEFINE cs == Comparator(a, b, S.id + 1, S.id + 2)
<1>1. S.id \in Nat /\ S.hard \subseteq SUBSET Int
  BY SolverParts
<1>2. Within(cs, T.id)
  <2>1. \A c \in cs : \A l \in c : l \in {a, b, S.id + 1, S.id + 2, -a, -b, -(S.id + 1), -(S.id + 2)}
    BY DEF Comparator
  <2>2. \A l \in {a, b, S.id + 1, S.id + 2, -a, -b, -(S.id + 1), -(S.id + 2)} : AbsLit(l) <= S.id + 2
    BY <1>1 DEF AbsLit
  <2> HIDE DEF cs
  <2> QED  BY <2>1, <2>2 DEF Within
<1>3. Within(S.hard, T.id)
  <2>1. ASSUME NEW c \in S.hard, NEW l \in c PROVE AbsLit(l) <= T.id
    <3>1. l \in Int /\ AbsLit(l) <= S.id
      BY <1>1 DEF Within
    <3> QED  BY <1>1, <3>1 DEF AbsLit
  <2> QED  BY <2>1 DEF Within
<1>4. ASSUME NEW B, Satisfies(B, S.hard) PROVE \E C : Satisfies(C, T.hard) /\ Same(B, C, S.id)
  <2>1. PICK C : Satisfies(C, cs) /\ Same(B, C, S.id)
    BY <1>1, ComparatorSatisfied
  <2>2. Satisfies(C, S.hard)
    BY <1>1, <1>4, <2>1, SameSatisfies
  <2> HIDE DEF cs
  <2>3. Satisfies(C, T.hard)
    BY <2>1, <2>2 DEF Satisfies, cs
  <2> QED  BY <2>1, <2>3
<1> HIDE DEF cs
<1>5. Within(T.hard, T.id)
  BY <1>2, <1>3 DEF Within, cs
<1>6. S.id <= T.id
  BY <1>1
<1> QED  BY <1>4, <1>5, <1>6 DEF Enlarges

\* the variables of a network, its inputs and its clauses are those of its solver
Bounded(net, objective, n) ==
  /\ Within(net.s.hard, net.s.id)
  /\ \A e \in 1 .. n : Feed(net.w, objective, e) \in 1 .. net.s.id

LEMMA InsertEnlarges ==
  ASSUME NEW n \in Nat, NEW objective \in Seq(Names), NEW net \in Nets(n, objective), Bounded(net, objective, n),
         NEW e1 \in 1 .. n, NEW e2 \in 1 .. n, e1 < e2
  PROVE  LET r == InsertComparator(net, e1, e2, objective)
         IN  Enlarges(net.s, r.s) /\ Bounded(r, objective, n)
<1> DEFINE r == InsertComparator(net, e1, e2, objective)
           S == net.s
           T == r.s
           a == Feed(net.w, objective, e1)
           b == Feed(net.w, objective, e2)
           min == S.id + 1
           max == S.id + 2
           cs == Comparator(a, b, min, max)
<1>1. r \in Nets(n, objective) /\ InsertedOne(net, e1, e2, objective, r)
      /\ \A e \in 1 .. n : e # e1 /\ e # e2 => r.w[e] = net.w[e]
  BY InsertOne
<1> HIDE DEF r
<1>2. S \in Solvers /\ net.w \in Seq(Names \cup {-1}) /\ Len(net.w) = n
  BY NetParts
<1>3. T \in Solvers /\ r.w \in Seq(Names \cup {-1}) /\ Len(r.w) = n
  BY <1>1, NetParts
<1>4. T.hard = S.hard \cup cs /\ T.id = Max({S.id + 2} \cup Vars(cs)) /\ r.w = [net.w EXCEPT ![e1] = min, ![e2] = max]
  BY <1>1 DEF InsertedOne
<1>5. Within(S.hard, S.id) /\ \A e \in 1 .. n : Feed(net.w, objective, e) \in 1 .. S.id
  BY DEF Bounded
<1>6. a \in 1 .. S.id /\ b \in 1 .. S.id
  BY <1>5
<1> HIDE DEF S, T, a, b
<1>7. S.id \in Nat
  BY <1>2, SolverParts
<1>8. a \in Names /\ b \in Names /\ min \in Names /\ max \in Names /\ a <= max /\ b <= max /\ min <= max
  BY <1>6, <1>7 DEF Names
<1>9. T.id = max
  <2>1. Vars(cs) = {a, b, min, max}
    BY <1>8, ComparatorFinite
  <2>2. {S.id + 2} \cup Vars(cs) = {a, b, min, max}
    BY <2>1
  <2>3. IsFiniteSet({a, b, min, max}) /\ {a, b, min, max} \subseteq Nat /\ {a, b, min, max} # {}
    BY <1>8, FiniteUpTo4 DEF Names
  <2> HIDE DEF min, max, cs
  <2>4. Max({a, b, min, max}) \in {a, b, min, max} /\ max <= Max({a, b, min, max})
    BY <2>3, MaxNat
  <2>5. Max({a, b, min, max}) = max
    BY <1>8, <2>4 DEF Names
  <2> QED  BY <1>4, <2>2, <2>5 DEF max
<1>10. Enlarges(S, T)
  BY <1>2, <1>3, <1>4, <1>5, <1>6, <1>9, ComparatorEnlarges
<1>11. ASSUME NEW e \in 1 .. n PROVE Feed(r.w, objective, e) \in 1 .. T.id
  <2>1. min # -1 /\ max # -1 /\ min \in 1 .. T.id /\ max \in 1 .. T.id
    BY <1>7, <1>9
  <2>2. Feed(net.w, objective, e) \in 1 .. T.id
    BY <1>5, <1>7, <1>9
  <2>3. r.w[e1] = (IF e1 = e2 THEN max ELSE min) /\ r.w[e2] = max
    BY <1>2, <1>4
  <2>4. CASE e = e1
    BY <2>1, <2>3, <2>4 DEF Feed
  <2>5. CASE e = e2
    BY <2>1, <2>3, <2>5 DEF Feed
  <2>6. CASE e # e1 /\ e # e2
    <3>1. r.w[e] = net.w[e]
      BY <1>1, <2>6
    <3> QED  BY <2>2, <3>1 DEF Feed
  <2> QED  BY <2>4, <2>5, <2>6
<1>12. Within(T.hard, T.id)
  BY <1>10 DEF Enlarges
<1> QED  BY <1>10, <1>11, <1>12 DEF Bounded, r, S, T

LEMMA InsertAllNet ==
  ASSUME NEW n \in Nat, NEW objective \in Seq(Names), NEW net \in Nets(n, objective),
         NEW ps \in Seq(Pairs), Increasing(ps), Touch(ps) \subseteq 1 .. n
  PROVE  LET r == InsertAll(net, ps, objective)
         IN  /\ r \in Nets(n, objective)
             /\ \A e \in 1 .. n : IF e \in Touch(ps) THEN r.w[e] \in Names ELSE r.w[e] = net.w[e]
<1> DEFINE r == InsertAll(net, ps, objective)
<1>1. /\ r \in Nets(n, objective) /\ net.s.hard \subseteq r.s.hard
      /\ \A e \in 1 .. n : IF e \in Touch(ps) THEN r.w[e] \in Names ELSE r.w[e] = net.w[e]
      /\ \A T \in SUBSET Nat : \E U \in SUBSET Nat :
           /\ RunsTo(T, ps, U)
           /\ \A L : Closed(L, r.s.hard) /\ ShowsAll(L, net.w, objective, T) => ShowsAll(L, r.w, objective, U)
  BY InsertAllRight
<1> HIDE DEF r
<1> QED  BY <1>1 DEF r

LEMMA InsertAllEnlarges ==
  ASSUME NEW n \in Nat, NEW objective \in Seq(Names), NEW net \in Nets(n, objective), Bounded(net, objective, n),
         NEW ps \in Seq(Pairs), Increasing(ps), Touch(ps) \subseteq 1 .. n
  PROVE  LET r == InsertAll(net, ps, objective)
         IN  Enlarges(net.s, r.s) /\ Bounded(r, objective, n)
<1> DEFINE m == Len(ps)
           r == InsertAll(net, ps, objective)
<1>0. m \in Nat /\ \A k \in 1 .. m : k-1 \in 0 .. m /\ k \in 0 .. m
  OBVIOUS
<1>1. \A k \in 1 .. m : ps[k][1] \in 1 .. n /\ ps[k][2] \in 1 .. n /\ ps[k][1] < ps[k][2]
  <2>1. \A k \in 1 .. m : ps[k][1] \in Touch(ps) /\ ps[k][2] \in Touch(ps)
    BY TouchIn
  <2> QED  BY <2>1 DEF Increasing
<1>2. PICK f : Inserted(f, net, ps, objective, n) /\ r = f[m]
  BY InsertAllSteps
<1> HIDE DEF r
<1>3. f[0] = net /\ (\A k \in 0 .. m : f[k] \in Nets(n, objective)) /\ \A k \in 1 .. m : f[k] = InsertComparator(f[k-1], ps[k][1], ps[k][2], objective)
  BY <1>2 DEF Inserted
<1>4. \A k \in 0 .. m : f[k].s \in Solvers
  BY <1>3, NetParts
<1> DEFINE I == {k \in 0 .. m : Enlarges(net.s, f[k].s) /\ Bounded(f[k], objective, n)}
<1>5. 0 \in I
  <2>1. net.s \in Solvers /\ Within(net.s.hard, net.s.id)
    BY NetParts DEF Bounded
  <2> QED  BY <1>0, <1>3, <2>1, EnlargesItself
<1>6. ASSUME NEW k \in 1 .. m, k-1 \in I PROVE k \in I
  <2> DEFINE x == f[k-1]
             y == f[k]
  <2>1. x \in Nets(n, objective) /\ Enlarges(net.s, x.s) /\ Bounded(x, objective, n) /\ y = InsertComparator(x, ps[k][1], ps[k][2], objective)
    BY <1>0, <1>3, <1>6
  <2>2. net.s \in Solvers /\ x.s \in Solvers /\ y.s \in Solvers
    BY <1>0, <1>4, NetParts
  <2> HIDE DEF x, y
  <2>3. Enlarges(x.s, y.s) /\ Bounded(y, objective, n)
    BY <1>1, <2>1, InsertEnlarges
  <2>4. Enlarges(net.s, y.s)
    BY <2>1, <2>2, <2>3, EnlargesMore
  <2> QED  BY <1>0, <2>3, <2>4 DEF y
<1>7. \A k \in 0 .. m : k \in I
  <2> HIDE DEF I
  <2> QED  BY <1>0, <1>5, <1>6, Upward
<1>8. m \in I
  <2> HIDE DEF I
  <2> QED  BY <1>0, <1>7
<1> QED  BY <1>2, <1>8 DEF r

\* an operation adds clauses that restrict nothing, and its outputs are
\* variables of the solver
Adds(S, q) == Enlarges(S, q.s) /\ q.w \in Seq(1 .. q.s.id)

LEMMA UpToNames ==
  ASSUME NEW m \in Nat, NEW w \in Seq(1 .. m)
  PROVE  w \in Seq(Names) /\ \A n \in Nat : m <= n => w \in Seq(1 .. n)
<1>1. \A i \in 1 .. Len(w) : w[i] \in 1 .. m
  OBVIOUS
<1>2. \A i \in 1 .. m : i \in Names /\ \A n \in Nat : m <= n => i \in 1 .. n
  BY DEF Names
<1>3. w = [i \in 1 .. Len(w) |-> w[i]] /\ Len(w) \in Nat
  OBVIOUS
<1>4. w \in Seq(Names)
  BY <1>1, <1>2, <1>3
<1>5. ASSUME NEW n \in Nat, m <= n PROVE w \in Seq(1 .. n)
  BY <1>1, <1>2, <1>3, <1>5
<1> QED  BY <1>4, <1>5

LEMMA UpToElements ==
  ASSUME NEW m, NEW w \in Seq(1 .. m)
  PROVE  Len(w) \in Nat /\ DOMAIN w = 1 .. Len(w) /\ \A i \in 1 .. Len(w) : w[i] \in 1 .. m
<1> DEFINE D == 1 .. m
<1>1. w \in Seq(D)
  OBVIOUS
<1> HIDE DEF D
<1>2. Len(w) \in Nat /\ DOMAIN w = 1 .. Len(w) /\ \A i \in 1 .. Len(w) : w[i] \in D
  BY <1>1
<1> QED  BY <1>2 DEF D

LEMMA SortedAdds ==
  ASSUME NEW S \in Solvers, Within(S.hard, S.id), NEW inputs \in Seq(1 .. S.id), Len(inputs) >= 1
  PROVE  Adds(S, Sorted(S, inputs))
<1> DEFINE r == Sorted(S, inputs)
           n == Len(inputs)
<1>1. n \in Nat /\ DOMAIN inputs = 1 .. n /\ \A i \in 1 .. n : inputs[i] \in 1 .. S.id
  BY UpToElements
<1>0. inputs \in Seq(Names) /\ S.id \in Nat
  <2>1. S.id \in Nat
    BY SolverParts
  <2> QED  BY <2>1, UpToNames
<1>2. CASE n = 1
  <2>1. r = [s |-> S, w |-> inputs]
    BY <1>2 DEF Sorted
  <2> HIDE DEF r
  <2>2. r.s = S /\ r.w = inputs
    BY <2>1
  <2> QED  BY <2>2, EnlargesItself DEF Adds, r
<1>3. CASE n # 1
  <2> DEFINE net == [s |-> S, w |-> [i \in DOMAIN inputs |-> -1]]
             ps == Network[<<1, n>>]
             q == InsertAll(net, ps, inputs)
  <2>1. r = q
    BY <1>3 DEF Sorted
  <2>2. net.s = S /\ net.w = [i \in 1 .. n |-> -1]
    BY <1>1
  <2>3. net.w \in Seq(Names \cup {-1}) /\ Len(net.w) = n /\ \A i \in 1 .. n : net.w[i] = -1
    BY <1>1, <2>2
  <2>4. net \in Nets(n, inputs)
    <3>1. net = [s |-> net.s, w |-> net.w]
      BY <2>2
    <3> HIDE DEF net
    <3> QED  BY <2>2, <2>3, <3>1 DEF Nets
  <2> HIDE DEF net, q
  <2>5. NetworkCovers(1, n) /\ ps \in Seq(Pairs)
    BY <1>1, NetworkRight, NetworkIs
  <2>6. Increasing(ps) /\ Touch(ps) \subseteq 1 .. n /\ 1 .. n \subseteq Touch(ps)
    <3>1. Block(1, n) = 1 .. n /\ n >= 2
      BY <1>1, <1>3 DEF Block
    <3> QED  BY <2>5, <3>1 DEF NetworkCovers
  <2> HIDE DEF ps
  <2>7. q \in Nets(n, inputs) /\ \A e \in 1 .. n : IF e \in Touch(ps) THEN q.w[e] \in Names ELSE q.w[e] = net.w[e]
    BY <1>0, <1>1, <2>4, <2>5, <2>6, InsertAllRight DEF q
  <2>8. Bounded(net, inputs, n)
    BY <1>1, <2>2, <2>3 DEF Bounded, Feed
  <2>9. Enlarges(S, q.s) /\ Bounded(q, inputs, n)
    BY <1>0, <1>1, <2>2, <2>4, <2>5, <2>6, <2>8, InsertAllEnlarges DEF q
  <2>10. q.w \in Seq(Names \cup {-1}) /\ Len(q.w) = n
    BY <1>0, <1>1, <2>7, NetParts
  <2>11. \A e \in 1 .. n : q.w[e] \in 1 .. q.s.id
    <3>1. \A e \in 1 .. n : q.w[e] \in Names
      BY <2>6, <2>7
    <3>2. \A e \in 1 .. n : Feed(q.w, inputs, e) = q.w[e]
      BY <3>1 DEF Feed, Names
    <3> QED  BY <2>9, <3>2 DEF Bounded
  <2>12. q.w \in Seq(1 .. q.s.id)
    <3> DEFINE w == q.w
               D == 1 .. q.s.id
    <3>1. w \in Seq(Names \cup {-1}) /\ Len(w) = n /\ \A e \in 1 .. n : w[e] \in D
      BY <2>10, <2>11
    <3> HIDE DEF w, D
    <3>2. w \in Seq(D)
      BY <3>1
    <3> QED  BY <3>2 DEF w, D
  <2> HIDE DEF r
  <2> QED  BY <2>1, <2>9, <2>12 DEF Adds, r
<1> QED  BY <1>2, <1>3

LEMMA ConcatUpTo ==
  ASSUME NEW D, NEW s \in Seq(D), NEW t \in Seq(D)
  PROVE  /\ s \o t \in Seq(D) /\ Len(s \o t) = Len(s) + Len(t) /\ Len(s) \in Nat /\ Len(t) \in Nat
         /\ \A k \in 1 .. Len(s) : (s \o t)[k] = s[k]
         /\ \A k \in 1 .. Len(t) : (s \o t)[Len(s) + k] = t[k]
BY ConcatParts

LEMMA FirstPart ==
  ASSUME NEW D, NEW p \in Seq(D), NEW us \in Seq(D)
  PROVE  SubSeq(p \o us, 1, Len(p \o us) - Len(us)) = p
<1> DEFINE u == p \o us
           a == Len(p)
<1>1. u \in Seq(D) /\ Len(u) = a + Len(us) /\ Len(us) \in Nat /\ a \in Nat /\ \A i \in 1 .. a : u[i] = p[i]
  BY ConcatUpTo
<1>2. Len(u) - Len(us) = a /\ a <= Len(u)
  BY <1>1
<1> HIDE DEF u
<1>3. SubSeq(u, 1, a) \in Seq(D) /\ Len(SubSeq(u, 1, a)) = a /\ \A i \in 1 .. a : SubSeq(u, 1, a)[i] = u[i]
  BY <1>1, <1>2
<1>4. SubSeq(u, 1, a) = p
  BY <1>1, <1>3
<1> QED  BY <1>2, <1>4 DEF u

LEMMA MergedAdds ==
  ASSUME NEW S \in Solvers, Within(S.hard, S.id), NEW inputs \in Seq(1 .. S.id), Len(inputs) >= 1,
         NEW p \in Seq(1 .. S.id), NEW us \in Seq(1 .. S.id)
  PROVE  Adds(S, MergeCoreGuided(S, inputs, p \o us, us))
<1> DEFINE new == Sorted(S, inputs)
           a == Len(p)
           b == Len(inputs)
           n == a + b
           r == MergeCoreGuided(S, inputs, p \o us, us)
           net == [s |-> new.s, w |-> p \o new.w]
           ps == Merge[<<Lines2(1, a), Lines2(a + 1, b)>>]
           q == InsertAll(net, ps, <<>>)
<1>0. S.id \in Nat
  BY SolverParts
<1>1. inputs \in Seq(Names) /\ p \in Seq(Names) /\ a \in Nat /\ b \in Nat /\ b >= 1 /\ n \in Nat /\ inputs # <<>>
  <2>1. inputs \in Seq(Names) /\ p \in Seq(Names)
    BY <1>0, UpToNames
  <2> QED  BY <2>1
<1>2. new = [s |-> new.s, w |-> new.w] /\ new.s \in Solvers /\ new.w \in Seq(Names) /\ Len(new.w) = b
  BY <1>1, SortedRight DEF Grown, Sorts
<1>3. Enlarges(S, new.s) /\ new.w \in Seq(1 .. new.s.id)
  BY SortedAdds DEF Adds
<1>4. r = [q EXCEPT !.w = @ \o us]
  <2>1. [new EXCEPT !.w = p \o @] = net
    <3>1. [new EXCEPT !.w = p \o new.w] = [s |-> new.s, w |-> p \o new.w]
      <4> HIDE DEF new
      <4> QED  BY <1>2, NewOutputs
    <3> QED  BY <3>1
  <2>2. Lines2(1, a) = WireSeq(1, a, 1) /\ Lines2(a + 1, b) = WireSeq(a + 1, b, 1)
    BY DEF Lines2
  <2>3. SubSeq(p \o us, 1, Len(p \o us) - Len(us)) = p
    BY FirstPart
  <2> HIDE DEF new
  <2> QED  BY <1>1, <2>1, <2>2, <2>3 DEF MergeCoreGuided, new
<1> HIDE DEF r, new
<1>5. S.id <= new.s.id /\ new.s.id \in Nat /\ Within(new.s.hard, new.s.id)
  BY <1>2, <1>3, SolverParts DEF Enlarges
<1>6. p \in Seq(1 .. new.s.id)
  BY <1>0, <1>5, UpToNames
<1>7. p \o new.w \in Seq(Names) /\ p \o new.w \in Seq(1 .. new.s.id) /\ Len(p \o new.w) = n
  <2> DEFINE v == new.w
             m == new.s.id
  <2>1. v \in Seq(Names) /\ Len(v) = b /\ v \in Seq(1 .. m) /\ p \in Seq(1 .. m) /\ p \in Seq(Names)
    BY <1>1, <1>2, <1>3, <1>6
  <2> HIDE DEF v, m
  <2>2. p \o v \in Seq(Names) /\ p \o v \in Seq(1 .. m) /\ Len(p \o v) = Len(p) + Len(v)
    <3> HIDE DEF n, ps, q, a, b
    <3> QED  BY <2>1, ConcatUpTo
  <2> QED  BY <2>1, <2>2 DEF v, m
<1>8. net.s = new.s /\ net.w = p \o new.w /\ net = [s |-> net.s, w |-> net.w]
  OBVIOUS
<1> HIDE DEF net
<1>9. \A i \in 1 .. n : net.w[i] \in Names /\ net.w[i] # -1 /\ net.w[i] \in 1 .. net.s.id
  <2>1. net.w \in Seq(Names) /\ net.w \in Seq(1 .. net.s.id) /\ Len(net.w) = n
    BY <1>7, <1>8
  <2> HIDE DEF n
  <2>2. \A i \in 1 .. n : net.w[i] \in Names /\ net.w[i] \in 1 .. net.s.id
    <3>1. \A i \in 1 .. n : net.w[i] \in Names
      BY <2>1
    <3> QED  BY <2>1, <3>1, UpToElements
  <2> QED  BY <2>2 DEF Names
<1>10. net \in Nets(n, <<>>) /\ Bounded(net, <<>>, n)
  <2>1. net.w \in Seq(Names \cup {-1}) /\ Len(net.w) = n
    BY <1>7, <1>8
  <2>2. net \in Nets(n, <<>>)
    BY <1>2, <1>8, <1>9, <2>1 DEF Nets
  <2>3. Bounded(net, <<>>, n)
    BY <1>5, <1>8, <1>9 DEF Bounded, Feed
  <2> QED  BY <2>2, <2>3
<1>11. ps \in Seq(Pairs) /\ Increasing(ps) /\ Touch(ps) \subseteq 1 .. n
  <2> DEFINE q1 == Lines2(1, a)
             q2 == Lines2(1 + a, b)
  <2>1. Ordered(q1, q2) /\ Reach(q1, q2) = Block(1, n)
    <3>1. 1 \in Nat
      OBVIOUS
    <3>2. a \in Nat /\ b \in Nat /\ a + b = n
      BY <1>1
    <3>3. HalvesHold(1, a, b)
      <4> HIDE DEF a, b
      <4> QED  BY <3>1, <3>2, HalvesOrdered
    <3> QED  BY <3>2, <3>3 DEF HalvesHold
  <2>2. Block(1, n) = 1 .. n /\ 1 + a = a + 1
    <3>1. 1 + n - 1 = n /\ 1 + a = a + 1
      BY <1>1
    <3> HIDE DEF n
    <3> QED  BY <3>1 DEF Block
  <2>3. q1 \in WireSeqs /\ q2 \in WireSeqs
    BY <2>1 DEF Ordered
  <2>4. ps = Merge[<<q1, q2>>]
    BY <2>2
  <2> HIDE DEF q1, q2, ps
  <2>5. Covers(q1, q2)
    BY <2>1, MergeCovers
  <2> QED  BY <2>1, <2>2, <2>3, <2>4, <2>5, MergeIs DEF Covers
<1>12. /\ q \in Nets(n, <<>>)
       /\ \A e \in 1 .. n : IF e \in Touch(ps) THEN q.w[e] \in Names ELSE q.w[e] = net.w[e]
       /\ Enlarges(net.s, q.s) /\ Bounded(q, <<>>, n)
  <2>1. <<>> \in Seq(Names)
    OBVIOUS
  <2>2. n \in Nat
    BY <1>1
  <2> HIDE DEF ps, n, q
  <2>3. q \in Nets(n, <<>>) /\ \A e \in 1 .. n : IF e \in Touch(ps) THEN q.w[e] \in Names ELSE q.w[e] = net.w[e]
    <3> DEFINE mt == <<>>
    <3>1. mt \in Seq(Names) /\ net \in Nets(n, mt)
      BY <1>10, <2>1
    <3> HIDE DEF mt
    <3>2. LET z == InsertAll(net, ps, mt)
          IN  /\ z \in Nets(n, mt)
              /\ \A e \in 1 .. n : IF e \in Touch(ps) THEN z.w[e] \in Names ELSE z.w[e] = net.w[e]
      BY <1>11, <2>2, <3>1, InsertAllNet
    <3> QED  BY <3>2 DEF mt, q
  <2>4. Enlarges(net.s, q.s) /\ Bounded(q, <<>>, n)
    BY <1>10, <1>11, <2>1, <2>2, InsertAllEnlarges DEF q
  <2> QED  BY <2>3, <2>4
<1> HIDE DEF q
<1>13. q = [s |-> q.s, w |-> q.w] /\ q.s \in Solvers /\ Len(q.w) = n /\ q.w \in Seq(1 .. q.s.id)
  <2>1. <<>> \in Seq(Names)
    OBVIOUS
  <2>2. q = [s |-> q.s, w |-> q.w] /\ q.s \in Solvers /\ q.w \in Seq(Names \cup {-1}) /\ Len(q.w) = n
    BY <1>1, <1>12, <2>1, NetParts
  <2> HIDE DEF n, ps
  <2>3. \A e \in 1 .. n : q.w[e] # -1
    BY <1>9, <1>12 DEF Names
  <2>4. \A e \in 1 .. n : q.w[e] \in 1 .. q.s.id
    BY <1>12, <2>3 DEF Bounded, Feed
  <2>5. q.w \in Seq(1 .. q.s.id)
    <3> DEFINE w == q.w
               D == 1 .. q.s.id
    <3>1. w \in Seq(Names \cup {-1}) /\ Len(w) = n /\ \A e \in 1 .. n : w[e] \in D
      BY <2>2, <2>4
    <3> HIDE DEF w, D
    <3>2. w \in Seq(D)
      BY <3>1
    <3> QED  BY <3>2 DEF w, D
  <2> QED  BY <2>2, <2>5
<1>14. r.s = q.s /\ r.w = q.w \o us
  <2>1. r = [s |-> q.s, w |-> q.w \o us]
    BY <1>4, <1>13
  <2> QED  BY <2>1
<1>15. Enlarges(S, q.s)
  BY <1>2, <1>3, <1>8, <1>12, <1>13, EnlargesMore
<1>16. us \in Seq(1 .. q.s.id)
  <2>1. S.id <= q.s.id /\ q.s.id \in Nat
    BY <1>13, <1>15, SolverParts DEF Enlarges
  <2> QED  BY <1>0, <2>1, UpToNames
<1>17. q.w \o us \in Seq(1 .. q.s.id)
  <2> DEFINE w == q.w
             D == 1 .. q.s.id
  <2>1. w \in Seq(D) /\ us \in Seq(D)
    BY <1>13, <1>16
  <2> HIDE DEF w, D
  <2>2. w \o us \in Seq(D)
    BY <2>1, ConcatUpTo
  <2> QED  BY <2>2 DEF w, D
<1> QED  BY <1>14, <1>15, <1>17 DEF Adds, r

LEMMA EncodeSortedAdds ==
  ASSUME NEW T \in Solvers, Within(T.hard, T.id), NEW inputs \in Seq(1 .. T.id), NEW old \in Seq(1 .. T.id)
  PROVE  Adds(T, EncodeSorted(T, inputs, old))
<1> DEFINE q == EncodeSorted(T, inputs, old)
<1>1. CASE inputs = <<>>
  <2>1. q = [s |-> T, w |-> old]
    BY <1>1 DEF EncodeSorted
  <2> HIDE DEF q
  <2>2. q.s = T /\ q.w = old
    BY <2>1
  <2> QED  BY <2>2, EnlargesItself DEF Adds, q
<1>2. CASE inputs # <<>>
  <2>1. q = Sorted(T, inputs) /\ Len(inputs) >= 1
    BY <1>2 DEF EncodeSorted
  <2> HIDE DEF q
  <2> QED  BY <2>1, SortedAdds DEF q
<1> QED  BY <1>1, <1>2

LEMMA AddsBack ==
  ASSUME NEW T \in Solvers, NEW q, q = [s |-> q.s, w |-> q.w], q.s \in Solvers, Adds(T, q), NEW u \in Seq(1 .. T.id)
  PROVE  Adds(T, [q EXCEPT !.w = @ \o u])
<1> DEFINE z == [q EXCEPT !.w = @ \o u]
           D == 1 .. q.s.id
<1>1. z = [s |-> q.s, w |-> q.w \o u]
  BY NewOutputs
<1> HIDE DEF z
<1>2. z.s = q.s /\ z.w = q.w \o u
  BY <1>1
<1>3. T.id \in Nat /\ q.s.id \in Nat /\ T.id <= q.s.id
  BY SolverParts DEF Adds, Enlarges
<1>4. u \in Seq(D) /\ q.w \in Seq(D)
  BY <1>3, UpToNames DEF Adds
<1> HIDE DEF D
<1>5. q.w \o u \in Seq(D)
  BY <1>4, ConcatUpTo
<1> QED  BY <1>2, <1>5 DEF Adds, D, z

\* what is taken from the variables up to m is one of them
LEMMA TakenUpTo ==
  ASSUME NEW m \in Nat, NEW v \in Seq(1 .. m), NEW P
  PROVE  Taken(v, P) \in Seq(1 .. m)
<1> DEFINE D == 1 .. m
<1>1. v \in Seq(D)
  OBVIOUS
<1> HIDE DEF D
<1>2. Taken(v, P) \in Seq(D)
  BY <1>1, TakenRight
<1> QED  BY <1>2 DEF D

LEMMA NoneUpTo == ASSUME NEW m PROVE <<>> \in Seq(1 .. m)
OBVIOUS

LEMMA FirstAdds ==
  ASSUME NEW T \in Solvers, Within(T.hard, T.id), NEW obj \in Seq(1 .. T.id), NEW new, NEW single
  PROVE  LET q == EncodeSorted(T, Taken(obj, new), <<>>)
         IN  Adds(T, [q EXCEPT !.w = @ \o Taken(obj, single)])
<1> DEFINE xs == Taken(obj, new)
           u == Taken(obj, single)
           q == EncodeSorted(T, xs, <<>>)
<1>1. T.id \in Nat
  BY SolverParts
<1>2. xs \in Seq(1 .. T.id) /\ u \in Seq(1 .. T.id) /\ <<>> \in Seq(1 .. T.id)
  BY <1>1, TakenUpTo, NoneUpTo
<1>3. xs \in Seq(Names)
  BY <1>1, <1>2, UpToNames
<1> HIDE DEF xs, u
<1>4. q = [s |-> q.s, w |-> q.w] /\ q.s \in Solvers
  BY <1>3, EncodeNewRight DEF Made, Grown
<1>5. Adds(T, q)
  BY <1>2, EncodeSortedAdds
<1> HIDE DEF q
<1>6. Adds(T, [q EXCEPT !.w = @ \o u])
  BY <1>2, <1>4, <1>5, AddsBack
<1> QED  BY <1>6 DEF q, u, xs

LEMMA FrontUpTo ==
  ASSUME NEW m \in Nat, NEW p \in Seq(Names), NEW u \in Seq(Names), p \o u \in Seq(1 .. m)
  PROVE  p \in Seq(1 .. m)
<1> DEFINE w == p \o u
           D == 1 .. m
           n == Len(p)
<1>1. n \in Nat /\ Len(w) = n + Len(u) /\ Len(u) \in Nat /\ \A i \in 1 .. n : w[i] = p[i]
  BY ConcatUpTo
<1>2. \A i \in 1 .. Len(w) : w[i] \in 1 .. m
  BY UpToElements
<1> HIDE DEF w
<1>3. \A i \in 1 .. n : p[i] \in D
  BY <1>1, <1>2
<1> HIDE DEF D
<1>4. p \in Seq(D)
  BY <1>3
<1> QED  BY <1>4 DEF D

\* what is merged into a network: the inputs and the outputs are variables of
\* the solver
LEMMA MergedPartAdds ==
  ASSUME NEW T \in Solvers, Within(T.hard, T.id), NEW s \in Seq(1 .. T.id), NEW r \in Seq(1 .. T.id), NEW u \in Seq(1 .. T.id),
         NEW p \in Seq(Names), s = p \o u, NEW new
  PROVE  Adds(T, MergeCoreGuided(T, Taken(r, new), s, u))
<1> DEFINE t == Taken(r, new)
           q == MergeCoreGuided(T, t, s, u)
<1>1. T.id \in Nat
  BY SolverParts
<1>2. t \in Seq(1 .. T.id)
  BY <1>1, TakenUpTo
<1> HIDE DEF t
<1>3. CASE t = <<>>
  <2>1. q = [s |-> T, w |-> s]
    BY <1>3 DEF MergeCoreGuided
  <2> HIDE DEF q
  <2>2. q.s = T /\ q.w = s
    BY <2>1
  <2> QED  BY <2>2, EnlargesItself DEF Adds, q, t
<1>4. CASE t # <<>>
  <2>1. Len(t) >= 1
    <3>1. t \in Seq(Names)
      BY <1>1, <1>2, UpToNames
    <3> QED  BY <1>4, <3>1
  <2>2. p \in Seq(1 .. T.id)
    <3>1. u \in Seq(Names)
      BY <1>1, UpToNames
    <3> QED  BY <1>1, <3>1, FrontUpTo
  <2>3. Adds(T, MergeCoreGuided(T, t, p \o u, u))
    BY <1>2, <2>1, <2>2, MergedAdds
  <2> QED  BY <2>3 DEF t
<1> QED  BY <1>3, <1>4

\* set_inputs_sorted leaves no position 0, so that it only gives variables of
\* the objective
LEMMA InputsUpTo ==
  ASSUME NEW m \in Nat, NEW k, objectives[k] \in Seq(1 .. m), unit[k] \in Seq(Names), NEW l \in Seq(Names),
         InputsSorted(k, l) \in Seq(Names)
  PROVE  InputsSorted(k, l) \in Seq(1 .. m)
<1> DEFINE obj == objectives[k]
           found == Range(l) \cup Range(unit[k])
           kept == Taken(obj, {i \in DOMAIN obj : obj[i] \notin found})
           size == Len(obj) - Len(l) - Len(unit[k])
           N == size - Len(kept)
           z == [i \in 1 .. N |-> 0]
           w == InputsSorted(k, l)
<1>1. w = kept \o z
  BY DEF InputsSorted
<1>2. kept \in Seq(1 .. m)
  BY TakenUpTo
<1>3. kept \in Seq(Names) /\ obj \in Seq(Names)
  BY <1>2, UpToNames
<1> HIDE DEF kept, w
<1>4. N \in Int /\ Len(kept) \in Nat
  BY <1>3
<1> HIDE DEF N
<1>5. CASE N > 0
  <2> DEFINE y == z
             W == Names \cup {0}
  <2>1. y \in Seq(W) /\ Len(y) = N /\ y[1] = 0
    BY <1>4, <1>5
  <2>2. kept \in Seq(W)
    BY <1>3
  <2> HIDE DEF y
  <2>3. (kept \o y)[Len(kept) + 1] = 0 /\ Len(kept \o y) = Len(kept) + N
    <3>1. 1 \in 1 .. Len(y)
      BY <1>4, <1>5, <2>1
    <3> HIDE DEF W
    <3>2. y \in Seq(W)
      BY <2>1
    <3>3. Len(kept \o y) = Len(kept) + Len(y) /\ \A i \in 1 .. Len(y) : (kept \o y)[Len(kept) + i] = y[i]
      BY <2>2, <3>2, ConcatUpTo
    <3> QED  BY <2>1, <3>1, <3>3
  <2>4. Len(kept) + 1 \in 1 .. Len(w) /\ w[Len(kept) + 1] = 0
    BY <1>1, <1>4, <1>5, <2>3 DEF y
  <2>5. \A i \in 1 .. Len(w) : w[i] \in Names
    <3>1. w \in Seq(Names)
      BY DEF w
    <3> QED  BY <3>1
  <2>6. 0 \in Names
    BY <2>4, <2>5
  <2> QED  BY <2>6 DEF Names
<1>6. CASE ~ (N > 0)
  <2>1. z = <<>>
    BY <1>4, <1>6
  <2>2. kept \o <<>> = kept
    BY <1>3
  <2> QED  BY <1>1, <1>2, <2>1, <2>2 DEF w
<1> QED  BY <1>5, <1>6

\* the old outputs of a network that is built again are kept only if it has none
LEMMA NothingOld ==
  ASSUME NEW k, objectives[k] \in Seq(Names), IsInjective(objectives[k]),
         NEW F, NEW s, NEW r, NetPart(objectives[k], F, s, r, unit[k]), unit[k] = <<>>,
         NEW new, new \subseteq DOMAIN r, InputsSorted(k, Left(r, new)) = <<>>
  PROVE  s = <<>>
<1> DEFINE obj == objectives[k]
           u == unit[k]
           t == Taken(r, new)
           l == Left(r, new)
<1>1. s \in Seq(Names) /\ r \in Seq(Names) /\ u \in Seq(Names)
  BY DEF NetPart
<1>2. PICK xs \in Seq(Names), p \in Seq(Names) : s = p \o u /\ Sorts(F, xs, p) /\ SameElements(obj, xs, r, u)
  BY DEF NetPart, SortedPart
<1>3. t \in Seq(Names) /\ l \in Seq(Names) /\ SameElements(obj, xs \o t, l, u)
  BY <1>1, <1>2, MovedElements
<1> HIDE DEF t, l
<1>4. xs \o t \in Seq(Names) /\ Len(xs \o t) = Len(xs) + Len(t)
  BY <1>2, <1>3, ConcatNames
<1>5. Len(InputsSorted(k, l)) = Len(xs \o t)
  BY <1>1, <1>3, <1>4, InputsKept
<1>6. Len(xs) = 0
  <2>1. InputsSorted(k, l) = <<>>
    BY DEF l
  <2>2. Len(xs) + Len(t) = 0
    BY <1>4, <1>5, <2>1
  <2>3. Len(xs) \in Nat /\ Len(t) \in Nat
    BY <1>2, <1>3
  <2> QED  BY <2>2, <2>3
<1>7. p = <<>>
  <2>1. p \in Seq(Names) /\ Len(p) = Len(xs)
    BY <1>2 DEF Sorts
  <2> QED  BY <1>6, <2>1
<1>8. <<>> \o <<>> = <<>>
  OBVIOUS
<1>9. s = p \o u /\ u = <<>>
  BY <1>2
<1> QED  BY <1>7, <1>8, <1>9

LEMMA RebuiltAdds ==
  ASSUME NEW T \in Solvers, Within(T.hard, T.id),
         NEW k, objectives[k] \in Seq(1 .. T.id), unit[k] \in Seq(1 .. T.id), IsInjective(objectives[k]),
         NEW F, NEW r, NetPart(objectives[k], F, sorted[k], r, unit[k]),
         input.mode # "core_rebuild" => sorted[k] \in Seq(1 .. T.id),
         input.mode = "core_rebuild" => unit[k] = <<>>,
         NEW new, new \subseteq DOMAIN r
  PROVE  Adds(T, Rebuild(T, k, Left(r, new), new # {}))
<1> DEFINE u == unit[k]
           s == sorted[k]
           l == Left(r, new)
           inputs == InputsSorted(k, l)
           q == Rebuild(T, k, l, new # {})
<1>1. T.id \in Nat
  BY SolverParts
<1>2. objectives[k] \in Seq(Names) /\ s \in Seq(Names) /\ u \in Seq(Names) /\ r \in Seq(Names)
  BY <1>1, UpToNames DEF NetPart
<1>3. inputs \in Seq(Names) /\ l \in Seq(Names)
  <2>1. PICK xs \in Seq(Names), p \in Seq(Names) : SameElements(objectives[k], xs, r, u)
    BY DEF NetPart, SortedPart
  <2> DEFINE t == Taken(r, new)
  <2>2. t \in Seq(Names) /\ l \in Seq(Names) /\ SameElements(objectives[k], xs \o t, l, u)
    BY <1>2, <2>1, MovedElements
  <2> HIDE DEF t, l
  <2>3. xs \o t \in Seq(Names)
    BY <2>2, ConcatNames
  <2> QED  BY <1>2, <2>2, <2>3, InputsKept
<1>4. inputs \in Seq(1 .. T.id)
  <2> HIDE DEF l
  <2> QED  BY <1>1, <1>2, <1>3, InputsUpTo
<1>5. CASE input.mode = "core_rebuild" \/ new # {}
  <2> DEFINE e == EncodeSorted(T, inputs, s)
  <2>1. q = [e EXCEPT !.w = @ \o u]
    BY <1>5 DEF Rebuild
  <2>2. e = [s |-> e.s, w |-> e.w] /\ e.s \in Solvers
    <3>1. Made(T, e)
      <4> HIDE DEF inputs, s
      <4> QED  BY <1>2, <1>3, EncodeSortedRight
    <3> HIDE DEF e
    <3> QED  BY <3>1 DEF Made, Grown
  <2>3. Adds(T, e)
    <3>1. CASE s \in Seq(1 .. T.id)
      <4> HIDE DEF inputs, s
      <4> QED  BY <1>4, <3>1, EncodeSortedAdds
    <3>2. CASE s \notin Seq(1 .. T.id)
      <4>1. inputs # <<>>
        <5>1. SUFFICES ASSUME inputs = <<>> PROVE FALSE
          OBVIOUS
        <5>2. unit[k] = <<>>
          BY <3>2
        <5>3. s = <<>>
          BY <1>2, <5>1, <5>2, NothingOld
        <5> QED  BY <3>2, <5>3, NoneUpTo
      <4>2. e = Sorted(T, inputs)
        <5> HIDE DEF inputs
        <5> QED  BY <4>1 DEF EncodeSorted
      <4>3. Len(inputs) >= 1
        <5> HIDE DEF inputs
        <5> QED  BY <1>3, <4>1
      <4>4. Adds(T, Sorted(T, inputs))
        <5> HIDE DEF inputs
        <5> QED  BY <1>4, <4>3, SortedAdds
      <4> QED  BY <4>2, <4>4
    <3> QED  BY <3>1, <3>2
  <2> HIDE DEF e, u
  <2>4. u \in Seq(1 .. T.id)
    BY DEF u
  <2>5. Adds(T, [e EXCEPT !.w = @ \o u])
    BY <2>2, <2>3, <2>4, AddsBack
  <2> QED  BY <2>1, <2>5
<1>6. CASE ~ (input.mode = "core_rebuild" \/ new # {})
  <2>1. q = [s |-> T, w |-> s]
    BY <1>6 DEF Rebuild
  <2>3. s \in Seq(1 .. T.id)
    BY <1>6
  <2> HIDE DEF q, s
  <2>2. q.s = T /\ q.w = s
    BY <2>1
  <2> QED  BY <2>2, <2>3, EnlargesItself DEF Adds, q
<1> QED  BY <1>5, <1>6

-----------------------------------------------------------------------------
(* ForEach: an operation on every objective, one after the other.  op[k] is *)
(* the operation on the objective k, a function of the solver.              *)

Above(S) == {T \in Solvers : S.hard \subseteq T.hard}
Ops(n, S, op) == \A k \in 1 .. n : \A T \in Above(S) : Made(T, op[k][T])
Step(e, k, op) == [s |-> op[k][e[k-1].s].s, ws |-> Append(e[k-1].ws, op[k][e[k-1].s].w)]
States(S) == [s : Above(S), ws : Seq(Seq(Names))]

LEMMA AboveStep ==
  ASSUME NEW S \in Solvers, NEW T \in Above(S), NEW q, Made(T, q)
  PROVE  q.s \in Above(S) /\ q.w \in Seq(Names) /\ T.hard \subseteq q.s.hard
BY DEF Above, Made, Grown

LEMMA EachExists ==
  ASSUME NEW n \in Nat, NEW S \in Solvers, NEW op, Ops(n, S, op)
  PROVE  \E f : /\ f \in [0 .. n -> States(S)] /\ f[0] = [s |-> S, ws |-> <<>>]
                /\ \A k \in 1 .. n : f[k] = Step(f, k, op)
<1> DEFINE D == States(S)
           x == [s |-> S, ws |-> <<>>]
           H == [k \in 1 .. n |-> [d \in D |-> [s |-> op[k][d.s].s, ws |-> Append(d.ws, op[k][d.s].w)]]]
<1>1. x \in D
  <2>1. S \in Above(S) /\ <<>> \in Seq(Seq(Names))
    BY DEF Above
  <2> QED  BY <2>1 DEF States
<1>2. ASSUME NEW k \in 1 .. n, NEW d \in D PROVE [s |-> op[k][d.s].s, ws |-> Append(d.ws, op[k][d.s].w)] \in D
  <2>1. d.s \in Above(S) /\ d.ws \in Seq(Seq(Names))
    BY DEF States
  <2>2. Made(d.s, op[k][d.s])
    BY <2>1 DEF Ops
  <2>3. op[k][d.s].s \in Above(S) /\ op[k][d.s].w \in Seq(Names)
    BY <2>1, <2>2, AboveStep
  <2>4. Append(d.ws, op[k][d.s].w) \in Seq(Seq(Names))
    BY <2>1, <2>3
  <2> QED  BY <2>3, <2>4 DEF States
<1>3. \A k \in 1 .. n : \A d \in D : H[k][d] = [s |-> op[k][d.s].s, ws |-> Append(d.ws, op[k][d.s].w)]
  <2> HIDE DEF D
  <2> QED  OBVIOUS
<1>4. PICK f : Goes(f, n, D, x, H)
  <2>1. \A k \in 1 .. n : H[k] \in [D -> D]
    <3> HIDE DEF D
    <3> QED  BY <1>2
  <2> HIDE DEF H, D, x
  <2> QED  BY <1>1, <2>1, Iteration
<1> HIDE DEF H, x
<1>5. ASSUME NEW k \in 1 .. n PROVE f[k] = Step(f, k, op)
  <2>1. k-1 \in 0 .. n
    OBVIOUS
  <2>2. f[k-1] \in D /\ f[k] = H[k][f[k-1]]
    <3> HIDE DEF D
    <3> QED  BY <1>4, <2>1 DEF Goes
  <2> HIDE DEF D
  <2> QED  BY <1>3, <2>2 DEF Step
<1>6. f \in [0 .. n -> States(S)] /\ f[0] = x
  BY <1>4 DEF Goes
<1> QED  BY <1>5, <1>6 DEF x

\* the operations restrict nothing, as long as those before did not
Adding(n, S, op) ==
  /\ Within(S.hard, S.id)
  /\ \A k \in 1 .. n : \A T \in Above(S) : Enlarges(S, T) => Adds(T, op[k][T])
AllAdded(n, S, r) == Enlarges(S, r.s) /\ \A k \in 1 .. n : r.ws[k] \in Seq(1 .. r.s.id)

\* the results: every operation is done in a solver with at least the clauses
\* of S, and its clauses stay
EachDone(n, S, op, r) ==
  /\ Adding(n, S, op) => AllAdded(n, S, r)
  /\ r.s \in Above(S) /\ r.ws \in Seq(Seq(Names)) /\ Len(r.ws) = n
  /\ \A k \in 1 .. n : \E T \in Above(S) : op[k][T].s.hard \subseteq r.s.hard /\ r.ws[k] = op[k][T].w

LEMMA EachResult ==
  ASSUME NEW n \in Nat, NEW S \in Solvers, NEW op, Ops(n, S, op), NEW e,
         e[0] = [s |-> S, ws |-> <<>>],
         \A k \in 1 .. n : e[k-1].s \in Above(S) => e[k] = Step(e, k, op)
  PROVE  EachDone(n, S, op, e[n])
<1> DEFINE I == {k \in 0 .. n : EachDone(k, S, op, e[k])}
<1>1. 0 \in I
  <2>1. S \in Above(S) /\ <<>> \in Seq(Seq(Names)) /\ Len(<<>>) = 0
    BY DEF Above
  <2>2. e[0].s = S /\ e[0].ws = <<>>
    OBVIOUS
  <2>3. 1 .. 0 = {} /\ 0 \in 0 .. n
    OBVIOUS
  <2>5. Adding(0, S, op) => AllAdded(0, S, e[0])
    BY <2>2, <2>3, EnlargesItself DEF Adding, AllAdded
  <2>4. EachDone(0, S, op, e[0])
    BY <2>1, <2>2, <2>3, <2>5 DEF EachDone
  <2> QED  BY <2>3, <2>4
<1>2. ASSUME NEW k \in 1 .. n, k-1 \in I PROVE k \in I
  <2> DEFINE a == e[k-1]
             q == op[k][a.s]
             b == e[k]
  <2>1. EachDone(k-1, S, op, a) /\ a.s \in Above(S) /\ a.ws \in Seq(Seq(Names)) /\ Len(a.ws) = k-1
    BY <1>2 DEF EachDone
  <2>2. b = [s |-> q.s, ws |-> Append(a.ws, q.w)]
    BY <2>1 DEF Step
  <2>3. Made(a.s, q)
    BY <2>1 DEF Ops
  <2> HIDE DEF a, b, q
  <2>4. q.s \in Above(S) /\ q.w \in Seq(Names) /\ a.s.hard \subseteq q.s.hard
    BY <2>1, <2>3, AboveStep
  <2>5. b.s = q.s /\ b.ws = Append(a.ws, q.w)
    BY <2>2
  <2> DEFINE X == Seq(Names)
  <2> HIDE DEF X
  <2>6. b.ws \in Seq(X) /\ Len(b.ws) = k /\ b.ws[k] = q.w /\ \A j \in 1 .. k-1 : b.ws[j] = a.ws[j]
    BY <2>1, <2>4, <2>5 DEF X
  <2>7. ASSUME NEW j \in 1 .. k PROVE \E T \in Above(S) : op[j][T].s.hard \subseteq b.s.hard /\ b.ws[j] = op[j][T].w
    <3>1. CASE j = k
      BY <2>1, <2>5, <2>6, <3>1 DEF q
    <3>2. CASE j # k
      <4>1. j \in 1 .. k-1
        BY <3>2
      <4>2. PICK T \in Above(S) : op[j][T].s.hard \subseteq a.s.hard /\ a.ws[j] = op[j][T].w
        BY <2>1, <4>1 DEF EachDone
      <4>3. b.ws[j] = a.ws[j] /\ a.s.hard \subseteq b.s.hard
        BY <2>4, <2>5, <2>6, <4>1
      <4>4. op[j][T].s.hard \subseteq b.s.hard
        BY <4>2, <4>3
      <4>5. b.ws[j] = op[j][T].w
        BY <4>2, <4>3
      <4> QED  BY <4>4, <4>5
    <3> QED  BY <3>1, <3>2
  <2>8. b.s \in Above(S) /\ b.ws \in Seq(X)
    BY <2>4, <2>5, <2>6
  <2>10. Adding(k, S, op) => AllAdded(k, S, b)
    <3> SUFFICES ASSUME Adding(k, S, op) PROVE AllAdded(k, S, b)
      OBVIOUS
    <3>1. k \in 1 .. k /\ k-1 \in Nat /\ \A j \in 1 .. k-1 : j \in 1 .. k
      OBVIOUS
    <3>2. Adding(k-1, S, op)
      BY <3>1 DEF Adding
    <3>3. AllAdded(k-1, S, a)
      BY <2>1, <3>2 DEF EachDone
    <3>4. Adds(a.s, q)
      BY <2>1, <3>1, <3>3 DEF Adding, AllAdded, q
    <3>5. a.s \in Solvers /\ q.s \in Solvers /\ a.s.id \in Nat /\ q.s.id \in Nat
      BY <2>1, <2>4, SolverParts DEF Above
    <3>6. Enlarges(S, b.s)
      BY <2>5, <3>3, <3>4, <3>5, EnlargesMore DEF AllAdded, Adds
    <3>7. ASSUME NEW j \in 1 .. k PROVE b.ws[j] \in Seq(1 .. b.s.id)
      <4>1. CASE j = k
        BY <2>5, <2>6, <3>4, <4>1 DEF Adds
      <4>2. CASE j # k
        <5>1. j \in 1 .. k-1
          BY <4>2
        <5>2. a.ws[j] \in Seq(1 .. a.s.id) /\ b.ws[j] = a.ws[j]
          BY <2>6, <3>3, <5>1 DEF AllAdded
        <5>3. a.s.id <= q.s.id
          BY <3>4 DEF Adds, Enlarges
        <5> QED  BY <2>5, <3>5, <5>2, <5>3, UpToNames
      <4> QED  BY <4>1, <4>2
    <3> QED  BY <3>6, <3>7 DEF AllAdded
  <2>9. EachDone(k, S, op, b)
    BY <2>6, <2>7, <2>8, <2>10 DEF EachDone, X
  <2> QED  BY <2>9 DEF b
<1>3. \A k \in 0 .. n : k \in I
  <2> HIDE DEF I
  <2> QED  BY <1>1, <1>2, Upward
<1>4. n \in 0 .. n
  OBVIOUS
<1> QED  BY <1>3, <1>4

\* the operations of SortObjectives
StaticOp(S) == [k \in 1 .. Len(objectives) |-> [T \in Above(S) |-> EncodeSorted(T, objectives[k], <<>>)]]

LEMMA EachStatic ==
  ASSUME NEW S \in Solvers, objectives \in Seq(Seq(Names))
  PROVE  /\ EachDone(Len(objectives), S, StaticOp(S), ForEach(S, LAMBDA T, k : EncodeSorted(T, objectives[k], <<>>)))
         /\ \A k \in 1 .. Len(objectives) : \A T \in Above(S) : StaticOp(S)[k][T] = EncodeSorted(T, objectives[k], <<>>)
<1> DEFINE n == Len(objectives)
           op == StaticOp(S)
           Eq(f) == f = [k \in 0 .. n |->
                           IF k = 0 THEN [s |-> S, ws |-> <<>>]
                           ELSE LET r == EncodeSorted(f[k - 1].s, objectives[k], <<>>)
                                IN  [s |-> r.s, ws |-> Append(f[k - 1].ws, r.w)]]
           after == CHOOSE f : Eq(f)
<1>1. n \in Nat /\ \A k \in 1 .. n : objectives[k] \in Seq(Names)
  OBVIOUS
<1>2. \A k \in 1 .. n : \A T \in Above(S) : op[k][T] = EncodeSorted(T, objectives[k], <<>>)
  BY DEF StaticOp
<1>3. Ops(n, S, op)
  <2>1. ASSUME NEW k \in 1 .. n, NEW T \in Above(S) PROVE Made(T, op[k][T])
    <3>1. T \in Solvers
      BY DEF Above
    <3>2. Made(T, EncodeSorted(T, objectives[k], <<>>))
      BY <1>1, <3>1, PartStatic
    <3> HIDE DEF op
    <3> QED  BY <1>2, <3>2
  <2> HIDE DEF op, n
  <2> QED  BY <2>1 DEF Ops
<1> HIDE DEF op
<1>4. PICK g : /\ g \in [0 .. n -> States(S)] /\ g[0] = [s |-> S, ws |-> <<>>]
               /\ \A k \in 1 .. n : g[k] = Step(g, k, op)
  <2> HIDE DEF n
  <2> QED  BY <1>1, <1>3, EachExists
<1> HIDE DEF n
<1>5. Eq(g)
  <2>1. \A k \in 0 .. n : g[k] = IF k = 0 THEN [s |-> S, ws |-> <<>>]
                                 ELSE LET r == EncodeSorted(g[k - 1].s, objectives[k], <<>>)
                                      IN  [s |-> r.s, ws |-> Append(g[k - 1].ws, r.w)]
    <3>1. ASSUME NEW k \in 1 .. n
          PROVE  g[k] = LET r == EncodeSorted(g[k - 1].s, objectives[k], <<>>)
                        IN  [s |-> r.s, ws |-> Append(g[k - 1].ws, r.w)]
      <4>1. g[k-1].s \in Above(S)
        <5>1. k-1 \in 0 .. n
          BY <1>1
        <5> QED  BY <1>4, <5>1 DEF States
      <4>2. op[k][g[k-1].s] = EncodeSorted(g[k-1].s, objectives[k], <<>>)
        BY <1>2, <4>1
      <4> QED  BY <1>4, <4>2 DEF Step
    <3>2. \A k \in 0 .. n : k # 0 => k \in 1 .. n
      BY <1>1
    <3> QED  BY <1>4, <3>1, <3>2
  <2> QED  BY <1>4, <2>1
<1>6. Eq(after)
  BY <1>5
<1>7. ForEach(S, LAMBDA T, k : EncodeSorted(T, objectives[k], <<>>)) = after[n]
  BY DEF ForEach, n
<1> HIDE DEF after
<1>8. after[0] = [s |-> S, ws |-> <<>>]
  BY <1>1, <1>6
<1>9. ASSUME NEW k \in 1 .. n, after[k-1].s \in Above(S) PROVE after[k] = Step(after, k, op)
  <2>1. k \in 0 .. n /\ k # 0
    BY <1>1
  <2>2. op[k][after[k-1].s] = EncodeSorted(after[k-1].s, objectives[k], <<>>)
    BY <1>2, <1>9
  <2>3. after[k] = LET r == EncodeSorted(after[k - 1].s, objectives[k], <<>>)
                   IN  [s |-> r.s, ws |-> Append(after[k - 1].ws, r.w)]
    BY <1>6, <2>1
  <2> QED  BY <2>2, <2>3 DEF Step
<1> HIDE DEF Eq
<1>10. EachDone(n, S, op, after[n])
  BY <1>1, <1>3, <1>8, <1>9, EachResult
<1> QED  BY <1>2, <1>7, <1>10 DEF n, op

\* the operations of DisjointCores
FirstOf(T, k, new, single) ==
  LET r == EncodeSorted(T, Taken(objectives[k], new[k]), <<>>)
  IN  [r EXCEPT !.w = @ \o Taken(objectives[k], single[k])]
FirstOp(S, new, single) == [k \in 1 .. Len(objectives) |-> [T \in Above(S) |-> FirstOf(T, k, new, single)]]

\* what DisjointCores does to the solver, for every objective
FirstAll(S, new) ==
  ForEach(S, LAMBDA T, k : LET r == EncodeSorted(T, Taken(objectives[k], new[k]), <<>>)
                           IN  [r EXCEPT !.w = @ \o unit'[k]])

LEMMA EachFirst ==
  ASSUME NEW S \in Solvers, objectives \in Seq(Seq(Names)), NEW new, NEW single,
         \A k \in K : new[k] \cap single[k] = {} /\ new[k] \subseteq DOMAIN objectives[k] /\ single[k] \subseteq DOMAIN objectives[k],
         unit' = [k \in K |-> Taken(objectives[k], single[k])]
  PROVE  /\ EachDone(Len(objectives), S, FirstOp(S, new, single), FirstAll(S, new))
         /\ \A k \in 1 .. Len(objectives) : \A T \in Above(S) : FirstOp(S, new, single)[k][T] = FirstOf(T, k, new, single)
<1> DEFINE n == Len(objectives)
           op == FirstOp(S, new, single)
           Eq(f) == f = [k \in 0 .. n |->
                           IF k = 0 THEN [s |-> S, ws |-> <<>>]
                           ELSE LET r == LET r == EncodeSorted(f[k - 1].s, Taken(objectives[k], new[k]), <<>>)
                                         IN  [r EXCEPT !.w = @ \o unit'[k]]
                                IN  [s |-> r.s, ws |-> Append(f[k - 1].ws, r.w)]]
           after == CHOOSE f : Eq(f)
<1>1. n \in Nat /\ K = 1 .. n /\ \A k \in 1 .. n : objectives[k] \in Seq(Names) /\ unit'[k] = Taken(objectives[k], single[k])
  BY DEF K
<1>2. \A k \in 1 .. n : \A T \in Above(S) : op[k][T] = FirstOf(T, k, new, single)
  BY DEF FirstOp
<1>3. Ops(n, S, op)
  <2>1. ASSUME NEW k \in 1 .. n, NEW T \in Above(S) PROVE Made(T, op[k][T])
    <3>1. T \in Solvers
      BY DEF Above
    <3>2. Made(T, FirstOf(T, k, new, single))
      BY <1>1, <3>1, PartFirst DEF FirstOf
    <3> HIDE DEF op
    <3> QED  BY <1>2, <3>2
  <2> HIDE DEF op, n
  <2> QED  BY <2>1 DEF Ops
<1> HIDE DEF op
<1>4. PICK g : /\ g \in [0 .. n -> States(S)] /\ g[0] = [s |-> S, ws |-> <<>>]
               /\ \A k \in 1 .. n : g[k] = Step(g, k, op)
  <2> HIDE DEF n
  <2> QED  BY <1>1, <1>3, EachExists
<1> HIDE DEF n
<1>5. Eq(g)
  <2>1. \A k \in 0 .. n : g[k] = IF k = 0 THEN [s |-> S, ws |-> <<>>]
                                 ELSE LET r == LET r == EncodeSorted(g[k - 1].s, Taken(objectives[k], new[k]), <<>>)
                                               IN  [r EXCEPT !.w = @ \o unit'[k]]
                                      IN  [s |-> r.s, ws |-> Append(g[k - 1].ws, r.w)]
    <3>1. ASSUME NEW k \in 1 .. n
          PROVE  g[k] = LET r == LET r == EncodeSorted(g[k - 1].s, Taken(objectives[k], new[k]), <<>>)
                                 IN  [r EXCEPT !.w = @ \o unit'[k]]
                        IN  [s |-> r.s, ws |-> Append(g[k - 1].ws, r.w)]
      <4>1. g[k-1].s \in Above(S)
        <5>1. k-1 \in 0 .. n
          BY <1>1
        <5> QED  BY <1>4, <5>1 DEF States
      <4>2. op[k][g[k-1].s] = LET r == EncodeSorted(g[k - 1].s, Taken(objectives[k], new[k]), <<>>)
                              IN  [r EXCEPT !.w = @ \o unit'[k]]
        BY <1>1, <1>2, <4>1 DEF FirstOf
      <4> QED  BY <1>4, <4>2 DEF Step
    <3>2. \A k \in 0 .. n : k # 0 => k \in 1 .. n
      BY <1>1
    <3> QED  BY <1>4, <3>1, <3>2
  <2> QED  BY <1>4, <2>1
<1>6. Eq(after)
  BY <1>5
<1>7. FirstAll(S, new) = after[n]
  BY DEF FirstAll, ForEach, n
<1> HIDE DEF after
<1>8. after[0] = [s |-> S, ws |-> <<>>]
  BY <1>1, <1>6
<1>9. ASSUME NEW k \in 1 .. n, after[k-1].s \in Above(S) PROVE after[k] = Step(after, k, op)
  <2>1. k \in 0 .. n /\ k # 0
    BY <1>1
  <2>2. op[k][after[k-1].s] = LET r == EncodeSorted(after[k - 1].s, Taken(objectives[k], new[k]), <<>>)
                              IN  [r EXCEPT !.w = @ \o unit'[k]]
    BY <1>1, <1>2, <1>9 DEF FirstOf
  <2>3. after[k] = LET r == LET r == EncodeSorted(after[k - 1].s, Taken(objectives[k], new[k]), <<>>)
                            IN  [r EXCEPT !.w = @ \o unit'[k]]
                   IN  [s |-> r.s, ws |-> Append(after[k - 1].ws, r.w)]
    BY <1>6, <2>1
  <2> QED  BY <2>2, <2>3 DEF Step
<1> HIDE DEF Eq
<1>10. EachDone(n, S, op, after[n])
  BY <1>1, <1>3, <1>8, <1>9, EachResult
<1> QED  BY <1>2, <1>7, <1>10 DEF n, op

\* the operations of NewCores
GrownOf(T, k, new) ==
  IF input.mode = "core_merge" THEN MergeCoreGuided(T, Taken(rest[k], new[k]), sorted[k], unit[k])
  ELSE Rebuild(T, k, Left(rest[k], new[k]), new[k] # {})
GrownOp(S, new) == [k \in 1 .. Len(objectives) |-> [T \in Above(S) |-> GrownOf(T, k, new)]]

Rebuilding == input.mode \in {"core_rebuild", "core_rebuild_incr"}
PartOf(k) == NetPart(objectives[k], encoding, sorted[k], rest[k], unit[k])

LEMMA PartGrown ==
  ASSUME NEW k, objectives[k] \in Seq(Names), input.mode \in CoreModes, Rebuilding => IsInjective(objectives[k]),
         PartOf(k), NEW T \in Solvers, input.mode # "core_rebuild" => encoding \subseteq T.hard,
         input.mode = "core_rebuild" => unit[k] = <<>>,
         NEW new, new[k] \subseteq DOMAIN rest[k]
  PROVE  LET q == GrownOf(T, k, new)
         IN  Made(T, q) /\ NetPart(objectives[k], q.s.hard, q.w, Left(rest[k], new[k]), unit[k])
<1>1. CASE input.mode = "core_merge"
  <2>1. GrownOf(T, k, new) = MergeCoreGuided(T, Taken(rest[k], new[k]), sorted[k], unit[k])
    BY <1>1 DEF GrownOf
  <2>2. encoding \subseteq T.hard
    BY <1>1
  <2> QED  BY <2>1, <2>2, PartMerged DEF PartOf
<1>2. CASE input.mode # "core_merge"
  <2>1. GrownOf(T, k, new) = Rebuild(T, k, Left(rest[k], new[k]), new[k] # {})
    BY <1>2 DEF GrownOf
  <2>2. IsInjective(objectives[k])
    BY <1>2 DEF CoreModes, Rebuilding
  <2>3. NetPart(objectives[k], encoding, sorted[k], rest[k], unit[k])
    BY DEF PartOf
  <2>4. LET q == Rebuild(T, k, Left(rest[k], new[k]), new[k] # {})
        IN  Made(T, q) /\ NetPart(objectives[k], q.s.hard, q.w, Left(rest[k], new[k]), unit[k])
    BY <2>2, <2>3, PartRebuilt
  <2> QED  BY <2>1, <2>4
<1> QED  BY <1>1, <1>2

LEMMA EachGrown ==
  ASSUME NEW S \in Solvers, objectives \in Seq(Seq(Names)), input.mode \in CoreModes,
         input.mode # "core_rebuild" => encoding \subseteq S.hard,
         NEW new,
         \A k \in K : /\ PartOf(k) /\ (Rebuilding => IsInjective(objectives[k]))
                      /\ input.mode = "core_rebuild" => unit[k] = <<>>
                      /\ new[k] \subseteq DOMAIN rest[k],
         rest' = [k \in K |-> Left(rest[k], new[k])]
  PROVE  /\ EachDone(Len(objectives), S, GrownOp(S, new),
                     ForEach(S, LAMBDA T, k :
                       IF input.mode = "core_merge" THEN MergeCoreGuided(T, Taken(rest[k], new[k]), sorted[k], unit[k])
                       ELSE Rebuild(T, k, rest'[k], new[k] # {})))
         /\ \A k \in 1 .. Len(objectives) : \A T \in Above(S) : GrownOp(S, new)[k][T] = GrownOf(T, k, new)
<1> DEFINE n == Len(objectives)
           op == GrownOp(S, new)
           Op(T, k) == IF input.mode = "core_merge" THEN MergeCoreGuided(T, Taken(rest[k], new[k]), sorted[k], unit[k])
                       ELSE Rebuild(T, k, rest'[k], new[k] # {})
           Eq(f) == f = [k \in 0 .. n |->
                           IF k = 0 THEN [s |-> S, ws |-> <<>>]
                           ELSE LET r == Op(f[k - 1].s, k) IN [s |-> r.s, ws |-> Append(f[k - 1].ws, r.w)]]
           after == CHOOSE f : Eq(f)
<1>1. n \in Nat /\ K = 1 .. n /\ \A k \in 1 .. n : objectives[k] \in Seq(Names) /\ rest'[k] = Left(rest[k], new[k])
  BY DEF K
<1>2. \A k \in 1 .. n : \A T \in Above(S) : op[k][T] = GrownOf(T, k, new)
  BY DEF GrownOp
<1>3. Ops(n, S, op)
  <2>1. ASSUME NEW k \in 1 .. n, NEW T \in Above(S) PROVE Made(T, op[k][T])
    <3>1. T \in Solvers /\ (input.mode # "core_rebuild" => encoding \subseteq T.hard)
      BY DEF Above
    <3>2. /\ PartOf(k) /\ (Rebuilding => IsInjective(objectives[k]))
          /\ input.mode = "core_rebuild" => unit[k] = <<>>
          /\ new[k] \subseteq DOMAIN rest[k] /\ objectives[k] \in Seq(Names)
      BY <1>1
    <3>3. Made(T, GrownOf(T, k, new))
      BY <3>1, <3>2, PartGrown
    <3> HIDE DEF op
    <3> QED  BY <1>2, <3>3
  <2> HIDE DEF op, n
  <2> QED  BY <2>1 DEF Ops
<1> HIDE DEF op
<1>4. PICK g : /\ g \in [0 .. n -> States(S)] /\ g[0] = [s |-> S, ws |-> <<>>]
               /\ \A k \in 1 .. n : g[k] = Step(g, k, op)
  <2> HIDE DEF n
  <2> QED  BY <1>1, <1>3, EachExists
<1> HIDE DEF n
<1>5. \A k \in 1 .. n : \A T : Op(T, k) = GrownOf(T, k, new)
  BY <1>1 DEF GrownOf
<1>6. ForEach(S, LAMBDA T, k :
                       IF input.mode = "core_merge" THEN MergeCoreGuided(T, Taken(rest[k], new[k]), sorted[k], unit[k])
                       ELSE Rebuild(T, k, rest'[k], new[k] # {})) = after[n]
  BY DEF ForEach, n
<1> HIDE DEF Op
<1>7. Eq(g)
  <2>1. \A k \in 0 .. n : g[k] = IF k = 0 THEN [s |-> S, ws |-> <<>>]
                                 ELSE LET r == Op(g[k - 1].s, k) IN [s |-> r.s, ws |-> Append(g[k - 1].ws, r.w)]
    <3>1. ASSUME NEW k \in 1 .. n
          PROVE  g[k] = LET r == Op(g[k - 1].s, k) IN [s |-> r.s, ws |-> Append(g[k - 1].ws, r.w)]
      <4>1. g[k-1].s \in Above(S)
        <5>1. k-1 \in 0 .. n
          BY <1>1
        <5> QED  BY <1>4, <5>1 DEF States
      <4>2. op[k][g[k-1].s] = Op(g[k - 1].s, k)
        BY <1>2, <1>5, <4>1
      <4> QED  BY <1>4, <4>2 DEF Step
    <3>2. \A k \in 0 .. n : k # 0 => k \in 1 .. n
      BY <1>1
    <3> QED  BY <1>4, <3>1, <3>2
  <2> QED  BY <1>4, <2>1
<1>8. Eq(after)
  BY <1>7
<1> HIDE DEF after
<1>9. after[0] = [s |-> S, ws |-> <<>>]
  BY <1>1, <1>8
<1>10. ASSUME NEW k \in 1 .. n, after[k-1].s \in Above(S) PROVE after[k] = Step(after, k, op)
  <2>1. k \in 0 .. n /\ k # 0
    BY <1>1
  <2>2. op[k][after[k-1].s] = Op(after[k - 1].s, k)
    BY <1>2, <1>5, <1>10
  <2>3. after[k] = LET r == Op(after[k - 1].s, k) IN [s |-> r.s, ws |-> Append(after[k - 1].ws, r.w)]
    BY <1>8, <2>1
  <2> QED  BY <2>2, <2>3 DEF Step
<1> HIDE DEF Eq
<1>11. EachDone(n, S, op, after[n])
  BY <1>1, <1>3, <1>9, <1>10, EachResult
<1> QED  BY <1>2, <1>6, <1>11 DEF n, op

-----------------------------------------------------------------------------
(* The objectives: the parsed formula and its soft clauses give sequences   *)
(* of variables.                                                            *)

SoftClauses == [w : Nat, lits : LitSeqs]
OpbObjs == {o \in [coeffs : Seq(Nat), lits : LitSeqs, const : Int] : Len(o.lits) = Len(o.coeffs)}
Shape(f) == f = [hards |-> f.hards, pbs |-> f.pbs, cards |-> f.cards, objs |-> f.objs]
Objs(format) == IF format = "opb" THEN Seq(OpbObjs) ELSE Seq(Seq(SoftClauses))
ObjsTyped(format, f) == Shape(f) /\ f.objs \in Objs(format)

LEMMA ObjectiveParsed ==
  ASSUME NEW f, ObjsTyped("opb", f), NEW ns \in Seq(Names), NEW line, line.terms \in Terms, Knows(ns, line.terms)
  PROVE  ObjsTyped("opb", ParseCostFunction(f, ns, line))
<1> DEFINE terms == line.terms
           n == Len(terms)
           factor == IF line.op = "min" THEN 1 ELSE -1
           ps == Products(ns, terms, factor)
           lits == Field(ps, "lit")
           coeffs == Field(ps, "coeff")
           shifts == Field(ps, "shift")
           o == [coeffs |-> coeffs, lits |-> lits, const |-> -Total(shifts)]
           g == [f EXCEPT !.objs = Append(@, o)]
<1>11. ParseCostFunction(f, ns, line) = g
  BY DEF ParseCostFunction
<1>1. n \in Nat /\ DOMAIN terms = 1 .. n /\ \A i \in 1 .. n : terms[i].c \in Int /\ terms[i].l \in Literals
  BY TermsTyped
<1>2. \A i \in 1 .. n : LitOf(ns, terms[i].l) \in Literals
  BY <1>1, LitOfKnown DEF Knows
<1>3. \A i \in 1 .. n : factor * terms[i].c \in Int
  <2>1. \A x \in Int : 1 * x \in Int /\ (-1) * x \in Int
    OBVIOUS
  <2>2. factor = 1 \/ factor = -1
    OBVIOUS
  <2> HIDE DEF factor, n
  <2> QED  BY <1>1, <2>1, <2>2
<1> DEFINE l(i) == LitOf(ns, terms[i].l)
           c(i) == factor * terms[i].c
<1>4. ps = [i \in 1 .. n |-> AddProduct(l(i), c(i))]
  BY <1>1 DEF Products
<1>5. \A i \in 1 .. n : c(i) \in Int /\ l(i) \in Literals
  BY <1>2, <1>3
<1> HIDE DEF ps, n, terms, l, c, factor
<1>6. /\ lits = [i \in 1 .. n |-> IF c(i) >= 0 THEN l(i) ELSE -l(i)]
      /\ coeffs = [i \in 1 .. n |-> AbsLit(c(i))]
      /\ shifts = [i \in 1 .. n |-> IF c(i) >= 0 THEN 0 ELSE -c(i)]
  BY <1>4, <1>5 DEF Field, AddProduct, AbsLit
<1>7. \A i \in 1 .. n : AbsLit(c(i)) \in Nat /\ -l(i) \in Literals /\ -c(i) \in Int
  <2>1. \A x \in Int : AbsLit(x) \in Nat /\ -x \in Int
    BY DEF AbsLit
  <2>2. \A x \in Literals : -x \in Literals
    BY HoldsNot
  <2> QED  BY <1>5, <2>1, <2>2
<1>8. lits \in LitSeqs /\ coeffs \in Seq(Nat) /\ shifts \in Seq(Int) /\ Len(lits) = n /\ Len(coeffs) = n
  <2> HIDE DEF lits, coeffs, shifts
  <2> QED  BY <1>1, <1>5, <1>6, <1>7 DEF LitSeqs
<1> HIDE DEF lits, coeffs, shifts
<1>9. -Total(shifts) \in Int
  <2>1. Total(shifts) \in Int
    BY <1>8, TotalInt
  <2> QED  BY <2>1
<1>10. o \in OpbObjs
  <2>1. o \in [coeffs : Seq(Nat), lits : LitSeqs, const : Int] /\ o.lits = lits /\ o.coeffs = coeffs
    BY <1>8, <1>9
  <2> HIDE DEF o
  <2> QED  BY <1>8, <2>1 DEF OpbObjs
<1> HIDE DEF o
<1>12. g = [hards |-> f.hards, pbs |-> f.pbs, cards |-> f.cards, objs |-> Append(f.objs, o)]
  <2>1. f = [hards |-> f.hards, pbs |-> f.pbs, cards |-> f.cards, objs |-> f.objs]
    BY DEF ObjsTyped, Shape
  <2>2. ASSUME NEW x PROVE [f EXCEPT !.objs = x] = [hards |-> f.hards, pbs |-> f.pbs, cards |-> f.cards, objs |-> x]
    BY <2>1
  <2>3. g = [f EXCEPT !.objs = Append(f.objs, o)]
    OBVIOUS
  <2> QED  BY <2>2, <2>3
<1>13. f.objs \in Seq(OpbObjs)
  BY DEF ObjsTyped, Objs
<1>14. Append(f.objs, o) \in Seq(OpbObjs)
  BY <1>10, <1>13
<1> HIDE DEF g
<1> QED  BY <1>11, <1>12, <1>14 DEF ObjsTyped, Objs, Shape

LEMMA ConstraintKeepsObjs ==
  ASSUME NEW f, Shape(f), NEW p
  PROVE  Shape(AddPBConstraint(f, p)) /\ AddPBConstraint(f, p).objs = f.objs
<1> DEFINE g == AddPBConstraint(f, p)
<1>1. \/ g = [f EXCEPT !.hards = Append(@, AtLeast(p).lits)]
      \/ \E q : g = [f EXCEPT !.cards = Append(@, [lits |-> q.lits, rhs |-> q.rhs])]
      \/ g = [f EXCEPT !.pbs = Append(@, AtMost(p))]
  <2>1. CASE IsClause(p)
    BY <2>1 DEF AddPBConstraint
  <2>2. CASE ~ IsClause(p) /\ IsCardinality(p)
    <3>1. g = [f EXCEPT !.cards = Append(@, [lits |-> ChangeSign(AtLeast(p)).lits, rhs |-> ChangeSign(AtLeast(p)).rhs])]
      BY <2>2 DEF AddPBConstraint
    <3> HIDE DEF g
    <3> QED  BY <3>1
  <2>3. CASE ~ IsClause(p) /\ ~ IsCardinality(p)
    BY <2>3 DEF AddPBConstraint
  <2> QED  BY <2>1, <2>2, <2>3
<1> HIDE DEF g
<1>2. f = [hards |-> f.hards, pbs |-> f.pbs, cards |-> f.cards, objs |-> f.objs]
  BY DEF Shape
<1>3. \E h, b, c : g = [hards |-> h, pbs |-> b, cards |-> c, objs |-> f.objs]
  <2>1. ASSUME NEW x PROVE [f EXCEPT !.hards = x] = [hards |-> x, pbs |-> f.pbs, cards |-> f.cards, objs |-> f.objs]
    BY <1>2
  <2>2. ASSUME NEW x PROVE [f EXCEPT !.pbs = x] = [hards |-> f.hards, pbs |-> x, cards |-> f.cards, objs |-> f.objs]
    BY <1>2
  <2>3. ASSUME NEW x PROVE [f EXCEPT !.cards = x] = [hards |-> f.hards, pbs |-> f.pbs, cards |-> x, objs |-> f.objs]
    BY <1>2
  <2> QED  BY <1>1, <2>1, <2>2, <2>3
<1> QED  BY <1>3 DEF Shape, g

LEMMA ParseConstraintKeepsObjs ==
  ASSUME NEW f, Shape(f), NEW ns, NEW line, line.op \in Compares
  PROVE  Shape(ParseConstraint(f, ns, line)) /\ ParseConstraint(f, ns, line).objs = f.objs
<1> DEFINE p == Parsed(ns, line)
<1> HIDE DEF p
<1>1. CASE line.op = ">="
  <2>1. ParseConstraint(f, ns, line) = AddPBConstraint(f, p)
    BY <1>1 DEF ParseConstraint, p
  <2> QED  BY <2>1, ConstraintKeepsObjs
<1>2. CASE line.op = "<="
  <2>1. ParseConstraint(f, ns, line) = AddPBConstraint(f, ChangeSign(p))
    BY <1>2 DEF ParseConstraint, p
  <2> QED  BY <2>1, ConstraintKeepsObjs
<1>3. CASE line.op = "="
  <2>1. ParseConstraint(f, ns, line) = AddPBConstraint(AddPBConstraint(f, p), [p EXCEPT !.sign = TRUE])
    BY <1>3 DEF ParseConstraint, p
  <2>2. Shape(AddPBConstraint(f, p)) /\ AddPBConstraint(f, p).objs = f.objs
    BY ConstraintKeepsObjs
  <2> QED  BY <2>1, <2>2, ConstraintKeepsObjs
<1> QED  BY <1>1, <1>2, <1>3 DEF Compares

LEMMA TwoMax ==
  ASSUME NEW a \in Nat, NEW b \in Nat
  PROVE  Max({a, b}) \in Nat /\ a <= Max({a, b}) /\ b <= Max({a, b})
<1>1. IsFiniteSet({a, b})
  BY FiniteUpTo4
<1> QED  BY <1>1, MaxNat

LEMMA McnfLineKeepsObjs ==
  ASSUME NEW f, ObjsTyped("mcnf", f), NEW line, TypedLine("mcnf", line)
  PROVE  ObjsTyped("mcnf", McnfLine(f, line))
<1> DEFINE old == f.objs
           n == Max({Len(old), line.idx})
           new == [i \in 1 .. n |-> IF i <= Len(old) THEN old[i] ELSE <<>>]
           c == [w |-> line.weight, lits |-> line.lits]
           os == [new EXCEPT ![line.idx] = Append(@, c)]
           X == Seq(SoftClauses)
<1>1. old \in Seq(X) /\ f = [hards |-> f.hards, pbs |-> f.pbs, cards |-> f.cards, objs |-> f.objs]
  BY DEF ObjsTyped, Objs, Shape
<1>2. line.op \in {"h", "o"} /\ line.lits \in LitSeqs /\ (line.op = "o" => line.idx \in Nat \ {0} /\ line.weight \in Nat)
  BY DEF TypedLine, LitSeqs
<1>3. CASE line.op = "h"
  <2>1. McnfLine(f, line) = [f EXCEPT !.hards = Append(@, line.lits)]
    BY <1>3 DEF McnfLine
  <2> DEFINE h == Append(f.hards, line.lits)
             g == McnfLine(f, line)
  <2>2. g = [hards |-> h, pbs |-> f.pbs, cards |-> f.cards, objs |-> f.objs]
    BY <1>1, <2>1
  <2> HIDE DEF h, g
  <2> QED  BY <1>1, <2>2 DEF ObjsTyped, Objs, Shape, g
<1>4. CASE line.op = "o"
  <2> DEFINE g == McnfLine(f, line)
  <2>1. g = [f EXCEPT !.objs = os]
    BY <1>4 DEF McnfLine
  <2>2. line.idx \in Nat \ {0} /\ c \in SoftClauses
    BY <1>2, <1>4 DEF SoftClauses
  <2> HIDE DEF c, X
  <2>3. Len(old) \in Nat /\ \A i \in 1 .. Len(old) : old[i] \in X
    BY <1>1
  <2>4. n \in Nat /\ Len(old) <= n /\ line.idx <= n
    BY <2>2, <2>3, TwoMax
  <2> HIDE DEF n
  <2>5. <<>> \in X
    BY DEF X
  <2>6. new \in [1 .. n -> X]
    <3>1. \A i \in 1 .. n : (IF i <= Len(old) THEN old[i] ELSE <<>>) \in X
      BY <2>3, <2>5
    <3> QED  BY <3>1
  <2> HIDE DEF new
  <2>7. line.idx \in 1 .. n /\ new[line.idx] \in X
    BY <2>2, <2>4, <2>6
  <2>8. Append(new[line.idx], c) \in X
    BY <2>2, <2>7 DEF X
  <2>9. os \in [1 .. n -> X]
    BY <2>6, <2>8
  <2> HIDE DEF os
  <2>10. os \in Seq(X)
    BY <2>4, <2>9
  <2>11. g = [hards |-> f.hards, pbs |-> f.pbs, cards |-> f.cards, objs |-> os]
    BY <1>1, <2>1
  <2> HIDE DEF g
  <2> QED  BY <2>10, <2>11 DEF ObjsTyped, Objs, Shape, X, g
<1> QED  BY <1>2, <1>3, <1>4

LEMMA RepeatedTyped ==
  ASSUME NEW softs \in Seq(SoftClauses), NEW X, NEW new \in Seq(X), Len(new) = Len(softs)
  PROVE  Repeated(softs, new) \in Seq(X)
<1> DEFINE n == Len(softs)
           part(k) == [j \in 1 .. softs[k].w |-> new[k]]
           Eq(f) == f = [i \in 0 .. n |-> IF i = 0 THEN <<>> ELSE f[i - 1] \o [j \in 1 .. softs[i].w |-> new[i]]]
           copies == CHOOSE f : Eq(f)
           D == Seq(X)
           H == [k \in 1 .. n |-> [d \in D |-> d \o part(k)]]
<1>1. n \in Nat
  OBVIOUS
<1>2. ASSUME NEW k \in 1 .. n PROVE part(k) \in D
  <2>1. softs[k] \in SoftClauses /\ new[k] \in X
    OBVIOUS
  <2>2. softs[k].w \in Nat
    BY <2>1 DEF SoftClauses
  <2> QED  BY <2>1, <2>2
<1> HIDE DEF n, part
<1>3. \A k \in 1 .. n : \A d \in D : H[k][d] = d \o part(k) /\ d \o part(k) \in D
  BY <1>2, ConcatUpTo
<1>4. PICK g : Goes(g, n, D, <<>>, H)
  <2>1. <<>> \in D /\ \A k \in 1 .. n : H[k] \in [D -> D]
    BY <1>3
  <2> HIDE DEF H, D
  <2> QED  BY <1>1, <2>1, Iteration
<1> HIDE DEF H, D
<1>5. \A k \in 1 .. n : g[k-1] \in D /\ g[k] = g[k-1] \o part(k)
  <2>1. \A k \in 1 .. n : k-1 \in 0 .. n
    BY <1>1
  <2> QED  BY <1>3, <1>4, <2>1 DEF Goes
<1>6. Eq(g)
  <2>1. \A i \in 0 .. n : i = 0 \/ i \in 1 .. n
    BY <1>1
  <2>2. g[0] = <<>>
    BY <1>4 DEF Goes
  <2>3. \A i \in 0 .. n : g[i] = IF i = 0 THEN <<>> ELSE g[i - 1] \o part(i)
    BY <1>5, <2>1, <2>2
  <2> QED  BY <1>4, <2>3 DEF Goes, part
<1>7. Eq(copies)
  BY <1>6
<1>8. Repeated(softs, new) = copies[n]
  BY DEF Repeated, n
<1> HIDE DEF copies
<1>9. copies[0] = <<>> /\ \A k \in 1 .. n : copies[k] = copies[k-1] \o part(k)
  <2>1. \A i \in 0 .. n : copies[i] = IF i = 0 THEN <<>> ELSE copies[i - 1] \o part(i)
    BY <1>7 DEF part
  <2>2. 0 \in 0 .. n /\ \A k \in 1 .. n : k \in 0 .. n /\ k # 0
    BY <1>1
  <2> QED  BY <2>1, <2>2
<1> DEFINE I == {k \in 0 .. n : copies[k] \in D}
<1>10. 0 \in I
  <2>1. <<>> \in D /\ 0 \in 0 .. n
    BY <1>1 DEF D
  <2> QED  BY <1>9, <2>1
<1>11. ASSUME NEW k \in 1 .. n, k-1 \in I PROVE k \in I
  <2>1. copies[k-1] \in D /\ k \in 0 .. n
    BY <1>11
  <2> QED  BY <1>3, <1>9, <2>1
<1>12. \A k \in 0 .. n : k \in I
  <2> HIDE DEF I
  <2> QED  BY <1>1, <1>10, <1>11, Upward
<1> QED  BY <1>1, <1>8, <1>12 DEF D

LEMMA FiniteToSet ==
  ASSUME NEW X, NEW s \in Seq(X)
  PROVE  IsFiniteSet(ToSet(s)) /\ ToSet(s) \subseteq X
<1>1. Len(s) \in Nat /\ DOMAIN s = 1 .. Len(s) /\ \A i \in 1 .. Len(s) : s[i] \in X
  OBVIOUS
<1>2. IsFiniteSet(1 .. Len(s))
  BY <1>1, FS_Interval
<1> DEFINE T == {s[i] : i \in 1 .. Len(s)}
           f == [i \in 1 .. Len(s) |-> s[i]]
<1>3. ToSet(s) = T
  BY <1>1 DEF ToSet
<1>4. f \in Surjection(1 .. Len(s), T)
  BY DEF Surjection
<1>5. IsFiniteSet(T)
  <2> HIDE DEF f, T
  <2> QED  BY <1>2, <1>4, FS_Surjection
<1> QED  BY <1>1, <1>3, <1>5

\* the variables of finitely many clauses and a number have a maximum
LEMMA IdsMax ==
  ASSUME NEW n \in Nat, NEW f, \A i \in 1 .. n : IsFiniteSet(f[i]) /\ f[i] \subseteq Int, NEW id \in Nat
  PROVE  LET m == Max({id} \cup {AbsLit(l) : l \in UNION {f[i] : i \in 1 .. n}}) IN m \in Nat /\ id <= m
<1> DEFINE C == {f[i] : i \in 1 .. n}
           U == UNION C
           ids == {AbsLit(l) : l \in U}
           F == [i \in 1 .. n |-> f[i]]
           g == [l \in U |-> AbsLit(l)]
<1>1. IsFiniteSet(1 .. n)
  BY FS_Interval
<1>2. IsFiniteSet(C)
  <2>1. F \in Surjection(1 .. n, C)
    BY DEF Surjection
  <2> HIDE DEF F, C
  <2> QED  BY <1>1, <2>1, FS_Surjection
<1>3. \A T \in C : IsFiniteSet(T)
  OBVIOUS
<1>4. U \subseteq Int
  OBVIOUS
<1> HIDE DEF C
<1>5. IsFiniteSet(U)
  BY <1>2, <1>3, FS_UNION
<1> HIDE DEF U
<1>6. IsFiniteSet(ids)
  <2>1. g \in Surjection(U, ids)
    BY DEF Surjection
  <2> HIDE DEF g, ids
  <2> QED  BY <1>5, <2>1, FS_Surjection
<1>7. ids \subseteq Nat
  BY <1>4 DEF AbsLit
<1> HIDE DEF ids
<1>8. IsFiniteSet({id} \cup ids) /\ {id} \cup ids \subseteq Nat /\ {id} \cup ids # {}
  BY <1>6, <1>7, FS_Singleton, FS_Union
<1>9. Max({id} \cup ids) \in Nat /\ id <= Max({id} \cup ids)
  <2> DEFINE M == {id} \cup ids
  <2>1. id \in M
    OBVIOUS
  <2> HIDE DEF M
  <2> QED  BY <1>8, <2>1, MaxNat DEF M
<1> QED  BY <1>9 DEF ids, U, C

LEMMA SoftLits ==
  ASSUME NEW softs \in Seq(SoftClauses)
  PROVE  Len(softs) \in Nat /\ DOMAIN softs = 1 .. Len(softs)
         /\ \A i \in 1 .. Len(softs) : IsFiniteSet(ToSet(softs[i].lits)) /\ ToSet(softs[i].lits) \subseteq Literals
<1>1. Len(softs) \in Nat /\ DOMAIN softs = 1 .. Len(softs)
  OBVIOUS
<1>2. ASSUME NEW i \in 1 .. Len(softs) PROVE softs[i].lits \in Seq(Literals)
  <2>1. softs[i] \in SoftClauses
    OBVIOUS
  <2> QED  BY <2>1 DEF SoftClauses, LitSeqs
<1> QED  BY <1>1, <1>2, FiniteToSet

\* the ids of the soft clauses and of the solver have a maximum
LEMMA SoftIds ==
  ASSUME NEW softs \in Seq(SoftClauses), NEW id \in Nat
  PROVE  LET m == Max({id} \cup {AbsLit(l) : l \in UNION {ToSet(softs[i].lits) : i \in DOMAIN softs}})
         IN  m \in Nat /\ id <= m
<1> DEFINE n == Len(softs)
           f == [i \in 1 .. n |-> ToSet(softs[i].lits)]
<1>1. n \in Nat /\ DOMAIN softs = 1 .. n
  BY SoftLits
<1>2. \A i \in 1 .. n : IsFiniteSet(f[i]) /\ f[i] \subseteq Int
  BY SoftLits DEF Literals
<1>3. {ToSet(softs[i].lits) : i \in DOMAIN softs} = {f[i] : i \in 1 .. n}
  BY <1>1
<1> HIDE DEF f, n
<1> QED  BY <1>1, <1>2, <1>3, IdsMax

LEMMA AddSoftTyped ==
  ASSUME NEW S, "id" \in DOMAIN S, S.id \in Nat, NEW softs \in Seq(SoftClauses)
  PROVE  AddSoft(S, softs).objective \in Seq(Names)
<1> DEFINE m == Max({S.id} \cup {AbsLit(l) : l \in UNION {ToSet(softs[i].lits) : i \in DOMAIN softs}})
           T == [S EXCEPT !.id = m]
           new == Fresh(T, Len(softs))
<1>1. AddSoft(S, softs).objective = Repeated(softs, new)
  BY DEF AddSoft
<1>2. m \in Nat
  BY SoftIds
<1> HIDE DEF m
<1>3. T.id = m
  OBVIOUS
<1> HIDE DEF T
<1>4. Len(softs) \in Nat
  OBVIOUS
<1>5. new = [i \in 1 .. Len(softs) |-> m + i]
  BY <1>3 DEF Fresh
<1>6. \A i \in 1 .. Len(softs) : m + i \in Names
  BY <1>2 DEF Names
<1>7. new \in Seq(Names) /\ Len(new) = Len(softs)
  <2> HIDE DEF new
  <2> QED  BY <1>4, <1>5, <1>6
<1> HIDE DEF new
<1> QED  BY <1>1, <1>7, RepeatedTyped

\* the soft clauses of an objective
LEMMA SoftsTyped ==
  ASSUME ObjsTyped(input.format, formula), NEW i \in 1 .. Len(formula.objs)
  PROVE  Softs(i) \in Seq(SoftClauses)
<1>1. CASE input.format = "opb"
  <2> DEFINE o == formula.objs[i]
             n == Len(o.lits)
             c == [j \in 1 .. n |-> [w |-> o.coeffs[j], lits |-> <<-o.lits[j]>>]]
  <2>1. formula.objs \in Seq(OpbObjs)
    BY <1>1 DEF ObjsTyped, Objs
  <2>2. o \in OpbObjs
    BY <2>1
  <2> HIDE DEF o
  <2>3. o.lits \in LitSeqs /\ o.coeffs \in Seq(Nat) /\ Len(o.lits) = Len(o.coeffs)
    BY <2>2 DEF OpbObjs
  <2>4. n \in Nat /\ DOMAIN o.lits = 1 .. n /\ \A j \in 1 .. n : o.lits[j] \in Literals /\ o.coeffs[j] \in Nat
    BY <2>3 DEF LitSeqs
  <2>5. Softs(i) = c
    BY <1>1, <2>4 DEF Softs, SoftsOf, o
  <2> HIDE DEF n
  <2>6. \A j \in 1 .. n : [w |-> o.coeffs[j], lits |-> <<-o.lits[j]>>] \in SoftClauses
    <3>1. ASSUME NEW l \in Literals, NEW w \in Nat PROVE [w |-> w, lits |-> <<-l>>] \in SoftClauses
      <4>1. -l \in Literals
        BY HoldsNot
      <4>2. <<-l>> \in LitSeqs
        BY <4>1 DEF LitSeqs
      <4> QED  BY <4>2 DEF SoftClauses
    <3> QED  BY <2>4, <3>1
  <2>7. c \in Seq(SoftClauses)
    <3> DEFINE X == SoftClauses
    <3> HIDE DEF X
    <3>1. \A j \in 1 .. n : [w |-> o.coeffs[j], lits |-> <<-o.lits[j]>>] \in X
      BY <2>6 DEF X
    <3>2. c \in Seq(X)
      BY <2>4, <3>1
    <3> QED  BY <3>2 DEF X
  <2> HIDE DEF c
  <2> QED  BY <2>5, <2>7
<1>2. CASE input.format # "opb"
  <2>1. formula.objs \in Seq(Seq(SoftClauses))
    BY <1>2 DEF ObjsTyped, Objs
  <2>2. formula.objs[i] \in Seq(SoftClauses)
    BY <2>1
  <2>3. \A V : Taken(formula.objs[i], V) \in Seq(SoftClauses)
    <3> DEFINE v == formula.objs[i]
               X == SoftClauses
    <3> HIDE DEF v, X
    <3>1. v \in Seq(X)
      BY <2>2 DEF v, X
    <3>2. ASSUME NEW V PROVE Taken(v, V) \in Seq(X)
      BY <3>1, TakenRight
    <3> QED  BY <3>2 DEF v, X
  <2>4. Softs(i) = formula.objs[i] \/ \E V : Softs(i) = Taken(formula.objs[i], V)
    BY <1>2 DEF Softs
  <2> QED  BY <2>2, <2>3, <2>4
<1> QED  BY <1>1, <1>2

\* the encoders keep the counter of the variable ids a number
Counts == "id" \in DOMAIN solver /\ solver.id \in Nat

ObjInv ==
  /\ ObjsTyped(input.format, formula)
  /\ objectives \in Seq(Seq(Names))
  /\ pc = "pb" /\ formula.pbs = <<>> => pos = 1
  /\ pc = "card" /\ formula.cards = <<>> => pos = 1
  /\ pc = "soft" => pos = 1 \/ pos <= Len(formula.objs)

LEMMA ObjInvInit == ASSUME Init PROVE ObjInv
<1>1. input \in Inputs /\ pc = "parse" /\ objectives = <<>>
      /\ formula = [hards |-> <<>>, pbs |-> <<>>, cards |-> <<>>, objs |-> <<>>]
  BY DEF Init
<1>2. Shape(formula) /\ formula.objs = <<>>
  BY <1>1 DEF Shape
<1>3. <<>> \in Seq(OpbObjs) /\ <<>> \in Seq(Seq(SoftClauses)) /\ <<>> \in Seq(Seq(Names))
  OBVIOUS
<1>4. ObjsTyped(input.format, formula)
  BY <1>2, <1>3 DEF ObjsTyped, Objs
<1> QED  BY <1>1, <1>3, <1>4 DEF ObjInv

LEMMA AdvanceTo == ASSUME NEW next, NEW last, Advance(next, last) PROVE (pc' = pc /\ pos < last /\ pos' = pos + 1) \/ (pc' = next /\ pos' = 1)
BY DEF Advance

LEMMA ObjInvParse == ASSUME ParseInv, ObjInv, ParseLine PROVE ObjInv'
<1> DEFINE line == input.file[pos]
<1>1. /\ pc = "parse" /\ input.format = "opb" /\ pos <= Len(input.file) /\ input' = input /\ objectives' = objectives
      /\ names' = Known(names, line.terms)
      /\ formula' = IF line.op \in {"min", "max"} THEN ParseCostFunction(formula, names', line)
                    ELSE ParseConstraint(formula, names', line)
      /\ Advance("hard", Len(input.file))
  BY DEF ParseLine
<1>2. names \in Seq(Names) /\ Distinct(names) /\ pos \in Nat \ {0} /\ input \in Inputs
  BY DEF ParseInv
<1>3. line.op \in Compares \cup {"min", "max"} /\ line.terms \in Terms
  <2>1. pos \in 1 .. Len(input.file)
    BY <1>1, <1>2, FileTyped
  <2>2. TypedLine("opb", line)
    BY <1>1, <1>2, <2>1, FileTyped
  <2> QED  BY <2>2, OpbTyped
<1> HIDE DEF line
<1>4. names' \in Seq(Names) /\ Knows(names', line.terms)
  BY <1>1, <1>2, <1>3, KnownNames
<1>5. ObjsTyped("opb", formula)
  BY <1>1 DEF ObjInv
<1>6. ObjsTyped("opb", formula')
  <2>1. CASE line.op \in {"min", "max"}
    BY <1>1, <1>3, <1>4, <1>5, <2>1, ObjectiveParsed
  <2>2. CASE line.op \notin {"min", "max"}
    <3>1. line.op \in Compares /\ formula' = ParseConstraint(formula, names', line)
      BY <1>1, <1>3, <2>2
    <3>2. Shape(formula') /\ formula'.objs = formula.objs
      BY <1>5, <3>1, ParseConstraintKeepsObjs DEF ObjsTyped
    <3> QED  BY <1>5, <3>2 DEF ObjsTyped
  <2> QED  BY <2>1, <2>2
<1>7. pc' \in {"parse", "hard"}
  BY <1>1, AdvanceTo
<1> QED  BY <1>1, <1>6, <1>7 DEF ObjInv

LEMMA ObjInvMcnf == ASSUME ParseInv, ObjInv, ReadMcnfLine PROVE ObjInv'
<1> DEFINE line == input.file[pos]
<1>1. /\ pc = "parse" /\ input.format = "mcnf" /\ pos <= Len(input.file) /\ input' = input /\ objectives' = objectives
      /\ formula' = McnfLine(formula, line)
      /\ Advance("hard", Len(input.file))
  BY DEF ReadMcnfLine
<1>2. pos \in Nat \ {0} /\ input \in Inputs
  BY DEF ParseInv
<1>3. TypedLine("mcnf", line)
  <2>1. pos \in 1 .. Len(input.file)
    BY <1>1, <1>2, FileTyped
  <2> QED  BY <1>1, <1>2, <2>1, FileTyped
<1> HIDE DEF line
<1>4. ObjsTyped("mcnf", formula)
  BY <1>1 DEF ObjInv
<1>5. ObjsTyped("mcnf", formula')
  BY <1>1, <1>3, <1>4, McnfLineKeepsObjs
<1>6. pc' \in {"parse", "hard"}
  BY <1>1, AdvanceTo
<1> QED  BY <1>1, <1>5, <1>6 DEF ObjInv

LEMMA ObjInvAddObjectives == ASSUME ParseInv, ObjInv, Counts, AddObjectives PROVE ObjInv'
<1>1. pc = "soft" /\ UNCHANGED <<input, formula>> /\ objectives \in Seq(Seq(Names))
  BY DEF AddObjectives, ObjInv
<1>2. ObjsTyped(input.format, formula)' /\ ObjsTyped(input.format, formula)
  BY <1>1 DEF ObjInv
<1>3. CASE formula.objs = <<>>
  BY <1>1, <1>2, <1>3 DEF AddObjectives, ObjInv
<1>4. CASE formula.objs # <<>>
  <2> DEFINE o == AddSoft(solver, Softs(pos)).objective
             e == IF input.format = "mcnf" /\ Len(formula.objs) = 1 THEN <<<<>>>> ELSE <<>>
             X == Seq(Names)
  <2>1. objectives' = objectives \o <<o>> \o e /\ Advance("done", Len(formula.objs))
    BY <1>4 DEF AddObjectives
  <2>2. formula.objs \in Seq(OpbObjs) \/ formula.objs \in Seq(Seq(SoftClauses))
    BY <1>2 DEF ObjsTyped, Objs
  <2>3. Len(formula.objs) \in Nat /\ Len(formula.objs) >= 1
    BY <1>4, <2>2
  <2>4. pos \in 1 .. Len(formula.objs)
    <3>1. pos \in Nat \ {0} /\ (pos = 1 \/ pos <= Len(formula.objs))
      BY <1>1 DEF ObjInv, ParseInv
    <3> QED  BY <2>3, <3>1
  <2>5. Softs(pos) \in Seq(SoftClauses)
    BY <1>2, <2>4, SoftsTyped
  <2>6. o \in X
    BY <2>5, AddSoftTyped DEF Counts
  <2> HIDE DEF o
  <2>7. e \in Seq(X)
    <3>1. <<>> \in X
      OBVIOUS
    <3> HIDE DEF X
    <3> QED  BY <3>1
  <2> HIDE DEF e
  <2>8. objectives' \in Seq(X)
    <3>1. objectives \in Seq(X)
      BY <1>1
    <3> HIDE DEF X
    <3> QED  BY <2>1, <2>6, <2>7, <3>1
  <2>9. (pc' = pc /\ pos < Len(formula.objs) /\ pos' = pos + 1) \/ (pc' = "done" /\ pos' = 1)
    BY <2>1, AdvanceTo
  <2>10. pc' = "soft" => pos' <= Len(formula'.objs)
    BY <1>1, <2>3, <2>4, <2>9
  <2>11. pc' \in {"soft", "done"}
    BY <1>1, <2>9
  <2> QED  BY <1>2, <2>8, <2>10, <2>11 DEF ObjInv
<1> QED  BY <1>3, <1>4

LEMMA ObjInvNext == ASSUME ParseInv, ObjInv, Counts, [NetNext]_allVars PROVE ObjInv'
<1>1. CASE ParseLine
  BY <1>1, ObjInvParse
<1>2. CASE ReadMcnfLine
  BY <1>2, ObjInvMcnf
<1>3. CASE AddHards
  <2>1. UNCHANGED <<input, formula, objectives>> /\ pos' = 1 /\ pc' \in {"pb", "soft"}
    BY <1>3 DEF AddHards
  <2> QED  BY <2>1 DEF ObjInv
<1>4. CASE EncodePBs
  <2>1. UNCHANGED <<input, formula, objectives>> /\ pc = "pb"
    BY <1>4 DEF EncodePBs
  <2>2. CASE formula.pbs = <<>>
    <3>1. pc' = "card" /\ pos' = pos /\ pos = 1
      BY <1>4, <2>1, <2>2 DEF EncodePBs, ObjInv
    <3> QED  BY <2>1, <3>1 DEF ObjInv
  <2>3. CASE formula.pbs # <<>>
    <3>1. Advance("card", Len(formula.pbs))
      BY <1>4, <2>3 DEF EncodePBs
    <3>2. pc' = pc \/ (pc' = "card" /\ pos' = 1)
      BY <3>1, AdvanceTo
    <3> QED  BY <2>1, <2>3, <3>2 DEF ObjInv
  <2> QED  BY <2>2, <2>3
<1>5. CASE EncodeCards
  <2>1. UNCHANGED <<input, formula, objectives>> /\ pc = "card"
    BY <1>5 DEF EncodeCards
  <2>2. CASE formula.cards = <<>>
    <3>1. pc' = "soft" /\ pos' = pos /\ pos = 1
      BY <1>5, <2>1, <2>2 DEF EncodeCards, ObjInv
    <3> QED  BY <2>1, <3>1 DEF ObjInv
  <2>3. CASE formula.cards # <<>>
    <3>1. Advance("soft", Len(formula.cards))
      BY <1>5, <2>3 DEF EncodeCards
    <3>2. pc' = pc \/ (pc' = "soft" /\ pos' = 1)
      BY <3>1, AdvanceTo
    <3> QED  BY <2>1, <2>3, <3>2 DEF ObjInv
  <2> QED  BY <2>2, <2>3
<1>6. CASE AddObjectives
  BY <1>6, ObjInvAddObjectives
<1>7. CASE UNCHANGED <<input, pc, pos, formula, objectives>>
  BY <1>7 DEF ObjInv
<1>8. [Next]_vars \/ UNCHANGED <<input, pc, pos, formula, objectives>>
  BY NetNextNext
<1>9. UNCHANGED vars => UNCHANGED <<input, pc, pos, formula, objectives>>
  BY DEF vars
<1> QED  BY <1>1, <1>2, <1>3, <1>4, <1>5, <1>6, <1>7, <1>8, <1>9 DEF Next

-----------------------------------------------------------------------------
(* The networks of the objectives.  Two cases are left out: the positions   *)
(* that set_inputs_sorted leaves 0 when a variable is repeated, and the     *)
(* unit core variables that core_rebuild appends twice.                     *)

Plain ==
  /\ Rebuilding => \A k \in K : IsInjective(objectives[k])
  /\ input.mode = "core_rebuild" => ~ input.disjoint

\* the networks of every objective
PartsRight ==
  /\ FiniteClauses(encoding)
  /\ \A k \in K : PartOf(k) /\ (input.mode = "core_rebuild" => unit[k] = <<>>)

NetInv ==
  /\ nbVars = -1 => encoding = {}
  /\ nbVars # -1 => pc = "done" /\ nbVars \in Nat
  /\ nbVars # -1 /\ Plain => PartsRight

EncOf(h, i, e) == [NoSolver EXCEPT !.hard = h, !.id = i, !.end = e]

LEMMA EncIs == ASSUME NEW h, NEW i, NEW e PROVE EncOf(h, i, e) = SolverOf(h, i, e)
<1>1. EncOf(h, i, e) = [With(NoSolver, h, i) EXCEPT !.end = e]
  <2>1. \A S : [S EXCEPT !.hard = h, !.id = i, !.end = e] = [[S EXCEPT !.hard = h, !.id = i] EXCEPT !.end = e]
    OBVIOUS
  <2> QED  BY <2>1 DEF EncOf, With
<1> DEFINE a == {}
           b == 0
           c == ""
<1>2. NoSolver = SolverOf(a, b, c)
  BY DEF NoSolver, SolverOf
<1> HIDE DEF a, b, c
<1>3. With(SolverOf(a, b, c), h, i) = SolverOf(h, i, c)
  BY SolverWith
<1>4. [SolverOf(h, i, c) EXCEPT !.end = e] = SolverOf(h, i, e)
  BY DEF SolverOf
<1> QED  BY <1>1, <1>2, <1>3, <1>4

LEMMA EncSolver ==
  ASSUME Counts, solver.end = "", FiniteClauses(encoding)
  PROVE  Enc \in Solvers /\ Enc.hard = encoding
<1>1. Enc = EncOf(encoding, solver.id, solver.end)
  BY DEF Enc, EncOf
<1>2. EncOf(encoding, solver.id, solver.end) = SolverOf(encoding, solver.id, solver.end)
  BY EncIs
<1>3. solver.id \in Nat
  BY DEF Counts
<1>4. SolverOf(encoding, solver.id, "") \in Solvers
  BY <1>3, SolverMade DEF SolverOf
<1>5. SolverOf(encoding, solver.id, "").hard = encoding
  BY DEF SolverOf
<1>6. Enc = SolverOf(encoding, solver.id, "")
  BY <1>1, <1>2
<1> QED  BY <1>4, <1>5, <1>6

LEMMA NoClauses == FiniteClauses({})
<1>1. IsFiniteSet({}) /\ \A c \in {} : FALSE
  BY FS_EmptySet
<1> QED  BY <1>1 DEF FiniteClauses

LEMMA ResetSolver ==
  ASSUME NEW S \in Solvers, nbVars \in Nat, objectives \in Seq(Seq(Names))
  PROVE  Reset(S) \in Solvers /\ Reset(S).hard = {} /\ Reset(S).id \in Nat /\ nbVars <= Reset(S).id
<1> DEFINE t == [k \in K |-> Len(objectives[k])]
           id == nbVars + Total(t)
<1>1. t \in Seq(Nat)
  <2>1. K = 1 .. Len(objectives) /\ Len(objectives) \in Nat /\ \A k \in K : objectives[k] \in Seq(Names)
    BY DEF K
  <2>2. \A k \in K : Len(objectives[k]) \in Nat
    BY <2>1
  <2> QED  BY <2>1, <2>2
<1>2. Total(t) \in Nat
  BY <1>1, TotalNat
<1> HIDE DEF t
<1>3. id \in Nat /\ nbVars <= id
  BY <1>2
<1>4. Reset(S) = With(S, {}, id)
  BY DEF Reset, With, t
<1> HIDE DEF id
<1>5. S = SolverOf(S.hard, S.id, "")
  BY SolverParts DEF SolverOf
<1>6. Reset(S) = SolverOf({}, id, "")
  <2> DEFINE a == {}
             c == ""
  <2>1. S = SolverOf(S.hard, S.id, c) /\ Reset(S) = With(S, a, id)
    BY <1>4, <1>5
  <2>2. SolverOf(a, id, c) = SolverOf({}, id, "")
    OBVIOUS
  <2> HIDE DEF a, c
  <2>3. With(SolverOf(S.hard, S.id, c), a, id) = SolverOf(a, id, c)
    BY SolverWith
  <2> QED  BY <2>1, <2>2, <2>3
<1>7. SolverOf({}, id, "") \in Solvers
  BY <1>3, NoClauses, SolverMade DEF SolverOf
<1>8. SolverOf({}, id, "").hard = {} /\ SolverOf({}, id, "").id = id
  BY DEF SolverOf
<1> QED  BY <1>3, <1>6, <1>7, <1>8

LEMMA AdoptDone ==
  ASSUME NEW S \in Solvers, NEW n, NEW op, NEW r, EachDone(n, S, op, r), Adopt(r.s), sorted' = r.ws
  PROVE  /\ FiniteClauses(encoding')
         /\ \A k \in 1 .. n : \E T \in Above(S) : op[k][T].s.hard \subseteq encoding' /\ sorted'[k] = op[k][T].w
<1>1. r.s \in Solvers /\ encoding' = r.s.hard
  BY DEF EachDone, Above, Adopt
<1>2. FiniteClauses(r.s.hard)
  BY <1>1, SolverParts
<1> QED  BY <1>1, <1>2 DEF EachDone

LEMMA NetInvSort == ASSUME NetInv, ObjInv, Counts, SortObjectives PROVE NetInv'
<1> DEFINE n == Len(objectives)
<1>1. /\ pc = "done" /\ solver.end = "" /\ nbVars = -1 /\ input.mode = "static"
      /\ nbVars' = solver.id /\ rest' = Empty /\ unit' = Empty
      /\ UNCHANGED <<input, pc, objectives>>
  BY DEF SortObjectives, Begun
<1>2. encoding = {} /\ objectives \in Seq(Seq(Names))
  BY <1>1 DEF NetInv, ObjInv
<1>3. Enc \in Solvers
  BY <1>1, <1>2, EncSolver, NoClauses
<1> DEFINE all == ForEach(Enc, LAMBDA S, k : EncodeSorted(S, objectives[k], <<>>))
<1>4. Adopt(all.s) /\ sorted' = all.ws
  BY DEF SortObjectives
<1>5. /\ EachDone(n, Enc, StaticOp(Enc), all)
      /\ \A k \in 1 .. n : \A T \in Above(Enc) : StaticOp(Enc)[k][T] = EncodeSorted(T, objectives[k], <<>>)
  BY <1>2, <1>3, EachStatic
<1> HIDE DEF all
<1>6. /\ FiniteClauses(encoding')
      /\ \A k \in 1 .. n : \E T \in Above(Enc) : StaticOp(Enc)[k][T].s.hard \subseteq encoding' /\ sorted'[k] = StaticOp(Enc)[k][T].w
  BY <1>3, <1>4, <1>5, AdoptDone
<1>7. K = 1 .. n /\ K' = K /\ \A k \in 1 .. n : objectives[k] \in Seq(Names) /\ rest'[k] = <<>> /\ unit'[k] = <<>>
  <2>1. K = 1 .. n /\ \A k \in 1 .. n : objectives[k] \in Seq(Names)
    BY <1>2 DEF K
  <2>3. K' = K
    BY <1>1 DEF K
  <2>2. \A k \in K : Empty[k] = <<>>
    BY DEF Empty
  <2> QED  BY <1>1, <2>1, <2>2, <2>3
<1>8. ASSUME NEW k \in 1 .. n PROVE NetPart(objectives[k], encoding', sorted'[k], rest'[k], unit'[k])
  <2>1. PICK T \in Above(Enc) : StaticOp(Enc)[k][T].s.hard \subseteq encoding' /\ sorted'[k] = StaticOp(Enc)[k][T].w
    BY <1>6
  <2> DEFINE q == EncodeSorted(T, objectives[k], <<>>)
  <2>2. q.s.hard \subseteq encoding' /\ sorted'[k] = q.w
    BY <1>5, <2>1
  <2>3. NetPart(objectives[k], q.s.hard, q.w, <<>>, <<>>)
    BY <1>7, PartStatic DEF Above
  <2> HIDE DEF q
  <2>4. NetPart(objectives[k], encoding', q.w, <<>>, <<>>)
    BY <2>2, <2>3, PartMore
  <2> QED  BY <1>7, <2>2, <2>4
<1>9. PartsRight'
  BY <1>1, <1>6, <1>7, <1>8 DEF PartsRight, PartOf
<1>10. nbVars' \in Nat /\ pc' = "done"
  BY <1>1 DEF Counts
<1> QED  BY <1>9, <1>10 DEF NetInv

LEMMA NetInvDisjoint == ASSUME NetInv, ObjInv, Counts, DisjointCores PROVE NetInv'
<1> DEFINE n == Len(objectives)
<1>1. /\ pc = "done" /\ solver.end = "" /\ nbVars = -1
      /\ nbVars' = solver.id /\ UNCHANGED <<input, pc, objectives>>
  BY DEF DisjointCores, Begun
<1>2. encoding = {} /\ objectives \in Seq(Seq(Names))
  BY <1>1 DEF NetInv, ObjInv
<1>3. Enc \in Solvers
  BY <1>1, <1>2, EncSolver, NoClauses
<1>4. PICK new, single \in CoreChoices(objectives) :
        /\ \A k \in K : new[k] \cap single[k] = {}
        /\ ~ input.disjoint => \A k \in K : new[k] \cup single[k] = {}
        /\ unit' = [k \in K |-> Taken(objectives[k], single[k])]
        /\ rest' = [k \in K |-> Left(objectives[k], new[k] \cup single[k])]
        /\ LET all == ForEach(Enc, LAMBDA S, k :
                        LET r == EncodeSorted(S, Taken(objectives[k], new[k]), <<>>)
                        IN  [r EXCEPT !.w = @ \o unit'[k]])
           IN  Adopt(all.s) /\ sorted' = all.ws
  BY DEF DisjointCores
<1>5. \A k \in K : new[k] \subseteq DOMAIN objectives[k] /\ single[k] \subseteq DOMAIN objectives[k]
  BY DEF CoreChoices
<1> DEFINE all == FirstAll(Enc, new)
<1>6. Adopt(all.s) /\ sorted' = all.ws
  BY <1>4 DEF FirstAll
<1>7. /\ EachDone(n, Enc, FirstOp(Enc, new, single), all)
      /\ \A k \in 1 .. n : \A T \in Above(Enc) : FirstOp(Enc, new, single)[k][T] = FirstOf(T, k, new, single)
  <2>1. objectives \in Seq(Seq(Names))
    BY <1>2
  <2>2. \A k \in K : new[k] \cap single[k] = {}
    BY <1>4
  <2>3. \A k \in K : new[k] \cap single[k] = {} /\ new[k] \subseteq DOMAIN objectives[k] /\ single[k] \subseteq DOMAIN objectives[k]
    BY <1>5, <2>2
  <2>4. unit' = [k \in K |-> Taken(objectives[k], single[k])]
    BY <1>4
  <2>5. \A k \in 1 .. Len(objectives) : \A T \in Above(Enc) : FirstOp(Enc, new, single)[k][T] = FirstOf(T, k, new, single)
    BY <1>3, <2>1, <2>3, <2>4, EachFirst
  <2>6. EachDone(Len(objectives), Enc, FirstOp(Enc, new, single), all)
    BY <1>3, <2>1, <2>3, <2>4, EachFirst
  <2> QED  BY <2>5, <2>6
<1> HIDE DEF all
<1> DEFINE op == FirstOp(Enc, new, single)
<1> HIDE DEF op
<1>8. /\ FiniteClauses(encoding')
      /\ \A k \in 1 .. n : \E T \in Above(Enc) : op[k][T].s.hard \subseteq encoding' /\ sorted'[k] = op[k][T].w
  <2>1. EachDone(n, Enc, op, all)
    BY <1>7 DEF op
  <2> QED  BY <1>3, <1>6, <2>1, AdoptDone
<1>9. K = 1 .. n /\ K' = K
  <2>1. K = 1 .. n
    BY <1>2 DEF K
  <2>2. K' = K
    BY <1>1 DEF K
  <2> QED  BY <2>1, <2>2
<1>10. \A k \in 1 .. n : /\ objectives[k] \in Seq(Names)
                         /\ rest'[k] = Left(objectives[k], new[k] \cup single[k])
                         /\ unit'[k] = Taken(objectives[k], single[k])
  <2>1. unit' = [k \in K |-> Taken(objectives[k], single[k])]
    BY <1>4
  <2>2. rest' = [k \in K |-> Left(objectives[k], new[k] \cup single[k])]
    BY <1>4
  <2>3. \A k \in K : rest'[k] = Left(objectives[k], new[k] \cup single[k]) /\ unit'[k] = Taken(objectives[k], single[k])
    BY <2>1, <2>2
  <2>4. \A k \in 1 .. n : objectives[k] \in Seq(Names)
    BY <1>2
  <2> QED  BY <1>9, <2>3, <2>4
<1>11. ASSUME NEW k \in 1 .. n PROVE NetPart(objectives[k], encoding', sorted'[k], rest'[k], unit'[k])
  <2>1. PICK T \in Above(Enc) : op[k][T].s.hard \subseteq encoding' /\ sorted'[k] = op[k][T].w
    BY <1>8
  <2> DEFINE z == FirstOf(T, k, new, single)
             u == Taken(objectives[k], single[k])
             r == Left(objectives[k], new[k] \cup single[k])
  <2>2. z.s.hard \subseteq encoding' /\ sorted'[k] = z.w
    BY <1>7, <2>1 DEF op
  <2>3. NetPart(objectives[k], z.s.hard, z.w, r, u)
    <3>1. new[k] \cap single[k] = {} /\ new[k] \subseteq DOMAIN objectives[k] /\ single[k] \subseteq DOMAIN objectives[k]
      BY <1>4, <1>5, <1>9
    <3>2. T \in Solvers
      BY DEF Above
    <3> QED  BY <1>10, <3>1, <3>2, PartFirst DEF FirstOf
  <2> HIDE DEF z, u, r
  <2>4. NetPart(objectives[k], encoding', z.w, r, u)
    BY <2>2, <2>3, PartMore
  <2> QED  BY <1>10, <2>2, <2>4 DEF u, r
<1>12. ASSUME Plain', input.mode = "core_rebuild", NEW k \in 1 .. n PROVE unit'[k] = <<>>
  <2>1. ~ input.disjoint
    BY <1>1, <1>12 DEF Plain
  <2>2. single[k] \cap (1 .. Len(objectives[k])) = {}
    BY <1>4, <1>9, <2>1
  <2>3. Taken(objectives[k], single[k]) = <<>>
    BY <1>10, <2>2, TakenNone
  <2> QED  BY <1>10, <2>3
<1>13. Plain' => PartsRight'
  BY <1>1, <1>8, <1>9, <1>11, <1>12 DEF PartsRight, PartOf
<1>14. nbVars' \in Nat /\ pc' = "done"
  BY <1>1 DEF Counts
<1> QED  BY <1>13, <1>14 DEF NetInv

LEMMA NetInvNew == ASSUME NetInv, ObjInv, Counts, NewCores PROVE NetInv'
<1> DEFINE n == Len(objectives)
<1>1. /\ pc = "done" /\ solver.end = "" /\ nbVars # -1 /\ input.mode \in CoreModes
      /\ UNCHANGED <<input, pc, objectives, unit, nbVars>>
  BY DEF NewCores, Begun
<1>2. objectives \in Seq(Seq(Names)) /\ nbVars \in Nat
  BY <1>1 DEF NetInv, ObjInv
<1>3. Plain' <=> Plain
  BY <1>1 DEF Plain, Rebuilding, K
<1>4. SUFFICES ASSUME Plain PROVE PartsRight'
  BY <1>1, <1>2, <1>3 DEF NetInv
<1>5. FiniteClauses(encoding) /\ \A k \in K : PartOf(k) /\ (input.mode = "core_rebuild" => unit[k] = <<>>)
  BY <1>1, <1>4 DEF NetInv, PartsRight
<1>6. Enc \in Solvers /\ Enc.hard = encoding
  BY <1>1, <1>5, EncSolver
<1> DEFINE S == IF input.mode = "core_rebuild" THEN Reset(Enc) ELSE Enc
<1>7. S \in Solvers /\ (input.mode # "core_rebuild" => encoding \subseteq S.hard)
  <2>1. Reset(Enc) \in Solvers
    BY <1>2, <1>6, ResetSolver
  <2> QED  BY <1>6, <2>1
<1>8. PICK new \in CoreChoices(rest) :
        /\ rest' = [k \in K |-> Left(rest[k], new[k])]
        /\ LET Grow(T, k) ==
                 IF input.mode = "core_merge"
                 THEN MergeCoreGuided(T, Taken(rest[k], new[k]), sorted[k], unit[k])
                 ELSE Rebuild(T, k, rest'[k], new[k] # {})
               all == ForEach(IF input.mode = "core_rebuild" THEN Reset(Enc) ELSE Enc, Grow)
           IN  Adopt(all.s) /\ sorted' = all.ws
  BY DEF NewCores
<1>9. \A k \in K : new[k] \subseteq DOMAIN rest[k]
  BY DEF CoreChoices
<1> DEFINE all == ForEach(S, LAMBDA T, k :
                    IF input.mode = "core_merge" THEN MergeCoreGuided(T, Taken(rest[k], new[k]), sorted[k], unit[k])
                    ELSE Rebuild(T, k, rest'[k], new[k] # {}))
<1>10. Adopt(all.s) /\ sorted' = all.ws
  BY <1>8
<1> HIDE DEF S
<1>11. \A k \in K : /\ PartOf(k) /\ (Rebuilding => IsInjective(objectives[k]))
                    /\ input.mode = "core_rebuild" => unit[k] = <<>>
                    /\ new[k] \subseteq DOMAIN rest[k]
  BY <1>4, <1>5, <1>9 DEF Plain
<1>12. /\ EachDone(n, S, GrownOp(S, new), all)
       /\ \A k \in 1 .. n : \A T \in Above(S) : GrownOp(S, new)[k][T] = GrownOf(T, k, new)
  BY <1>1, <1>2, <1>7, <1>8, <1>11, EachGrown
<1> HIDE DEF all
<1> DEFINE op == GrownOp(S, new)
<1> HIDE DEF op
<1>13. /\ FiniteClauses(encoding')
       /\ \A k \in 1 .. n : \E T \in Above(S) : op[k][T].s.hard \subseteq encoding' /\ sorted'[k] = op[k][T].w
  <2>1. EachDone(n, S, op, all)
    BY <1>12 DEF op
  <2> QED  BY <1>7, <1>10, <2>1, AdoptDone
<1>14. K = 1 .. n /\ K' = K
  <2>1. K = 1 .. n
    BY <1>2 DEF K
  <2>2. K' = K
    BY <1>1 DEF K
  <2> QED  BY <2>1, <2>2
<1>15. \A k \in 1 .. n : objectives[k] \in Seq(Names) /\ rest'[k] = Left(rest[k], new[k])
  <2>1. rest' = [k \in K |-> Left(rest[k], new[k])]
    BY <1>8
  <2>2. \A k \in K : rest'[k] = Left(rest[k], new[k])
    BY <2>1
  <2>3. \A k \in 1 .. n : objectives[k] \in Seq(Names)
    BY <1>2
  <2> QED  BY <1>14, <2>2, <2>3
<1>16. ASSUME NEW k \in 1 .. n PROVE NetPart(objectives[k], encoding', sorted'[k], rest'[k], unit[k])
  <2>1. PICK T \in Above(S) : op[k][T].s.hard \subseteq encoding' /\ sorted'[k] = op[k][T].w
    BY <1>13
  <2> DEFINE z == GrownOf(T, k, new)
             l == Left(rest[k], new[k])
  <2>2. z.s.hard \subseteq encoding' /\ sorted'[k] = z.w
    BY <1>12, <2>1 DEF op
  <2>3. NetPart(objectives[k], z.s.hard, z.w, l, unit[k])
    <3>1. T \in Solvers /\ (input.mode # "core_rebuild" => encoding \subseteq T.hard)
      BY <1>7 DEF Above
    <3>2. /\ PartOf(k) /\ (Rebuilding => IsInjective(objectives[k]))
          /\ input.mode = "core_rebuild" => unit[k] = <<>>
          /\ new[k] \subseteq DOMAIN rest[k] /\ objectives[k] \in Seq(Names)
      BY <1>11, <1>14, <1>15
    <3> QED  BY <1>1, <3>1, <3>2, PartGrown
  <2> HIDE DEF z, l
  <2>4. NetPart(objectives[k], encoding', z.w, l, unit[k])
    BY <2>2, <2>3, PartMore
  <2> QED  BY <1>15, <2>2, <2>4 DEF l
<1> QED  BY <1>1, <1>5, <1>13, <1>14, <1>16 DEF PartsRight, PartOf

LEMMA NetInvNext == ASSUME NetInv, ObjInv, Counts, [NetNext]_allVars PROVE NetInv'
<1>1. CASE SortObjectives
  BY <1>1, NetInvSort
<1>2. CASE DisjointCores
  BY <1>2, NetInvDisjoint
<1>3. CASE NewCores
  BY <1>3, NetInvNew
<1>4. CASE FrontEndStep
  <2>1. Next /\ UNCHANGED netVars
    BY <1>4 DEF FrontEndStep
  <2>2. pc # "done"
    BY <2>1 DEF Next, ParseLine, ReadMcnfLine, AddHards, EncodePBs, EncodeCards, AddObjectives
  <2> QED  BY <2>1, <2>2 DEF NetInv, netVars
<1>5. CASE UNCHANGED allVars
  BY <1>5 DEF NetInv, Plain, PartsRight, PartOf, Rebuilding, K, allVars, vars, netVars
<1> QED  BY <1>1, <1>2, <1>3, <1>4, <1>5 DEF NetNext

(* The outputs of the networks are their inputs sorted, for objectives of   *)
(* every length, every order in which cores are found, and every value of   *)
(* the variables, and unit propagation finds it out.  Counts says that the  *)
(* encoders, which are parameters, leave the counter of the ids a number;   *)
(* Plain leaves the two known issues out: a variable that is repeated in an *)
(* objective whose network is built again, and core_rebuild with unit cores.*)
THEOREM NetworksSort == NetSpec /\ []Counts => [](Plain => OutputsSorted)
<1>1. NetInit => ParseInv /\ ObjInv /\ NetInv
  BY ParseInvInit, ObjInvInit DEF NetInit, NetInv
<1>2. ParseInv /\ ObjInv /\ NetInv /\ Counts /\ [NetNext]_allVars => (ParseInv /\ ObjInv /\ NetInv)'
  BY ParseInvNetNext, ObjInvNext, NetInvNext
<1>3. ObjInv /\ NetInv => (Plain => OutputsSorted)
  <2> SUFFICES ASSUME ObjInv, NetInv, Plain, nbVars # -1, NEW k \in K, NEW B \in SUBSET Range(objectives[k]),
                      Range(unit[k]) \subseteq B
               PROVE  LET L == Propagated(encoding \cup {{IF v \in B THEN v ELSE -v} : v \in Range(objectives[k])})
                          n == Len(sorted[k])
                          true == Count(objectives[k], B) - Count(rest[k], B)
                      IN  /\ n = Len(objectives[k]) - Len(rest[k])
                          /\ \A i \in 1 .. n : (IF i > n - true THEN sorted[k][i] ELSE -sorted[k][i]) \in L
    BY DEF OutputsSorted
  <2>1. FiniteClauses(encoding) /\ NetPart(objectives[k], encoding, sorted[k], rest[k], unit[k])
    BY DEF NetInv, PartsRight, PartOf
  <2>2. objectives[k] \in Seq(Names)
    BY DEF ObjInv, K
  <2>3. LET L == Propagated(encoding \cup Units(objectives[k], B))
            n == Len(sorted[k])
            true == Count(objectives[k], B) - Count(rest[k], B)
        IN  /\ n = Len(objectives[k]) - Len(rest[k])
            /\ \A i \in 1 .. n : (IF i > n - true THEN sorted[k][i] ELSE -sorted[k][i]) \in L
    BY <2>1, <2>2, PartShown
  <2> QED  BY <2>3 DEF Units
<1> QED  BY <1>1, <1>2, <1>3, PTL DEF NetSpec

-----------------------------------------------------------------------------
(* The variables of the objectives are those the solver has when optimise   *)
(* is called, and the networks restrict nothing that they can be.           *)

LEMMA GrownAdds ==
  ASSUME NEW k, input.mode \in CoreModes, Rebuilding => IsInjective(objectives[k]), PartOf(k),
         input.mode = "core_rebuild" => unit[k] = <<>>,
         NEW T \in Solvers, Within(T.hard, T.id),
         objectives[k] \in Seq(1 .. T.id), rest[k] \in Seq(1 .. T.id), unit[k] \in Seq(1 .. T.id),
         input.mode # "core_rebuild" => sorted[k] \in Seq(1 .. T.id),
         NEW new, new[k] \subseteq DOMAIN rest[k]
  PROVE  Adds(T, GrownOf(T, k, new))
<1>1. NetPart(objectives[k], encoding, sorted[k], rest[k], unit[k])
  BY DEF PartOf
<1>2. CASE input.mode = "core_merge"
  <2>1. GrownOf(T, k, new) = MergeCoreGuided(T, Taken(rest[k], new[k]), sorted[k], unit[k])
    BY <1>2 DEF GrownOf
  <2>2. PICK xs \in Seq(Names), p \in Seq(Names) : sorted[k] = p \o unit[k]
    BY <1>1 DEF NetPart, SortedPart
  <2>3. sorted[k] \in Seq(1 .. T.id)
    BY <1>2
  <2>4. Adds(T, MergeCoreGuided(T, Taken(rest[k], new[k]), sorted[k], unit[k]))
    BY <2>2, <2>3, MergedPartAdds
  <2> QED  BY <2>1, <2>4
<1>3. CASE input.mode # "core_merge"
  <2>1. GrownOf(T, k, new) = Rebuild(T, k, Left(rest[k], new[k]), new[k] # {})
    BY <1>3 DEF GrownOf
  <2>2. IsInjective(objectives[k])
    BY <1>3 DEF CoreModes, Rebuilding
  <2>3. Adds(T, Rebuild(T, k, Left(rest[k], new[k]), new[k] # {}))
    BY <1>1, <2>2, RebuiltAdds
  <2> QED  BY <2>1, <2>3
<1> QED  BY <1>2, <1>3

LEMMA AddSoftUpTo ==
  ASSUME NEW S, "id" \in DOMAIN S, S.id \in Nat, NEW softs \in Seq(SoftClauses)
  PROVE  LET a == AddSoft(S, softs)
         IN  a.solver.id \in Nat /\ S.id <= a.solver.id /\ a.objective \in Seq(1 .. a.solver.id)
<1> DEFINE n == Len(softs)
           m == Max({S.id} \cup {AbsLit(l) : l \in UNION {ToSet(softs[i].lits) : i \in DOMAIN softs}})
           T == [S EXCEPT !.id = m]
           new == Fresh(T, n)
           Z == Skip(T, n)
           cs == {ToSet(softs[i].lits) \cup {new[i]} : i \in DOMAIN softs}
           R == Add(Z, cs)
           top == m + n
<1>1. n \in Nat /\ DOMAIN softs = 1 .. n /\ \A i \in 1 .. n : IsFiniteSet(ToSet(softs[i].lits)) /\ ToSet(softs[i].lits) \subseteq Literals
  BY SoftLits
<1>2. AddSoft(S, softs) = [solver |-> R, objective |-> Repeated(softs, new)]
  BY DEF AddSoft
<1>3. m \in Nat /\ S.id <= m
  BY SoftIds
<1> HIDE DEF m, n
<1>4. T.id = m /\ "id" \in DOMAIN T
  OBVIOUS
<1> HIDE DEF T
<1>5. Z.id = top /\ "id" \in DOMAIN Z
  BY <1>4 DEF Skip
<1>6. new = [i \in 1 .. n |-> m + i]
  BY <1>4 DEF Fresh
<1> HIDE DEF Z, new
<1>7. \A i \in 1 .. n : new[i] \in 1 .. top /\ new[i] \in Int
  BY <1>1, <1>3, <1>6
<1>8. top \in Nat /\ S.id <= top
  BY <1>1, <1>3
<1> HIDE DEF top
<1>9. Repeated(softs, new) \in Seq(1 .. top)
  <2> DEFINE D == 1 .. top
  <2>1. \A i \in 1 .. n : new[i] \in D
    BY <1>7
  <2> HIDE DEF D
  <2>2. new \in Seq(D) /\ Len(new) = Len(softs)
    BY <1>1, <1>6, <2>1 DEF n
  <2>3. Repeated(softs, new) \in Seq(D)
    BY <2>2, RepeatedTyped
  <2> QED  BY <2>3 DEF D
<1>10. R.id \in Nat /\ top <= R.id
  <2> DEFINE f == [i \in 1 .. n |-> ToSet(softs[i].lits) \cup {new[i]}]
             mx == Max({top} \cup Vars(cs))
  <2>1. \A i \in 1 .. n : IsFiniteSet(f[i]) /\ f[i] \subseteq Int
    BY <1>1, <1>7, FS_AddElement DEF Literals
  <2>2. cs = {f[i] : i \in 1 .. n}
    BY <1>1
  <2> HIDE DEF f, cs
  <2>3. mx \in Nat /\ top <= mx
    BY <1>1, <1>8, <2>1, <2>2, IdsMax DEF Vars
  <2> HIDE DEF mx
  <2>4. R.id = top \/ R.id = mx
    <3>1. ASSUME NEW e PROVE [Z EXCEPT !.end = e].id = Z.id
      BY <1>5
    <3>2. ASSUME NEW h, NEW i PROVE [Z EXCEPT !.hard = h, !.id = i].id = i
      BY <1>5
    <3>3. CASE R = Z
      BY <1>5, <3>3
    <3>4. CASE R = [Z EXCEPT !.end = "abort"]
      BY <1>5, <3>1, <3>4
    <3>5. CASE R = [Z EXCEPT !.end = "exit"]
      BY <1>5, <3>1, <3>5
    <3>6. CASE R = [Z EXCEPT !.hard = Z.hard \cup cs, !.id = mx]
      BY <3>2, <3>6
    <3>7. R = Z \/ R = [Z EXCEPT !.end = "abort"] \/ R = [Z EXCEPT !.end = "exit"] \/ R = [Z EXCEPT !.hard = Z.hard \cup cs, !.id = mx]
      BY <1>5 DEF Add, mx
    <3> QED  BY <3>3, <3>4, <3>5, <3>6, <3>7
  <2> QED  BY <1>8, <2>3, <2>4
<1> HIDE DEF R
<1>11. Repeated(softs, new) \in Seq(1 .. R.id)
  BY <1>8, <1>9, <1>10, UpToNames
<1>12. AddSoft(S, softs).solver = R /\ AddSoft(S, softs).objective = Repeated(softs, new)
  BY <1>2
<1>13. S.id <= R.id
  BY <1>8, <1>10
<1> QED  BY <1>10, <1>11, <1>12, <1>13

LEMMA EncId == Enc.id = solver.id
<1>1. Enc = SolverOf(encoding, solver.id, solver.end)
  BY EncIs DEF Enc, EncOf
<1> QED  BY <1>1 DEF SolverOf

Top == IF nbVars = -1 THEN solver.id ELSE nbVars

EveryValue == \A B : \E C : Satisfies(C, encoding) /\ Same(B, C, nbVars)

\* the inputs of the networks are variables the solver had before, the outputs
\* are any variables
PartFits(k) == sorted[k] \in Seq(1 .. solver.id) /\ rest[k] \in Seq(1 .. nbVars) /\ unit[k] \in Seq(1 .. nbVars)

Free == nbVars <= solver.id /\ Within(encoding, solver.id) /\ EveryValue /\ \A k \in K : PartFits(k)

FreeInv ==
  /\ \A k \in K : objectives[k] \in Seq(1 .. Top)
  /\ pc \notin {"soft", "done"} => objectives = <<>>
  /\ nbVars # -1 /\ Plain => Free

LEMMA AdoptFree ==
  ASSUME Counts, NEW S \in Solvers, NEW n, NEW op, NEW r, EachDone(n, S, op, r), Adding(n, S, op), Adopt(r.s), sorted' = r.ws
  PROVE  /\ solver'.id \in Nat /\ S.id <= solver'.id /\ Within(encoding', solver'.id)
         /\ \A k \in 1 .. n : sorted'[k] \in Seq(1 .. solver'.id)
         /\ \A B : Satisfies(B, S.hard) => \E C : Satisfies(C, encoding') /\ Same(B, C, S.id)
<1> DEFINE T == r.s
<1>1. T \in Solvers /\ AllAdded(n, S, r)
  BY DEF EachDone, Above
<1>2. encoding' = T.hard /\ solver' = [solver EXCEPT !.id = T.id, !.end = T.end]
  BY DEF Adopt
<1>3. solver'.id = T.id
  <2>1. "id" \in DOMAIN solver
    BY DEF Counts
  <2> HIDE DEF T
  <2> QED  BY <1>2, <2>1
<1>4. Enlarges(S, T) /\ \A k \in 1 .. n : sorted'[k] \in Seq(1 .. T.id)
  BY <1>1 DEF AllAdded
<1> HIDE DEF T
<1>5. T.id \in Nat
  BY <1>1, SolverParts
<1> QED  BY <1>2, <1>3, <1>4, <1>5 DEF Enlarges

LEMMA NoneWithin == ASSUME NEW id PROVE Within({}, id) /\ \A B : Satisfies(B, {})
BY DEF Within, Satisfies

LEMMA FreeInit == ASSUME Init, nbVars = -1 PROVE FreeInv
<1>1. objectives = <<>> /\ K = {}
  BY DEF Init, K
<1> QED  BY <1>1 DEF FreeInv

LEMMA FreeAdd == ASSUME ParseInv, ObjInv, NetInv, Counts, FreeInv, FrontEndStep, AddObjectives PROVE FreeInv'
<1>1. pc = "soft" /\ nbVars = -1 /\ nbVars' = -1 /\ pc' \in {"soft", "done"}
  <2>1. pc = "soft" /\ nbVars' = nbVars
    BY DEF AddObjectives, FrontEndStep, netVars
  <2>2. pc' \in {"soft", "done"}
    <3>1. pc' = "done" \/ Advance("done", Len(formula.objs))
      BY DEF AddObjectives
    <3> QED  BY <2>1, <3>1, AdvanceTo
  <2> QED  BY <2>1, <2>2 DEF NetInv
<1>2. SUFFICES \A k \in K' : objectives'[k] \in Seq(1 .. solver'.id)
  BY <1>1 DEF FreeInv, Top
<1>3. \A k \in K : objectives[k] \in Seq(1 .. solver.id)
  BY <1>1 DEF FreeInv, Top
<1>4. objectives \in Seq(Seq(Names))
  BY DEF ObjInv
<1>5. CASE formula.objs = <<>>
  <2>1. UNCHANGED <<solver, objectives>>
    BY <1>5 DEF AddObjectives
  <2> QED  BY <1>3, <2>1 DEF K
<1>6. CASE formula.objs # <<>>
  <2> DEFINE add == AddSoft(solver, Softs(pos))
             o == add.objective
             e == IF input.format = "mcnf" /\ Len(formula.objs) = 1 THEN <<<<>>>> ELSE <<>>
             X == Seq(1 .. solver'.id)
  <2>1. objectives' = objectives \o <<o>> \o e /\ solver' = add.solver
    BY <1>6 DEF AddObjectives
  <2>2. ObjsTyped(input.format, formula)
    BY DEF ObjInv
  <2>3. formula.objs \in Seq(OpbObjs) \/ formula.objs \in Seq(Seq(SoftClauses))
    BY <2>2 DEF ObjsTyped, Objs
  <2>4. Len(formula.objs) \in Nat /\ Len(formula.objs) >= 1
    BY <1>6, <2>3
  <2>5. pos \in 1 .. Len(formula.objs)
    <3>1. pos \in Nat \ {0} /\ (pos = 1 \/ pos <= Len(formula.objs))
      BY <1>1 DEF ObjInv, ParseInv
    <3> QED  BY <2>4, <3>1
  <2>6. Softs(pos) \in Seq(SoftClauses)
    BY <2>2, <2>5, SoftsTyped
  <2>7. add.solver.id \in Nat /\ solver.id <= add.solver.id /\ o \in Seq(1 .. add.solver.id)
    BY <2>6, AddSoftUpTo DEF Counts
  <2> HIDE DEF add
  <2>8. o \in X /\ solver'.id \in Nat /\ solver.id <= solver'.id
    BY <2>1, <2>7
  <2>9. \A k \in K : objectives[k] \in X
    BY <1>3, <2>8, UpToNames DEF Counts
  <2> HIDE DEF o
  <2>10. <<>> \in X
    BY NoneUpTo
  <2> HIDE DEF X
  <2>11. e \in Seq(X)
    BY <2>10
  <2> HIDE DEF e
  <2>12. objectives \in Seq(X)
    <3> DEFINE Y == Seq(Names)
    <3>1. objectives \in Seq(Y)
      BY <1>4
    <3> HIDE DEF Y
    <3> QED  BY <2>9, <3>1 DEF K
  <2>13. objectives' \in Seq(X)
    BY <2>1, <2>8, <2>11, <2>12
  <2>14. \A k \in K' : objectives'[k] \in X
    BY <2>13 DEF K
  <2> QED  BY <2>14 DEF X
<1> QED  BY <1>5, <1>6

LEMMA FreeFrontEnd == ASSUME ParseInv, ObjInv, NetInv, Counts, FreeInv, FrontEndStep PROVE FreeInv'
<1>1. CASE AddObjectives
  BY <1>1, FreeAdd
<1>2. CASE ~ AddObjectives
  <2>1. Next /\ nbVars' = nbVars
    BY DEF FrontEndStep, netVars
  <2>2. ParseLine \/ ReadMcnfLine \/ AddHards \/ EncodePBs \/ EncodeCards
    BY <1>2, <2>1 DEF Next
  <2>3. objectives' = objectives /\ pc \notin {"soft", "done"}
    BY <2>2 DEF ParseLine, ReadMcnfLine, AddHards, EncodePBs, EncodeCards
  <2>4. objectives' = <<>> /\ nbVars' = -1
    BY <2>1, <2>3 DEF FreeInv, NetInv
  <2>5. K' = {}
    BY <2>4 DEF K
  <2> QED  BY <2>4, <2>5 DEF FreeInv
<1> QED  BY <1>1, <1>2

LEMMA EncFrom ==
  ASSUME Counts, solver.end = "", FiniteClauses(encoding)
  PROVE  Enc \in Solvers /\ Enc.hard = encoding /\ Enc.id = solver.id /\ solver.id \in Nat
BY EncSolver, EncId DEF Counts

LEMMA FreeAfter ==
  ASSUME UNCHANGED <<pc, objectives>>, pc = "done", nbVars' # -1, \A k \in K : objectives[k] \in Seq(1 .. nbVars'),
         Plain' => Free'
  PROVE  FreeInv'
BY DEF FreeInv, Top, K

LEMMA FreeSort == ASSUME NetInv, ObjInv, Counts, FreeInv, SortObjectives PROVE FreeInv'
<1> DEFINE n == Len(objectives)
           op == StaticOp(Enc)
           all == ForEach(Enc, LAMBDA S, k : EncodeSorted(S, objectives[k], <<>>))
<1>1. /\ pc = "done" /\ solver.end = "" /\ nbVars = -1
      /\ nbVars' = solver.id /\ rest' = Empty /\ unit' = Empty
      /\ UNCHANGED <<input, pc, objectives>>
  BY DEF SortObjectives, Begun
<1>2. encoding = {} /\ objectives \in Seq(Seq(Names))
  BY <1>1 DEF NetInv, ObjInv
<1>3. Enc \in Solvers /\ Enc.hard = {} /\ Enc.id = solver.id /\ solver.id \in Nat
  BY <1>1, <1>2, EncFrom, NoClauses
<1>4. Adopt(all.s) /\ sorted' = all.ws
  BY DEF SortObjectives
<1>5. EachDone(n, Enc, op, all) /\ \A k \in 1 .. n : \A T \in Above(Enc) : op[k][T] = EncodeSorted(T, objectives[k], <<>>)
  BY <1>2, <1>3, EachStatic
<1>6. \A k \in K : objectives[k] \in Seq(1 .. solver.id)
  BY <1>1 DEF FreeInv, Top
<1>7. K = 1 .. n
  BY <1>2 DEF K
<1> HIDE DEF all, op
<1>8. Adding(n, Enc, op)
  <2>1. ASSUME NEW k \in 1 .. n, NEW T \in Above(Enc), Enlarges(Enc, T) PROVE Adds(T, op[k][T])
    <3>1. T \in Solvers /\ T.id \in Nat /\ solver.id <= T.id /\ Within(T.hard, T.id)
      BY <1>3, <2>1, SolverParts DEF Above, Enlarges
    <3>2. objectives[k] \in Seq(1 .. T.id) /\ <<>> \in Seq(1 .. T.id)
      BY <1>3, <1>6, <1>7, <3>1, UpToNames, NoneUpTo
    <3>3. Adds(T, EncodeSorted(T, objectives[k], <<>>))
      BY <3>1, <3>2, EncodeSortedAdds
    <3> QED  BY <1>5, <3>3
  <2>2. Within(Enc.hard, Enc.id)
    BY <1>3, NoneWithin
  <2> HIDE DEF n
  <2> QED  BY <2>1, <2>2 DEF Adding
<1>9. /\ solver'.id \in Nat /\ Enc.id <= solver'.id /\ Within(encoding', solver'.id)
      /\ \A k \in 1 .. n : sorted'[k] \in Seq(1 .. solver'.id)
      /\ \A B : Satisfies(B, Enc.hard) => \E C : Satisfies(C, encoding') /\ Same(B, C, Enc.id)
  <2> HIDE DEF n
  <2> QED  BY <1>3, <1>4, <1>5, <1>8, AdoptFree
<1>10. EveryValue'
  BY <1>1, <1>3, <1>9, NoneWithin DEF EveryValue
<1>11. \A k \in K : rest'[k] = <<>> /\ unit'[k] = <<>>
  BY <1>1 DEF Empty
<1>12. \A k \in K' : PartFits(k)'
  <2>1. K' = K
    BY <1>1 DEF K
  <2> HIDE DEF n
  <2> QED  BY <1>7, <1>9, <1>11, <2>1, NoneUpTo DEF PartFits
<1>13. Free'
  BY <1>1, <1>3, <1>9, <1>10, <1>12 DEF Free
<1>14. nbVars' # -1
  <2>1. nbVars' = solver.id /\ solver.id \in Nat
    BY <1>1, <1>3
  <2> QED  BY <2>1
<1>15. \A k \in K : objectives[k] \in Seq(1 .. nbVars')
  BY <1>1, <1>6
<1> QED  BY <1>1, <1>13, <1>14, <1>15, FreeAfter

LEMMA FreeDisjoint == ASSUME NetInv, ObjInv, Counts, FreeInv, DisjointCores PROVE FreeInv'
<1> DEFINE n == Len(objectives)
<1>1. /\ pc = "done" /\ solver.end = "" /\ nbVars = -1
      /\ nbVars' = solver.id /\ UNCHANGED <<input, pc, objectives>>
  BY DEF DisjointCores, Begun
<1>2. encoding = {} /\ objectives \in Seq(Seq(Names))
  BY <1>1 DEF NetInv, ObjInv
<1>3. Enc \in Solvers /\ Enc.hard = {} /\ Enc.id = solver.id /\ solver.id \in Nat
  BY <1>1, <1>2, EncFrom, NoClauses
<1>4. PICK new, single \in CoreChoices(objectives) :
        /\ \A k \in K : new[k] \cap single[k] = {}
        /\ unit' = [k \in K |-> Taken(objectives[k], single[k])]
        /\ rest' = [k \in K |-> Left(objectives[k], new[k] \cup single[k])]
        /\ LET all == ForEach(Enc, LAMBDA S, k :
                        LET r == EncodeSorted(S, Taken(objectives[k], new[k]), <<>>)
                        IN  [r EXCEPT !.w = @ \o unit'[k]])
           IN  Adopt(all.s) /\ sorted' = all.ws
  BY DEF DisjointCores
<1>5. \A k \in K : new[k] \cap single[k] = {} /\ new[k] \subseteq DOMAIN objectives[k] /\ single[k] \subseteq DOMAIN objectives[k]
  BY <1>4 DEF CoreChoices
<1> DEFINE all == FirstAll(Enc, new)
           op == FirstOp(Enc, new, single)
<1>6. Adopt(all.s) /\ sorted' = all.ws
  BY <1>4 DEF FirstAll
<1>7. EachDone(n, Enc, op, all) /\ \A k \in 1 .. n : \A T \in Above(Enc) : op[k][T] = FirstOf(T, k, new, single)
  <2>1. objectives \in Seq(Seq(Names))
    BY <1>2
  <2>2. unit' = [k \in K |-> Taken(objectives[k], single[k])]
    BY <1>4
  <2>3. \A k \in 1 .. Len(objectives) : \A T \in Above(Enc) : FirstOp(Enc, new, single)[k][T] = FirstOf(T, k, new, single)
    BY <1>3, <1>5, <2>1, <2>2, EachFirst
  <2>4. EachDone(Len(objectives), Enc, FirstOp(Enc, new, single), FirstAll(Enc, new))
    BY <1>3, <1>5, <2>1, <2>2, EachFirst
  <2> QED  BY <2>3, <2>4
<1>8. \A k \in K : objectives[k] \in Seq(1 .. solver.id)
  BY <1>1 DEF FreeInv, Top
<1>9. K = 1 .. n
  BY <1>2 DEF K
<1> HIDE DEF all, op
<1>10. Adding(n, Enc, op)
  <2>1. ASSUME NEW k \in 1 .. n, NEW T \in Above(Enc), Enlarges(Enc, T) PROVE Adds(T, op[k][T])
    <3>1. T \in Solvers /\ T.id \in Nat /\ solver.id <= T.id /\ Within(T.hard, T.id)
      BY <1>3, <2>1, SolverParts DEF Above, Enlarges
    <3>2. objectives[k] \in Seq(1 .. T.id)
      BY <1>3, <1>8, <1>9, <3>1, UpToNames
    <3>3. Adds(T, FirstOf(T, k, new, single))
      BY <3>1, <3>2, FirstAdds DEF FirstOf
    <3> QED  BY <1>7, <3>3
  <2>2. Within(Enc.hard, Enc.id)
    BY <1>3, NoneWithin
  <2> HIDE DEF n
  <2> QED  BY <2>1, <2>2 DEF Adding
<1>11. /\ solver'.id \in Nat /\ Enc.id <= solver'.id /\ Within(encoding', solver'.id)
       /\ \A k \in 1 .. n : sorted'[k] \in Seq(1 .. solver'.id)
       /\ \A B : Satisfies(B, Enc.hard) => \E C : Satisfies(C, encoding') /\ Same(B, C, Enc.id)
  <2> HIDE DEF n
  <2> QED  BY <1>3, <1>6, <1>7, <1>10, AdoptFree
<1>12. EveryValue'
  BY <1>1, <1>3, <1>11, NoneWithin DEF EveryValue
<1>13. \A k \in K : rest'[k] \in Seq(1 .. nbVars') /\ unit'[k] \in Seq(1 .. nbVars')
  <2>1. unit' = [k \in K |-> Taken(objectives[k], single[k])]
    BY <1>4
  <2>2. rest' = [k \in K |-> Left(objectives[k], new[k] \cup single[k])]
    BY <1>4
  <2>3. ASSUME NEW k \in K PROVE rest'[k] \in Seq(1 .. nbVars') /\ unit'[k] \in Seq(1 .. nbVars')
    <3>1. rest'[k] = Left(objectives[k], new[k] \cup single[k]) /\ unit'[k] = Taken(objectives[k], single[k])
      BY <2>1, <2>2
    <3>2. \A P : Taken(objectives[k], P) \in Seq(1 .. solver.id)
      BY <1>3, <1>8, TakenUpTo
    <3> QED  BY <1>1, <3>1, <3>2 DEF Left
  <2> QED  BY <2>3
<1>14. \A k \in K' : PartFits(k)'
  <2>1. K' = K
    BY <1>1 DEF K
  <2> HIDE DEF n
  <2> QED  BY <1>9, <1>11, <1>13, <2>1 DEF PartFits
<1>15. Free'
  BY <1>1, <1>3, <1>11, <1>12, <1>14 DEF Free
<1>16. nbVars' # -1
  <2>1. nbVars' = solver.id /\ solver.id \in Nat
    BY <1>1, <1>3
  <2> QED  BY <2>1
<1>17. \A k \in K : objectives[k] \in Seq(1 .. nbVars')
  BY <1>1, <1>8
<1> QED  BY <1>1, <1>15, <1>16, <1>17, FreeAfter

LEMMA FreeNew == ASSUME NetInv, ObjInv, Counts, FreeInv, NewCores PROVE FreeInv'
<1> DEFINE n == Len(objectives)
<1>1. /\ pc = "done" /\ solver.end = "" /\ nbVars # -1 /\ input.mode \in CoreModes
      /\ UNCHANGED <<input, pc, objectives, unit, nbVars>>
  BY DEF NewCores, Begun
<1>2. objectives \in Seq(Seq(Names)) /\ nbVars \in Nat
  BY <1>1 DEF NetInv, ObjInv
<1>3. Plain' <=> Plain
  BY <1>1 DEF Plain, Rebuilding, K
<1>4. \A k \in K : objectives[k] \in Seq(1 .. nbVars)
  BY <1>1 DEF FreeInv, Top
<1>5. SUFFICES ASSUME Plain PROVE Free'
  BY <1>1, <1>3, <1>4, FreeAfter
<1>6. FiniteClauses(encoding) /\ \A k \in K : PartOf(k) /\ (input.mode = "core_rebuild" => unit[k] = <<>>)
  BY <1>1, <1>5 DEF NetInv, PartsRight
<1>7. nbVars <= solver.id /\ Within(encoding, solver.id) /\ EveryValue /\ \A k \in K : PartFits(k)
  BY <1>1, <1>5 DEF FreeInv, Free
<1>8. Enc \in Solvers /\ Enc.hard = encoding /\ Enc.id = solver.id /\ solver.id \in Nat
  BY <1>1, <1>6, EncFrom
<1> DEFINE S == IF input.mode = "core_rebuild" THEN Reset(Enc) ELSE Enc
<1>9. /\ S \in Solvers /\ S.id \in Nat /\ nbVars <= S.id /\ Within(S.hard, S.id)
      /\ input.mode # "core_rebuild" => S.hard = encoding /\ S.id = solver.id
      /\ input.mode = "core_rebuild" => S.hard = {}
  <2>1. Reset(Enc) \in Solvers /\ Reset(Enc).hard = {} /\ Reset(Enc).id \in Nat /\ nbVars <= Reset(Enc).id
    BY <1>2, <1>8, ResetSolver
  <2>2. CASE input.mode = "core_rebuild"
    BY <2>1, <2>2, NoneWithin
  <2>3. CASE input.mode # "core_rebuild"
    BY <1>7, <1>8, <2>3
  <2> QED  BY <2>2, <2>3
<1>10. PICK new \in CoreChoices(rest) :
        /\ rest' = [k \in K |-> Left(rest[k], new[k])]
        /\ LET Grow(T, k) ==
                 IF input.mode = "core_merge"
                 THEN MergeCoreGuided(T, Taken(rest[k], new[k]), sorted[k], unit[k])
                 ELSE Rebuild(T, k, rest'[k], new[k] # {})
               all == ForEach(IF input.mode = "core_rebuild" THEN Reset(Enc) ELSE Enc, Grow)
           IN  Adopt(all.s) /\ sorted' = all.ws
  BY DEF NewCores
<1> DEFINE all == ForEach(S, LAMBDA T, k :
                    IF input.mode = "core_merge" THEN MergeCoreGuided(T, Taken(rest[k], new[k]), sorted[k], unit[k])
                    ELSE Rebuild(T, k, rest'[k], new[k] # {}))
<1>11. Adopt(all.s) /\ sorted' = all.ws
  BY <1>10
<1> HIDE DEF S
<1>12. \A k \in K : /\ PartOf(k) /\ (Rebuilding => IsInjective(objectives[k]))
                    /\ input.mode = "core_rebuild" => unit[k] = <<>>
                    /\ new[k] \subseteq DOMAIN rest[k]
  BY <1>5, <1>6 DEF Plain, CoreChoices
<1>13. /\ EachDone(n, S, GrownOp(S, new), all)
       /\ \A k \in 1 .. n : \A T \in Above(S) : GrownOp(S, new)[k][T] = GrownOf(T, k, new)
  <2>1. input.mode # "core_rebuild" => encoding \subseteq S.hard
    BY <1>9
  <2> QED  BY <1>1, <1>2, <1>9, <1>10, <1>12, <2>1, EachGrown
<1> HIDE DEF all
<1> DEFINE op == GrownOp(S, new)
<1> HIDE DEF op
<1>14. K = 1 .. n /\ K' = K
  <2>1. K = 1 .. n
    BY <1>2 DEF K
  <2>2. K' = K
    BY <1>1 DEF K
  <2> QED  BY <2>1, <2>2
<1>15. Adding(n, S, op)
  <2>1. ASSUME NEW k \in 1 .. n, NEW T \in Above(S), Enlarges(S, T) PROVE Adds(T, op[k][T])
    <3>1. T \in Solvers /\ T.id \in Nat /\ S.id <= T.id /\ Within(T.hard, T.id)
      BY <1>9, <2>1, SolverParts DEF Above, Enlarges
    <3>2. nbVars <= T.id /\ (input.mode # "core_rebuild" => solver.id <= T.id)
      BY <1>2, <1>9, <3>1
    <3>3. /\ sorted[k] \in Seq(1 .. solver.id) /\ rest[k] \in Seq(1 .. nbVars) /\ unit[k] \in Seq(1 .. nbVars)
          /\ objectives[k] \in Seq(1 .. nbVars)
      BY <1>4, <1>7, <1>14 DEF PartFits
    <3>4. rest[k] \in Seq(1 .. T.id) /\ unit[k] \in Seq(1 .. T.id) /\ objectives[k] \in Seq(1 .. T.id)
      BY <1>2, <3>1, <3>2, <3>3, UpToNames
    <3>5. input.mode # "core_rebuild" => sorted[k] \in Seq(1 .. T.id)
      BY <1>8, <3>1, <3>2, <3>3, UpToNames
    <3>6. /\ PartOf(k) /\ (Rebuilding => IsInjective(objectives[k]))
          /\ input.mode = "core_rebuild" => unit[k] = <<>>
          /\ new[k] \subseteq DOMAIN rest[k]
      BY <1>12, <1>14
    <3>7. Adds(T, GrownOf(T, k, new))
      BY <1>1, <3>1, <3>4, <3>5, <3>6, GrownAdds
    <3>8. op[k][T] = GrownOf(T, k, new)
      BY <1>13 DEF op
    <3> QED  BY <3>7, <3>8
  <2> HIDE DEF n
  <2> QED  BY <1>9, <2>1 DEF Adding
<1>16. /\ solver'.id \in Nat /\ S.id <= solver'.id /\ Within(encoding', solver'.id)
       /\ \A k \in 1 .. n : sorted'[k] \in Seq(1 .. solver'.id)
       /\ \A B : Satisfies(B, S.hard) => \E C : Satisfies(C, encoding') /\ Same(B, C, S.id)
  <2>1. EachDone(n, S, op, all)
    BY <1>13 DEF op
  <2> HIDE DEF n
  <2> QED  BY <1>9, <1>11, <1>15, <2>1, AdoptFree
<1>17. EveryValue'
  <2>1. ASSUME NEW B PROVE \E C : Satisfies(C, encoding') /\ Same(B, C, nbVars)
    <3>1. PICK A : Satisfies(A, S.hard) /\ Same(B, A, nbVars)
      <4>1. CASE input.mode = "core_rebuild"
        <5>1. Satisfies(B, S.hard)
          BY <1>9, <4>1, NoneWithin
        <5>2. Same(B, B, nbVars)
          BY DEF Same
        <5> QED  BY <5>1, <5>2
      <4>2. CASE input.mode # "core_rebuild"
        <5>1. S.hard = encoding
          BY <1>9, <4>2
        <5> QED  BY <1>7, <5>1 DEF EveryValue
      <4> QED  BY <4>1, <4>2
    <3>2. PICK C : Satisfies(C, encoding') /\ Same(A, C, S.id)
      BY <1>16, <3>1
    <3>3. \A v \in 0 .. nbVars : v \in 0 .. S.id
      BY <1>2, <1>9
    <3>4. Same(B, C, nbVars)
      BY <3>1, <3>2, <3>3 DEF Same
    <3> QED  BY <3>2, <3>4
  <2> QED  BY <1>1, <2>1 DEF EveryValue
<1>18. \A k \in K' : PartFits(k)'
  <2>1. ASSUME NEW k \in K PROVE rest'[k] \in Seq(1 .. nbVars) /\ unit'[k] \in Seq(1 .. nbVars)
    <3>1. rest'[k] = Left(rest[k], new[k]) /\ unit'[k] = unit[k]
      BY <1>1, <1>10
    <3>2. rest[k] \in Seq(1 .. nbVars) /\ unit[k] \in Seq(1 .. nbVars)
      BY <1>7 DEF PartFits
    <3>3. \A P : Taken(rest[k], P) \in Seq(1 .. nbVars)
      BY <1>2, <3>2, TakenUpTo
    <3> QED  BY <3>1, <3>2, <3>3 DEF Left
  <2> HIDE DEF n
  <2> QED  BY <1>1, <1>14, <1>16, <2>1 DEF PartFits
<1>19. nbVars' <= solver'.id
  <2>1. nbVars' = nbVars /\ nbVars \in Nat /\ nbVars <= S.id /\ S.id \in Nat
    BY <1>1, <1>2, <1>9
  <2>2. S.id <= solver'.id /\ solver'.id \in Nat
    BY <1>16
  <2> QED  BY <2>1, <2>2
<1> QED  BY <1>16, <1>17, <1>18, <1>19 DEF Free

LEMMA FreeNext == ASSUME ParseInv, ObjInv, NetInv, Counts, FreeInv, [NetNext]_allVars PROVE FreeInv'
<1>1. CASE SortObjectives
  BY <1>1, FreeSort
<1>2. CASE DisjointCores
  BY <1>2, FreeDisjoint
<1>3. CASE NewCores
  BY <1>3, FreeNew
<1>4. CASE FrontEndStep
  BY <1>4, FreeFrontEnd
<1>5. CASE UNCHANGED allVars
  BY <1>5 DEF FreeInv, Top, Free, EveryValue, PartFits, Plain, Rebuilding, K, allVars, vars, netVars
<1> QED  BY <1>1, <1>2, <1>3, <1>4, <1>5 DEF NetNext

(* The networks restrict nothing: with the clauses of all of them, the      *)
(* variables that the solver had before can still take any values, and only *)
(* variables with an id are used.  It holds for every order in which the    *)
(* cores are found, and also when the ids of deleted networks are used      *)
(* again (reset_id_count, setters.cpp:211): they all lie above nbVars.      *)
NothingRestricted ==
  nbVars # -1 =>
    \A B \in SUBSET (1 .. nbVars) : \E C \in SUBSET (1 .. solver.id) :
      C \cap (1 .. nbVars) = B /\ \A c \in encoding : \E l \in c : Holds(C, l)

THEOREM NetworksFree == NetSpec /\ []Counts => [](Plain => NothingRestricted)
<1>1. NetInit => ParseInv /\ ObjInv /\ NetInv /\ FreeInv
  BY ParseInvInit, ObjInvInit, FreeInit DEF NetInit, NetInv
<1>2. ParseInv /\ ObjInv /\ NetInv /\ FreeInv /\ Counts /\ [NetNext]_allVars => (ParseInv /\ ObjInv /\ NetInv /\ FreeInv)'
  BY ParseInvNetNext, ObjInvNext, NetInvNext, FreeNext
<1>3. NetInv /\ FreeInv /\ Counts => (Plain => NothingRestricted)
  <2> SUFFICES ASSUME NetInv, FreeInv, Counts, Plain, nbVars # -1, NEW B \in SUBSET (1 .. nbVars)
               PROVE  \E C \in SUBSET (1 .. solver.id) :
                        C \cap (1 .. nbVars) = B /\ \A c \in encoding : \E l \in c : Holds(C, l)
    BY DEF NothingRestricted
  <2>1. nbVars \in Nat /\ solver.id \in Nat /\ FiniteClauses(encoding)
    BY DEF NetInv, PartsRight, Counts
  <2>2. nbVars <= solver.id /\ Within(encoding, solver.id) /\ EveryValue
    BY DEF FreeInv, Free
  <2>3. PICK A : Satisfies(A, encoding) /\ Same(B, A, nbVars)
    BY <2>2 DEF EveryValue
  <2> DEFINE C == {v \in A : v \in 0 .. solver.id}
  <2>4. 0 \notin B /\ 0 \in 0 .. nbVars /\ \A v \in 1 .. nbVars : v \in 0 .. nbVars /\ v \in 0 .. solver.id
    BY <2>1, <2>2
  <2>5. 0 \notin A /\ C \in SUBSET (1 .. solver.id)
    BY <2>1, <2>3, <2>4 DEF Same
  <2>6. C \cap (1 .. nbVars) = B
    BY <2>3, <2>4 DEF Same
  <2>7. Same(A, C, solver.id)
    BY DEF Same
  <2>8. Satisfies(C, encoding)
    <3>1. encoding \subseteq SUBSET Int
      BY <2>1 DEF FiniteClauses
    <3> HIDE DEF C
    <3> QED  BY <2>1, <2>2, <2>3, <2>7, <3>1, SameSatisfies
  <2> HIDE DEF C
  <2> QED  BY <2>5, <2>6, <2>8 DEF Satisfies
<1> QED  BY <1>1, <1>2, <1>3, PTL DEF NetSpec
=============================================================================
