---------------------------- MODULE PackupProofs ----------------------------
(***************************************************************************)
(* Proofs about packup, for all documents and options: first the control   *)
(* flow of a run, then slicing and the reading of documents, and last,     *)
(* with those about the encoder, what an answer is worth.                  *)
(***************************************************************************)
EXTENDS Packup, PackupEncoderProofs

Single(S) == \A p, q \in S : p = q
Score == {p.vec[k] : p \in points, k \in Nat}

Types ==
  /\ case \in Cases
  /\ pc \in {"read", "encode", "ready", "library", "optimal", "external", "store", "print", "done"}
  /\ status \in {"?", "s", "o", "u"}
  /\ found \subseteq points /\ Single(found)
  /\ model \subseteq points /\ Single(model)
  /\ scores \in Seq(Score)
  /\ killed \in BOOLEAN

(***************************************************************************)
(* Nothing is solved before the encoding is complete, the library and the  *)
(* external program are never both used, and nothing has ended before the  *)
(* end.                                                                    *)
(***************************************************************************)
Unsolved == found = {} /\ model = {} /\ status = "?" /\ scores = << >> /\ killed = FALSE

Phases ==
  /\ pc \in {"read", "encode"} => points = {}
  /\ pc \in {"read", "encode", "ready"} => Unsolved
  /\ pc \in {"library", "optimal"} => Library /\ model = {}
  /\ pc \in {"external", "store"} => o.mode \in {"opb", "wcnf"}
  /\ pc = "store" /\ o.mode = "opb" => enc.weights # << >>
  /\ enc.weights = << >> => scores = << >>
  /\ pc # "done" => end = NoEnd
  /\ Library => ~ killed
  /\ ~ Library => status = "?"

(***************************************************************************)
(* The status of the library says what it holds, and what it holds is what *)
(* will be printed.                                                        *)
(***************************************************************************)
LibraryKept ==
  /\ pc = "library" => status \in {"?", "s"}
  /\ pc = "library" /\ status = "?" => found = {}
  /\ pc = "optimal" => status = "o"
  /\ status \in {"s", "o"} => found # {}
  /\ status = "u" => points = {}
  /\ status = "o" => o.mode = "optimise" /\ \A p \in points, q \in found : ~ LeximaxBetter(p, q)
  /\ pc = "print" /\ Library => status \in {"o", "u"} /\ model = found

(***************************************************************************)
(* The one call for a WCNF file has found a point of least cost.           *)
(***************************************************************************)
CostKept ==
  o.mode = "wcnf" /\ ~ killed =>
    /\ pc = "external" => model = {}
    /\ pc = "store" => found # {} /\ model = {}
    /\ found \subseteq MinCost /\ model \subseteq MinCost
    /\ pc = "print" => model # {} \/ points = {}

(***************************************************************************)
(* Objective by objective: the value that was stored is the least that is  *)
(* possible with the values before it, and the model held reaches them     *)
(* all; while the next is stored, the point found does.                    *)
(***************************************************************************)
ScoresHeld == \A j \in DOMAIN scores : \E p \in points : scores[j] = p.vec[j]
ScoresLeast ==
  \A j \in DOMAIN scores : \A p \in points :
    (\A i \in 1 .. j - 1 : p.vec[i] <= scores[i]) => scores[j] <= p.vec[j]

LevelsKept ==
  o.mode = "opb" /\ ~ killed =>
    /\ ScoresHeld /\ ScoresLeast
    /\ model \subseteq Candidates
    /\ pc = "external" => scores = << >> \/ model # {}
    /\ pc = "store" => found # {} /\ model = {} /\ found \subseteq MinLevel(Len(scores) + 1)
    /\ pc = "print" => IF model = {} THEN points = {} ELSE Len(scores) = Len(enc.weights)

(***************************************************************************)
(* What is printed is the model held, and it is printed for a reason.      *)
(***************************************************************************)
PointPrinted ==
  end.kind = "answer" =>
    \E p \in points : model = {p} /\ end.units = p.units /\ end.printed = Valuation(p.units)

EndReasons ==
  /\ end.kind = "FAIL" => points = {} \/ end.signal \/ killed \/ o.mode = "lp"
  /\ end.kind = "exit" => o.mode = "both" \/ (o.mode = "optimise" /\ Len(enc.weights) < 2)
  /\ end.kind = "abort" => end.signal \/ o.mode = "approx"
  /\ end.kind = "unsolved" => ~ o.solve /\ Unsolved

LastModel ==
  end.kind = "answer" /\ ~ end.signal =>
    /\ Library => status = "o" /\ model = found
    /\ o.mode = "opb" => killed \/ Len(scores) = Len(enc.weights)

IInv ==
  /\ Types /\ Phases
  /\ LibraryKept /\ CostKept /\ LevelsKept
  /\ PointPrinted /\ EndReasons /\ LastModel

-----------------------------------------------------------------------------
(* Small facts.                                                            *)

LEMMA SameOptions ==
  ASSUME case' = case
  PROVE  o' = o /\ Library' = Library /\ Library \in BOOLEAN
BY DEF o, Library

\* The valuation of a set of units depends on what was read only.
LEMMA SameValuation ==
  ASSUME UNCHANGED pr, NEW I
  PROVE  Valuation(I)' = Valuation(I)
<1>1. UNCHANGED pr
  OBVIOUS
<1>2. RecommendsScore(I)' = RecommendsScore(I)
  BY <1>1 DEF RecommendsScore, AnyInstalled
<1> QED  BY <1>1, <1>2 DEF Valuation, NewScore, RemovedScore, NotUpToDateScore, ChangedScore

LEMMA EmptySet == Single({}) /\ \A p : Single({p})
BY DEF Single

LEMMA SameScore == ASSUME UNCHANGED points PROVE Score' = Score
BY DEF Score

-----------------------------------------------------------------------------
(* The steps up to the encoding.                                           *)

(***************************************************************************)
(* As long as nothing is solved and nothing has ended, the invariant holds *)
(* whatever the points are.                                                *)
(***************************************************************************)
Fresh ==
  /\ case \in Cases /\ pc \in {"read", "encode", "ready", "library", "external", "print"}
  /\ pc \in {"read", "encode"} => points = {}
  /\ pc = "library" <=> Library /\ pc \notin {"read", "encode", "ready"}
  /\ pc = "external" <=> o.mode \in {"opb", "wcnf"} /\ pc \notin {"read", "encode", "ready"}
  /\ Unsolved /\ end = NoEnd

LEMMA FreshInv == Fresh => IInv
<1> SUFFICES ASSUME Fresh PROVE IInv
  OBVIOUS
<1>1. Types
  <2>1. << >> \in Seq(Score)
    OBVIOUS
  <2> QED  BY <2>1, EmptySet DEF Fresh, Types, Unsolved
<1>2. Phases
  BY DEF Fresh, Phases, Unsolved
<1>3. LibraryKept
  BY DEF Fresh, LibraryKept, Unsolved
<1>4. CostKept
  BY DEF Fresh, CostKept, Unsolved, MinCost
<1>5. LevelsKept
  BY DEF Fresh, LevelsKept, Unsolved, ScoresHeld, ScoresLeast, Candidates
<1>6. PointPrinted /\ EndReasons /\ LastModel
  BY DEF Fresh, NoEnd, PointPrinted, EndReasons, LastModel
<1> QED  BY <1>1, <1>2, <1>3, <1>4, <1>5, <1>6 DEF IInv

LEMMA InitInv == Init => IInv
<1>1. Init => Fresh
  BY PackupCases DEF Init, Fresh, Unsolved
<1> QED  BY <1>1, FreshInv

LEMMA EncodingInv == IInv /\ (Read \/ Slice \/ Encode) => IInv'
<1> SUFFICES ASSUME IInv, Read \/ Slice \/ Encode PROVE IInv'
  OBVIOUS
<1>1. /\ UNCHANGED <<case, status, found, model, scores, killed, end>>
      /\ pc \in {"read", "encode"} /\ pc' \in {"read", "encode", "ready"}
      /\ pc' # "ready" => points' = points
  BY DEF Read, Slice, Encode, solving
<1>2. Fresh'
  BY <1>1 DEF IInv, Types, Phases, Fresh, Unsolved, o, Library
<1>3. Fresh' => IInv'
  BY FreshInv, PTL
<1> QED  BY <1>2, <1>3

-----------------------------------------------------------------------------
(* A run that ends keeps what it holds.                                    *)
LEMMA DoneKept ==
  ASSUME IInv, pc # "done", pc' = "done",
         UNCHANGED <<case, pr, enc, points, status, found, scores, killed>>,
         model' = model \/ (Library /\ model' \in {found, {}})
  PROVE  Types' /\ Phases' /\ LibraryKept' /\ CostKept' /\ LevelsKept'
<1>1. Types'
  BY EmptySet, SameScore DEF IInv, Types
<1>2. Phases'
  BY DEF IInv, Phases, Library, o
<1>3. LibraryKept'
  BY DEF IInv, LibraryKept, o, Library
<1>4. CostKept'
  BY DEF IInv, CostKept, MinCost, Library, o
<1>5. LevelsKept'
  BY DEF IInv, LevelsKept, ScoresHeld, ScoresLeast, Candidates, Library, o
<1> QED  BY <1>1, <1>2, <1>3, <1>4, <1>5

\* ... and one that ends without an answer has its reasons (EndReasons).
LEMMA StopInv ==
  ASSUME IInv, pc # "done", NEW kind, kind # "answer", NEW signal, Stop(kind, {}, signal),
         UNCHANGED <<case, pr, enc, points, status, found, scores, killed>>,
         model' = model \/ (Library /\ model' \in {found, {}}),
         EndReasons'
  PROVE  IInv'
<1>1. pc' = "done" /\ end'.kind # "answer"
  BY DEF Stop
<1>2. PointPrinted' /\ LastModel'
  BY <1>1 DEF PointPrinted, LastModel
<1> QED  BY <1>1, <1>2, DoneKept DEF IInv

-----------------------------------------------------------------------------
(* The library.                                                            *)

LEMMA StartInv == IInv /\ Start => IInv'
<1> SUFFICES ASSUME IInv, Start PROVE IInv'
  OBVIOUS
<1>1. pc = "ready" /\ UNCHANGED <<case, pos, pr, e, enc, points, status, found, model, scores, killed>>
  BY DEF Start, solving
<1>2. CASE ~ o.solve
  <2>1. Stop("unsolved", {}, FALSE)
    BY <1>2 DEF Start
  <2>2. EndReasons'
    BY <1>1, <1>2, <2>1 DEF IInv, Phases, Unsolved, Stop, EndReasons, o
  <2> QED  BY <1>1, <2>1, <2>2, StopInv
<1>3. CASE o.solve
  <2>1. /\ end' = end
        /\ Library => pc' = "library"
        /\ o.mode \in {"opb", "wcnf"} => pc' = "external"
        /\ ~ Library /\ o.mode \notin {"opb", "wcnf"} => pc' = "print"
    BY <1>3 DEF Start, Library
  <2>2. o.mode \in {"opb", "wcnf"} => ~ Library
    BY DEF Library
  <2>3. o.mode = "lp" \/ o.mode \in {"opb", "wcnf"} \/ Library
    BY PackupCases DEF IInv, Types, o, Modes, Library
  <2>4. o' = o /\ Library' = Library
    BY <1>1, SameOptions
  <2>5. Fresh'
    BY <1>1, <2>1, <2>2, <2>3, <2>4 DEF IInv, Types, Phases, Fresh, Unsolved
  <2>6. Fresh' => IInv'
    BY FreshInv, PTL
  <2> QED  BY <2>5, <2>6
<1> QED  BY <1>2, <1>3

LEMMA FirstCallInv == IInv /\ FirstCall => IInv'
<1> SUFFICES ASSUME IInv, FirstCall PROVE IInv'
  OBVIOUS
<1>1. /\ pc = "library" /\ status = "?" /\ found = {} /\ model = {} /\ Library /\ end = NoEnd
      /\ UNCHANGED <<case, pos, pr, e, enc, points, model, scores, killed>>
  BY DEF FirstCall, IInv, Phases, LibraryKept
<1>2. CASE o.mode = "optimise" /\ Len(enc.weights) < 2
  <2>1. Stop("exit", {}, FALSE) /\ UNCHANGED <<status, found>>
    BY <1>2 DEF FirstCall
  <2>2. EndReasons'
    BY <1>1, <1>2, <2>1 DEF Stop, EndReasons, o
  <2> QED  BY <1>1, <2>1, <2>2, StopInv
<1>3. CASE ~ (o.mode = "optimise" /\ Len(enc.weights) < 2)
  <2>1. /\ end' = end
        /\ \/ points = {} /\ status' = "u" /\ pc' = "print" /\ found' = found
           \/ status' = "s" /\ pc' = pc /\ \E p \in points : found' = {p}
    BY <1>3 DEF FirstCall
  <2>2. Types'
    BY <1>1, <2>1, SameScore, EmptySet DEF IInv, Types
  <2>3. Phases' /\ PointPrinted' /\ EndReasons' /\ LastModel'
    BY <1>1, <2>1 DEF IInv, Phases, NoEnd, PointPrinted, EndReasons, LastModel, o, Library
  <2>4. LibraryKept'
    BY <1>1, <2>1 DEF LibraryKept
  <2>5. CostKept' /\ LevelsKept'
    BY <1>1 DEF CostKept, LevelsKept, o, Library
  <2> QED  BY <2>2, <2>3, <2>4, <2>5 DEF IInv
<1> QED  BY <1>2, <1>3

LEMMA ImproveInv == IInv /\ Improve => IInv'
<1> SUFFICES ASSUME IInv, Improve PROVE IInv'
  OBVIOUS
<1>1. /\ pc = "library" /\ status = "s" /\ Library /\ end = NoEnd
      /\ UNCHANGED <<case, pos, pr, e, enc, points, pc, status, model, scores, killed, end>>
      /\ \E p \in points : found' = {p}
  BY DEF Improve, IInv, Phases
<1>2. Types'
  BY <1>1, SameScore, EmptySet DEF IInv, Types
<1>3. Phases' /\ PointPrinted' /\ EndReasons' /\ LastModel'
  BY <1>1 DEF IInv, Phases, NoEnd, PointPrinted, EndReasons, LastModel, o, Library
<1>4. LibraryKept'
  BY <1>1 DEF LibraryKept
<1>5. CostKept' /\ LevelsKept'
  BY <1>1 DEF CostKept, LevelsKept, o, Library
<1> QED  BY <1>2, <1>3, <1>4, <1>5 DEF IInv

LEMMA LastCallInv == IInv /\ LastCall => IInv'
<1> SUFFICES ASSUME IInv, LastCall PROVE IInv'
  OBVIOUS
<1>1. /\ pc = "library" /\ status = "s" /\ found # {} /\ Library /\ end = NoEnd
      /\ UNCHANGED <<case, pos, pr, e, enc, points, found, model, scores, killed>>
  BY DEF LastCall, IInv, Phases, LibraryKept
<1>2. CASE o.mode = "optimise"
  <2>1. /\ \A p \in points, q \in found : ~ LeximaxBetter(p, q)
        /\ status' = "o" /\ pc' = "optimal" /\ end' = end
    BY <1>2 DEF LastCall
  <2>2. Types'
    BY <1>1, <2>1, SameScore DEF IInv, Types
  <2>3. Phases' /\ PointPrinted' /\ EndReasons' /\ LastModel'
    BY <1>1, <2>1 DEF IInv, Phases, NoEnd, PointPrinted, EndReasons, LastModel, o, Library
  <2>4. LibraryKept'
    BY <1>1, <1>2, <2>1 DEF LibraryKept, o
  <2>5. CostKept' /\ LevelsKept'
    BY <1>1 DEF CostKept, LevelsKept, o, Library
  <2> QED  BY <2>2, <2>3, <2>4, <2>5 DEF IInv
<1>3. CASE o.mode = "approx"
  <2>1. Stop("abort", {}, FALSE) /\ UNCHANGED status
    BY <1>3 DEF LastCall
  <2>2. EndReasons'
    BY <1>1, <1>3, <2>1 DEF Stop, EndReasons, o
  <2> QED  BY <1>1, <2>1, <2>2, StopInv
<1>4. CASE o.mode = "both"
  <2>1. Stop("exit", {}, FALSE) /\ UNCHANGED status
    BY <1>4 DEF LastCall
  <2>2. EndReasons'
    BY <1>1, <1>4, <2>1 DEF Stop, EndReasons, o
  <2> QED  BY <1>1, <2>1, <2>2, StopInv
<1> QED  BY <1>1, <1>2, <1>3, <1>4 DEF Library

LEMMA GetSolutionInv == IInv /\ GetSolution => IInv'
<1> SUFFICES ASSUME IInv, GetSolution PROVE IInv'
  OBVIOUS
<1>1. /\ pc = "optimal" /\ status = "o" /\ Library /\ end = NoEnd
      /\ pc' = "print" /\ model' = found
      /\ UNCHANGED <<case, pos, pr, e, enc, points, status, found, scores, killed, end>>
  BY DEF GetSolution, IInv, Phases, LibraryKept
<1>2. Types'
  BY <1>1, SameScore DEF IInv, Types
<1>3. Phases' /\ PointPrinted' /\ EndReasons' /\ LastModel'
  BY <1>1 DEF IInv, Phases, NoEnd, PointPrinted, EndReasons, LastModel, o, Library
<1>4. LibraryKept'
  BY <1>1 DEF IInv, LibraryKept, o
<1>5. CostKept' /\ LevelsKept'
  BY <1>1 DEF CostKept, LevelsKept, o, Library
<1> QED  BY <1>2, <1>3, <1>4, <1>5 DEF IInv

-----------------------------------------------------------------------------
(* The external program.                                                   *)

(***************************************************************************)
(* One call: an optimum or nothing, or, when the program is killed, some   *)
(* candidate or nothing.                                                   *)
(***************************************************************************)
LEMMA CallDef ==
  ASSUME NEW candidates, NEW best, CallExternal(candidates, best),
         best \subseteq candidates, candidates \subseteq points, killed \in BOOLEAN
  PROVE  /\ found' \subseteq candidates /\ Single(found')
         /\ killed' \in BOOLEAN
         /\ ~ killed' => /\ ~ killed /\ found' \subseteq best
                         /\ found' = {} => candidates = {}
<1>1. CASE ((candidates = {} /\ found' = {}) \/ \E p \in best : found' = {p}) /\ UNCHANGED killed
  BY <1>1, EmptySet
<1>2. CASE killed' = TRUE /\ (found' = {} \/ \E p \in candidates : found' = {p})
  BY <1>2, EmptySet
<1> QED  BY <1>1, <1>2 DEF CallExternal

LEMMA CandidatesSubset ==
  /\ Candidates \subseteq points /\ MinCost \subseteq points
  /\ \A k : MinLevel(k) \subseteq Candidates
BY DEF Candidates, MinCost, MinLevel

\* Until the end is reached there is nothing to say about it.
LEMMA NotEnded ==
  ASSUME end' = NoEnd
  PROVE  PointPrinted' /\ EndReasons' /\ LastModel'
BY DEF NoEnd, PointPrinted, EndReasons, LastModel

\* The library plays no part when an external program is called.
LEMMA OtherLibrary ==
  ASSUME ~ Library, status = "?", case' = case, status' = status, pc' # "library", pc' # "optimal"
  PROVE  LibraryKept'
BY DEF LibraryKept, Library, o

LEMMA SolveLevelInv == IInv /\ SolveLevel => IInv'
<1> SUFFICES ASSUME IInv, SolveLevel PROVE IInv'
  OBVIOUS
<1>1. /\ pc = "external" /\ enc.weights # << >> /\ o.mode = "opb" /\ ~ Library /\ end = NoEnd /\ status = "?"
      /\ UNCHANGED <<case, pos, pr, e, enc, points, status, scores, end>>
      /\ \/ found' = {} /\ pc' = "print" /\ model' = model
         \/ found' # {} /\ pc' = "store" /\ model' = {}
  BY DEF SolveLevel, Clear, IInv, Phases, Library
<1>2. /\ found' \subseteq Candidates /\ Single(found') /\ killed' \in BOOLEAN
      /\ ~ killed' => /\ ~ killed /\ found' \subseteq MinLevel(Len(scores) + 1)
                      /\ found' = {} => Candidates = {}
  BY CallDef, CandidatesSubset DEF SolveLevel, IInv, Types
<1>3. Types'
  BY <1>1, <1>2, CandidatesSubset, SameScore, EmptySet DEF IInv, Types
<1>4. Phases'
  BY <1>1 DEF IInv, Phases, o, Library
<1>5. LibraryKept' /\ PointPrinted' /\ EndReasons' /\ LastModel'
  BY <1>1, NotEnded, OtherLibrary
<1>6. CostKept'
  BY <1>1 DEF CostKept, o
<1>7. LevelsKept'
  <2> SUFFICES ASSUME ~ killed' PROVE LevelsKept'
    BY DEF LevelsKept
  <2>1. /\ ScoresHeld /\ ScoresLeast /\ model \subseteq Candidates /\ ~ killed
        /\ scores = << >> \/ model # {}
    BY <1>1, <1>2 DEF IInv, LevelsKept
  <2>2. /\ ScoresHeld' /\ ScoresLeast' /\ Candidates' = Candidates
        /\ MinLevel(Len(scores) + 1)' = MinLevel(Len(scores) + 1)
    BY <1>1, <2>1 DEF ScoresHeld, ScoresLeast, Candidates, MinLevel
  <2>3. CASE found' # {}
    BY <1>1, <1>2, <2>1, <2>2, <2>3 DEF LevelsKept
  <2>4. CASE found' = {}
    <3>1. Candidates = {}
      BY <1>2, <2>4
    <3>2. model = {} /\ scores = << >>
      BY <2>1, <3>1
    <3>3. points = {}
      BY <3>1, <3>2 DEF Candidates
    <3> QED  BY <1>1, <2>2, <2>4, <3>2, <3>3 DEF LevelsKept
  <2> QED  BY <2>3, <2>4
<1> QED  BY <1>3, <1>4, <1>5, <1>6, <1>7 DEF IInv

LEMMA StoreLevelInv == IInv /\ StoreLevel => IInv'
<1> SUFFICES ASSUME IInv, StoreLevel PROVE IInv'
  OBVIOUS
<1>1. /\ pc = "store" /\ o.mode = "opb" /\ ~ Library /\ end = NoEnd /\ status = "?"
      /\ model' = found
      /\ UNCHANGED <<case, pos, pr, e, enc, points, status, found, killed, end>>
      /\ pc' = (IF Len(scores') = Len(enc.weights) THEN "print" ELSE "external")
  BY DEF StoreLevel, IInv, Phases, Library
<1>2. PICK p \in found : scores' = Append(scores, p.vec[Len(scores) + 1])
  BY DEF StoreLevel
<1> DEFINE n == Len(scores) + 1
<1>3. scores \in Seq(Score) /\ n \in Nat \ {0} /\ p \in points /\ p.vec[n] \in Score /\ found = {p}
  BY <1>2 DEF IInv, Types, Score, Single
<1>4. scores' \in Seq(Score)
  BY <1>2, <1>3
<1>5. Types'
  BY <1>1, <1>4, SameScore DEF IInv, Types
<1>6. Phases'
  BY <1>1 DEF IInv, Phases, o, Library
<1>7. LibraryKept' /\ PointPrinted' /\ EndReasons' /\ LastModel'
  BY <1>1, NotEnded, OtherLibrary
<1>8. CostKept'
  BY <1>1 DEF CostKept, o
<1>9. LevelsKept'
  <2> SUFFICES ASSUME ~ killed' PROVE LevelsKept'
    BY DEF LevelsKept
  <2>1. ScoresHeld /\ ScoresLeast /\ p \in MinLevel(n)
    BY <1>1, <1>2 DEF IInv, LevelsKept
  <2>2. /\ DOMAIN scores' = 1 .. n /\ DOMAIN scores = 1 .. n - 1
        /\ scores'[n] = p.vec[n] /\ \A j \in 1 .. n - 1 : scores'[j] = scores[j]
    BY <1>2, <1>3
  <2>3. p \in Candidates /\ \A q \in Candidates : p.vec[n] <= q.vec[n]
    BY <2>1 DEF MinLevel
  <2> HIDE DEF n
  <2>4. p \in Candidates'
    <3>1. \A j \in 1 .. n - 1 : p.vec[j] <= scores[j]
      BY <2>2, <2>3 DEF Candidates
    <3>2. p.vec[n] <= p.vec[n]
      BY <2>3
    <3>3. \A j \in 1 .. n : j \in 1 .. n - 1 \/ j = n
      BY <1>3
    <3>4. \A j \in 1 .. n : p.vec[j] <= scores'[j]
      BY <2>2, <3>1, <3>2, <3>3
    <3> QED  BY <1>1, <1>3, <2>2, <3>4 DEF Candidates
  <2>5. ScoresLeast'
    <3> SUFFICES ASSUME NEW j \in 1 .. n, NEW q \in points,
                        \A i \in 1 .. j - 1 : q.vec[i] <= scores'[i]
                 PROVE  scores'[j] <= q.vec[j]
      BY <1>1, <2>2 DEF ScoresLeast
    <3>1. CASE j = n
      <4>1. \A i \in DOMAIN scores : q.vec[i] <= scores[i]
        BY <2>2, <3>1
      <4>2. q \in Candidates
        BY <4>1 DEF Candidates
      <4> QED  BY <2>2, <2>3, <3>1, <4>2
    <3>2. CASE j # n
      <4>1. j \in 1 .. n - 1 /\ 1 .. j - 1 \subseteq 1 .. n - 1
        BY <1>3, <3>2
      <4>2. \A i \in 1 .. j - 1 : q.vec[i] <= scores[i]
        BY <2>2, <4>1
      <4> QED  BY <2>1, <2>2, <4>1, <4>2 DEF ScoresLeast
    <3> QED  BY <3>1, <3>2
  <2>6. ScoresHeld'
    <3>1. \A j \in 1 .. n : j \in 1 .. n - 1 \/ j = n
      BY <1>3
    <3>2. \A j \in 1 .. n - 1 : \E q \in points : scores[j] = q.vec[j]
      BY <1>1, <2>2, <2>1 DEF ScoresHeld
    <3> QED  BY <1>1, <1>3, <2>2, <3>1, <3>2 DEF ScoresHeld
  <2> QED  BY <1>1, <1>3, <2>4, <2>5, <2>6 DEF LevelsKept
<1> QED  BY <1>5, <1>6, <1>7, <1>8, <1>9 DEF IInv

LEMMA SolveOnceInv == IInv /\ SolveOnce => IInv'
<1> SUFFICES ASSUME IInv, SolveOnce PROVE IInv'
  OBVIOUS
<1>1. /\ pc = "external" /\ o.mode = "opb" /\ ~ Library /\ end = NoEnd /\ status = "?"
      /\ enc.weights = << >> /\ model' = found' /\ pc' = "print"
      /\ UNCHANGED <<case, pos, pr, e, enc, points, status, scores, end>>
  BY DEF SolveOnce, IInv, Phases, Library
<1>2. /\ found' \subseteq points /\ Single(found') /\ killed' \in BOOLEAN
      /\ ~ killed' => ~ killed /\ (found' = {} => points = {})
  BY CallDef DEF SolveOnce, IInv, Types
<1>3. Types'
  BY <1>1, <1>2, SameScore DEF IInv, Types
<1>4. Phases'
  BY <1>1 DEF IInv, Phases, o, Library
<1>5. LibraryKept' /\ PointPrinted' /\ EndReasons' /\ LastModel'
  BY <1>1, NotEnded, OtherLibrary
<1>6. CostKept'
  BY <1>1 DEF CostKept, o
<1>7. LevelsKept'
  <2> SUFFICES ASSUME ~ killed' PROVE LevelsKept'
    BY DEF LevelsKept
  <2>1. scores = << >> /\ points \subseteq Candidates'
    BY <1>1 DEF IInv, Phases, Candidates
  <2> QED  BY <1>1, <1>2, <2>1 DEF LevelsKept, ScoresHeld, ScoresLeast
<1> QED  BY <1>3, <1>4, <1>5, <1>6, <1>7 DEF IInv

LEMMA SolveMaxInv == IInv /\ SolveMax => IInv'
<1> SUFFICES ASSUME IInv, SolveMax PROVE IInv'
  OBVIOUS
<1>1. /\ pc = "external" /\ o.mode = "wcnf" /\ ~ Library /\ end = NoEnd /\ status = "?"
      /\ UNCHANGED <<case, pos, pr, e, enc, points, status, scores, end>>
      /\ \/ found' = {} /\ pc' = "print" /\ model' = model
         \/ found' # {} /\ pc' = "store" /\ model' = {}
  BY DEF SolveMax, Clear, IInv, Phases, Library
<1>2. /\ found' \subseteq points /\ Single(found') /\ killed' \in BOOLEAN
      /\ ~ killed' => /\ ~ killed /\ found' \subseteq MinCost
                      /\ found' = {} => points = {}
  BY CallDef, CandidatesSubset DEF SolveMax, IInv, Types
<1>3. Types'
  BY <1>1, <1>2, SameScore, EmptySet DEF IInv, Types
<1>4. Phases'
  BY <1>1 DEF IInv, Phases, o, Library
<1>5. LibraryKept' /\ PointPrinted' /\ EndReasons' /\ LastModel'
  BY <1>1, NotEnded, OtherLibrary
<1>6. CostKept'
  <2>1. MinCost' = MinCost
    BY <1>1 DEF MinCost
  <2> QED  BY <1>1, <1>2, <2>1 DEF IInv, CostKept
<1>7. LevelsKept'
  BY <1>1 DEF LevelsKept, o
<1> QED  BY <1>3, <1>4, <1>5, <1>6, <1>7 DEF IInv

LEMMA StoreMaxInv == IInv /\ StoreMax => IInv'
<1> SUFFICES ASSUME IInv, StoreMax PROVE IInv'
  OBVIOUS
<1>1. /\ pc = "store" /\ o.mode = "wcnf" /\ ~ Library /\ end = NoEnd /\ status = "?"
      /\ model' = found /\ pc' = "print"
      /\ UNCHANGED <<case, pos, pr, e, enc, points, status, found, scores, killed, end>>
  BY DEF StoreMax, IInv, Phases, Library
<1>2. Types'
  BY <1>1, SameScore DEF IInv, Types
<1>3. Phases'
  BY <1>1 DEF IInv, Phases, o, Library
<1>4. LibraryKept' /\ PointPrinted' /\ EndReasons' /\ LastModel'
  BY <1>1, NotEnded, OtherLibrary
<1>5. CostKept'
  BY <1>1 DEF IInv, CostKept, MinCost, o
<1>6. LevelsKept'
  BY <1>1 DEF LevelsKept, o
<1> QED  BY <1>2, <1>3, <1>4, <1>5, <1>6 DEF IInv

-----------------------------------------------------------------------------
(* The ends.                                                               *)

(***************************************************************************)
(* Printing the only point of a set, which becomes the model.              *)
(***************************************************************************)
LEMMA PrintDef ==
  ASSUME NEW m, NEW signal, PrintSolution(m, signal), Single(m), m \subseteq points,
         UNCHANGED <<pr, points>>, model' = m
  PROVE  /\ pc' = "done" /\ end'.signal = signal
         /\ end'.kind = (IF m = {} THEN "FAIL" ELSE "answer")
         /\ PointPrinted'
<1>1. CASE m = {}
  BY <1>1 DEF PrintSolution, Stop, PointPrinted
<1>2. CASE m # {}
  <2>1. PICK p \in m : Stop("answer", p.units, signal)
    BY <1>2 DEF PrintSolution
  <2>2. m = {p} /\ p \in points' /\ model' = {p}
    BY <2>1 DEF Single
  <2>3. /\ end'.kind = "answer" /\ end'.units = p.units /\ end'.signal = signal
        /\ end'.printed = Valuation(p.units) /\ pc' = "done"
    BY <2>1 DEF Stop
  <2>4. Valuation(p.units)' = Valuation(p.units)
    BY SameValuation
  <2> QED  BY <1>2, <2>2, <2>3, <2>4 DEF PointPrinted
<1> QED  BY <1>1, <1>2

LEMMA ConcludeInv == IInv /\ Conclude => IInv'
<1> SUFFICES ASSUME IInv, Conclude PROVE IInv'
  OBVIOUS
<1>1. /\ pc = "print" /\ PrintSolution(model, FALSE)
      /\ UNCHANGED <<case, pos, pr, e, enc, points, status, found, model, scores, killed>>
  BY DEF Conclude, solving
<1>2. /\ pc' = "done" /\ end'.signal = FALSE
      /\ end'.kind = (IF model = {} THEN "FAIL" ELSE "answer")
      /\ PointPrinted'
  BY <1>1, PrintDef DEF IInv, Types
<1>3. Types' /\ Phases' /\ LibraryKept' /\ CostKept' /\ LevelsKept'
  BY <1>1, <1>2, DoneKept
<1>4. o.mode \in Modes /\ o' = o
  BY <1>1, PackupCases DEF IInv, Types, o
<1>5. EndReasons'
  <2> SUFFICES ASSUME model = {}, ~ killed, o.mode # "lp" PROVE points = {}
    BY <1>1, <1>2, <1>4 DEF EndReasons
  <2>1. CASE Library
    BY <1>1, <2>1 DEF IInv, LibraryKept
  <2>2. CASE o.mode = "wcnf"
    BY <1>1, <2>2 DEF IInv, CostKept
  <2>3. CASE o.mode = "opb"
    BY <1>1, <2>3 DEF IInv, LevelsKept
  <2> QED  BY <1>4, <2>1, <2>2, <2>3 DEF Modes, Library
<1>6. LastModel'
  <2> SUFFICES ASSUME model # {}
               PROVE  /\ Library => status = "o" /\ model = found
                      /\ o.mode = "opb" => killed \/ Len(scores) = Len(enc.weights)
    BY <1>1, <1>2 DEF LastModel, o, Library
  <2>1. Library => status = "o" /\ model = found
    BY <1>1 DEF IInv, LibraryKept, Types
  <2>2. o.mode = "opb" /\ ~ killed => Len(scores) = Len(enc.weights)
    BY <1>1 DEF IInv, LevelsKept
  <2> QED  BY <2>1, <2>2
<1> QED  BY <1>2, <1>3, <1>5, <1>6 DEF IInv

LEMMA SignalInv == IInv /\ Signal => IInv'
<1> SUFFICES ASSUME IInv, Signal PROVE IInv'
  OBVIOUS
<1>1. /\ pc # "done"
      /\ UNCHANGED <<case, pos, pr, e, enc, points, status, found, scores, killed>>
  BY DEF Signal
<1>2. CASE ~ Called
  <2>1. PrintSolution(model, TRUE) /\ model' = model
    BY <1>2 DEF Signal
  <2>2. pc' = "done" /\ end'.signal = TRUE /\ end'.kind \in {"FAIL", "answer"} /\ PointPrinted'
    BY <1>1, <2>1, PrintDef DEF IInv, Types
  <2>3. EndReasons' /\ LastModel'
    BY <2>2 DEF EndReasons, LastModel
  <2> QED  BY <1>1, <2>1, <2>2, <2>3, DoneKept DEF IInv
<1>3. CASE Called /\ status = "s" /\ o.mode = "optimise"
  <2>1. PrintSolution(found, TRUE) /\ model' = found /\ Library
    BY <1>3 DEF Signal, Called
  <2>2. pc' = "done" /\ end'.signal = TRUE /\ end'.kind \in {"FAIL", "answer"} /\ PointPrinted'
    BY <1>1, <2>1, PrintDef DEF IInv, Types
  <2>3. EndReasons' /\ LastModel'
    BY <2>2 DEF EndReasons, LastModel
  <2> QED  BY <1>1, <2>1, <2>2, <2>3, DoneKept DEF IInv
<1>4. CASE Called /\ ~ (status = "s" /\ o.mode = "optimise")
  <2>1. PICK k \in {"FAIL", "abort"} : Stop(k, {}, TRUE)
    BY <1>4 DEF Signal
  <2>2. model' = {} /\ Library
    BY <1>4 DEF Signal, Called
  <2>3. EndReasons'
    BY <2>1 DEF Stop, EndReasons
  <2> QED  BY <1>1, <2>1, <2>2, <2>3, StopInv
<1> QED  BY <1>2, <1>3, <1>4

(***************************************************************************)
(* The inductive invariant of a run.                                       *)
(***************************************************************************)
THEOREM PackupInvariance == Spec => []IInv
<1>1. IInv /\ [Next]_vars => IInv'
  <2> SUFFICES ASSUME IInv, [Next]_vars PROVE IInv'
    OBVIOUS
  <2>1. CASE Next
    BY <2>1, EncodingInv, StartInv, FirstCallInv, ImproveInv, LastCallInv, GetSolutionInv,
       SolveLevelInv, StoreLevelInv, SolveOnceInv, SolveMaxInv, StoreMaxInv, ConcludeInv, SignalInv
    DEF Next
  <2>2. CASE UNCHANGED vars
    <3>1. Types' /\ Phases'
      BY <2>2, SameScore DEF vars, IInv, Types, Phases, Unsolved, Library, o
    <3>2. LibraryKept'
      BY <2>2 DEF vars, IInv, LibraryKept, Library, o
    <3>3. CostKept'
      BY <2>2 DEF vars, IInv, CostKept, MinCost, o
    <3>4. LevelsKept'
      BY <2>2 DEF vars, IInv, LevelsKept, ScoresHeld, ScoresLeast, Candidates, MinLevel, o
    <3>5. PointPrinted'
      BY <2>2, SameValuation DEF vars, IInv, PointPrinted
    <3>6. EndReasons' /\ LastModel'
      BY <2>2 DEF vars, IInv, EndReasons, LastModel, Unsolved, Library, o
    <3> QED  BY <3>1, <3>2, <3>3, <3>4, <3>5, <3>6 DEF IInv
  <2> QED  BY <2>1, <2>2
<1> QED  BY InitInv, <1>1, PTL DEF Spec

-----------------------------------------------------------------------------
(***************************************************************************)
(* What is printed, by main or by the signal handler, are the units of one *)
(* model of the hard clauses, the one that is held at the end, and its     *)
(* valuation.  FAIL is printed only if there is no model, or a signal or a *)
(* killed program left nothing, or the formalism is lp; and nothing is     *)
(* printed only for fewer than two objectives, the approximation, or a     *)
(* signal.                                                                 *)
(***************************************************************************)
THEOREM AnswerIsPoint == Spec => [](PointPrinted /\ EndReasons)
<1>1. IInv => PointPrinted /\ EndReasons
  BY DEF IInv
<1> QED  BY <1>1, PackupInvariance, PTL

\* the answer is the best point for the way it was found
PointBest ==
  end.kind = "answer" /\ ~ end.signal /\ ~ killed =>
    /\ Library => \A p \in points, q \in model : ~ LeximaxBetter(p, q)
    /\ o.mode = "wcnf" => \A p \in points, q \in model : q.cost <= p.cost
    /\ o.mode = "opb" => Len(scores) = Len(enc.weights)

(***************************************************************************)
(* An answer after which neither a signal came nor a program was killed is *)
(* the best for the way it was found: no point is leximax-better than that *)
(* of the library, none has a smaller cost in the WCNF file, and all the   *)
(* objectives were solved.                                                 *)
(***************************************************************************)
THEOREM AnswerIsBest == Spec => []PointBest
<1>1. IInv => PointBest
  <2> SUFFICES ASSUME IInv, end.kind = "answer", ~ end.signal, ~ killed PROVE PointBest
    BY DEF PointBest
  <2>1. ASSUME Library PROVE \A p \in points, q \in model : ~ LeximaxBetter(p, q)
    BY <2>1 DEF IInv, LastModel, LibraryKept
  <2>2. ASSUME o.mode = "wcnf" PROVE \A p \in points, q \in model : q.cost <= p.cost
    BY <2>2 DEF IInv, CostKept, MinCost
  <2>3. o.mode = "opb" => Len(scores) = Len(enc.weights)
    BY DEF IInv, LastModel
  <2> QED  BY <2>1, <2>2, <2>3 DEF PointBest
<1> QED  BY <1>1, PackupInvariance, PTL

\* the values that are stored are the least, and the model held reaches them
StoredLeast == o.mode = "opb" /\ ~ killed => ScoresLeast /\ model \subseteq Candidates

(***************************************************************************)
(* Solving the objectives one after the other is solving them in           *)
(* lexicographic order: unless the program was killed, the model held      *)
(* reaches every value that was stored, and every stored value is the      *)
(* least that the points which reach the values before it can have.        *)
(***************************************************************************)
THEOREM LevelsSolved == Spec => []StoredLeast
<1>1. IInv => StoredLeast
  BY DEF IInv, LevelsKept, StoredLeast
<1> QED  BY <1>1, PackupInvariance, PTL

(***************************************************************************)
(* What holds when the encoding is complete holds from then on.            *)
(***************************************************************************)
Encoded == pc \notin {"read", "encode"} /\ (end.kind = "FAIL" => ~ end.signal)

LEMMA EncodedKept ==
  ASSUME IInv, [Next]_vars, Encoded'
  PROVE  pc' = "ready" \/ (Encoded /\ UNCHANGED <<case, e, enc, points>>)
<1>1. CASE Read \/ Slice \/ Encode
  BY <1>1 DEF Read, Slice, Encode, Encoded
<1>2. CASE Signal
  <2>1. CASE pc \in {"read", "encode"}
    <3>1. ~ Called /\ model = {}
      BY <2>1 DEF IInv, Phases, Unsolved, Called
    <3>2. end'.kind = "FAIL" /\ end'.signal = TRUE
      BY <1>2, <3>1 DEF Signal, PrintSolution, Stop
    <3> QED  BY <3>2 DEF Encoded
  <2>2. CASE pc \notin {"read", "encode"}
    <3>1. end = NoEnd /\ UNCHANGED <<case, e, enc, points>>
      BY <1>2 DEF IInv, Phases, Signal
    <3> QED  BY <2>2, <3>1 DEF Encoded, NoEnd
  <2> QED  BY <2>1, <2>2
<1>3. CASE \/ Start \/ FirstCall \/ Improve \/ LastCall \/ GetSolution
           \/ SolveLevel \/ StoreLevel \/ SolveOnce \/ SolveMax \/ StoreMax \/ Conclude
  <2>1. pc \notin {"read", "encode", "done"} /\ UNCHANGED <<case, e, enc, points>>
    BY <1>3 DEF Start, FirstCall, Improve, LastCall, GetSolution, SolveLevel, StoreLevel,
                SolveOnce, SolveMax, StoreMax, Conclude
  <2> QED  BY <2>1 DEF IInv, Phases, Encoded, NoEnd
<1>4. CASE UNCHANGED vars
  BY <1>4 DEF vars, Encoded
<1> QED  BY <1>1, <1>2, <1>3, <1>4 DEF Next

\* the models of the clauses are the valid installations of the needed units
Exact == {p.units : p \in points} = {I \in Solutions : I \subseteq e.needed}

\* every objective has a weight, and every point a number for it
Counts == enc.weights \in Seq(Nat) /\ \A p \in points : p.vec \in [DOMAIN enc.weights -> Nat]
CountsKept == Encoded => Counts

\* There are no more stored values than objectives.
LengthKept ==
  o.mode = "opb" /\ pc \in {"external", "store", "print", "done"} /\ Encoded =>
    /\ Len(scores) <= Len(enc.weights)
    /\ pc \in {"external", "store"} /\ enc.weights # << >> => Len(scores) < Len(enc.weights)

LEMMA LengthStep ==
  ASSUME IInv, CountsKept, LengthKept, [Next]_vars, CountsKept'
  PROVE  LengthKept'
<1> SUFFICES ASSUME o'.mode = "opb", pc' \in {"external", "store", "print", "done"}, Encoded'
             PROVE  /\ Len(scores') <= Len(enc'.weights)
                    /\ pc' \in {"external", "store"} /\ enc'.weights # << >> =>
                         Len(scores') < Len(enc'.weights)
  BY DEF LengthKept
<1>1. Encoded /\ UNCHANGED <<case, e, enc, points>>
  BY EncodedKept
<1>2. o.mode = "opb" /\ ~ Library /\ enc.weights \in Seq(Nat) /\ scores \in Seq(Score)
  BY <1>1 DEF o, Library, CountsKept, Counts, IInv, Types
<1>3. Len(enc.weights) \in Nat /\ Len(scores) \in Nat
  BY <1>2
<1>4. CASE pc = "ready"
  <2>1. scores = << >> /\ Len(scores) = 0
    BY <1>4 DEF IInv, Phases, Unsolved
  <2>2. scores' = scores
    BY <1>4, <2>1 DEF Next, vars, Start, Signal, solving, Read, Slice, Encode, FirstCall, Improve,
       LastCall, GetSolution, SolveLevel, StoreLevel, SolveOnce, SolveMax, StoreMax, Conclude
  <2>3. enc.weights # << >> => Len(enc.weights) > 0
    BY <1>2
  <2> QED  BY <1>1, <1>3, <2>1, <2>2, <2>3
<1>5. CASE pc \in {"external", "store", "print", "done"}
  <2>1. /\ Len(scores) <= Len(enc.weights)
        /\ pc \in {"external", "store"} /\ enc.weights # << >> => Len(scores) < Len(enc.weights)
    BY <1>1, <1>2, <1>5 DEF LengthKept
  <2>2. CASE StoreLevel
    <3>1. pc = "store" /\ enc.weights # << >>
      BY <1>2, <2>2 DEF StoreLevel, IInv, Phases
    <3>2. PICK p \in found : scores' = Append(scores, p.vec[Len(scores) + 1])
      BY <2>2 DEF StoreLevel
    <3>3. p.vec[Len(scores) + 1] \in Score
      BY <1>3, <3>2 DEF IInv, Types, Score
    <3>4. Len(scores') = Len(scores) + 1
      BY <1>2, <3>2, <3>3
    <3>5. pc' \in {"external", "store"} => Len(scores') # Len(enc.weights)
      BY <2>2 DEF StoreLevel
    <3> QED  BY <1>1, <1>3, <2>1, <3>1, <3>4, <3>5
  <2>3. CASE ~ StoreLevel
    <3>1. /\ scores' = scores
          /\ pc' \in {"external", "store"} => pc \in {"external", "store"}
      BY <1>5, <2>3 DEF Next, vars, Start, Signal, solving, Read, Slice, Encode, FirstCall, Improve,
         LastCall, GetSolution, SolveLevel, SolveOnce, SolveMax, StoreMax, Conclude, Clear, Stop,
         PrintSolution
    <3> QED  BY <1>1, <1>3, <2>1, <3>1
  <2> QED  BY <2>2, <2>3
<1>6. pc \notin {"read", "encode", "library", "optimal"}
  BY <1>1, <1>2 DEF IInv, Phases, Encoded
<1> QED  BY <1>4, <1>5, <1>6 DEF IInv, Types

\* no point is better than the answer, if the objectives have numbers
LEMMA LevelsFromCounts == IInv /\ CountsKept /\ LengthKept => LevelsBest
<1> SUFFICES ASSUME IInv, CountsKept, LengthKept, end.kind = "answer", o.mode = "opb", ~ killed,
                    NEW p \in points, NEW q \in model,
                    LexLess(SubSeq(p.vec, 1, Len(scores)), SubSeq(q.vec, 1, Len(scores)))
             PROVE  FALSE
  BY DEF LevelsBest
<1> DEFINE n == Len(scores)
<1>1. /\ ScoresHeld /\ ScoresLeast /\ q \in Candidates /\ q \in points
      /\ scores \in Seq(Score) /\ n \in Nat /\ DOMAIN scores = 1 .. n
  BY DEF IInv, LevelsKept, Types
<1>2. Encoded /\ pc = "done"
  BY DEF IInv, Phases, Encoded, NoEnd
<1>3. /\ enc.weights \in Seq(Nat) /\ n <= Len(enc.weights) /\ Len(enc.weights) \in Nat
      /\ p.vec \in [DOMAIN enc.weights -> Nat] /\ q.vec \in [DOMAIN enc.weights -> Nat]
  BY <1>1, <1>2 DEF CountsKept, Counts, LengthKept
<1>4. \A i \in 1 .. n : p.vec[i] \in Nat /\ q.vec[i] \in Nat /\ scores[i] \in Nat
  <2>1. \A i \in 1 .. n : i \in DOMAIN enc.weights
    BY <1>1, <1>3
  <2>2. \A i \in 1 .. n : \E r \in points : scores[i] = r.vec[i] /\ r.vec \in [DOMAIN enc.weights -> Nat]
    BY <1>1, <1>2 DEF ScoresHeld, CountsKept, Counts
  <2> QED  BY <1>3, <2>1, <2>2
<1>5. /\ SubSeq(p.vec, 1, n) \in Seq(Nat) /\ Len(SubSeq(p.vec, 1, n)) = n
      /\ \A i \in 1 .. n : SubSeq(p.vec, 1, n)[i] = p.vec[i] /\ SubSeq(q.vec, 1, n)[i] = q.vec[i]
  <2>1. 1 \in Int /\ n \in Int /\ n - 1 + 1 = n /\ (n < 1 => n = 0) /\ \A i \in 1 .. n : 1 + i - 1 = i
    BY <1>1
  <2> QED  BY <1>4, <2>1, SubSeqProperties
<1>6. PICK k \in 1 .. n : p.vec[k] < q.vec[k] /\ \A j \in 1 .. k - 1 : p.vec[j] = q.vec[j]
  <2>1. DOMAIN SubSeq(p.vec, 1, n) = 1 .. n
    BY <1>5
  <2>2. PICK k \in 1 .. n :
          /\ SubSeq(p.vec, 1, n)[k] < SubSeq(q.vec, 1, n)[k]
          /\ \A j \in 1 .. k - 1 : SubSeq(p.vec, 1, n)[j] = SubSeq(q.vec, 1, n)[j]
    BY <2>1 DEF LexLess
  <2>3. k \in 1 .. n /\ \A j \in 1 .. k - 1 : j \in 1 .. n
    BY <1>1
  <2>4. p.vec[k] < q.vec[k] /\ \A j \in 1 .. k - 1 : p.vec[j] = q.vec[j]
    BY <1>5, <2>2, <2>3
  <2> QED  BY <2>4
<1>7. \A j \in 1 .. n : q.vec[j] <= scores[j]
  BY <1>1 DEF Candidates
<1>8. \A j \in 1 .. k - 1 : p.vec[j] <= scores[j]
  BY <1>1, <1>6, <1>7
<1>9. scores[k] <= p.vec[k]
  BY <1>1, <1>8 DEF ScoresLeast
<1> QED  BY <1>4, <1>6, <1>7, <1>9

-----------------------------------------------------------------------------
(* The encoding in a run *)

\* the encoding is that of the sliced problem, and points are of its models
PointsOfModels ==
  /\ enc = EncodingOf(e)
  /\ points = {Point(e, enc, a) : a \in ModelsOf(Order(enc.vars), enc.hard)}
PointsKept == Encoded => PointsOfModels

LEMMA EncodePoints ==
  ASSUME Encode
  PROVE  PointsOfModels'
<1> DEFINE pref == EncodeLexicographic(e)
           written == Written(e, pref)
           intervals == ProcessIntervalVariables(e, written \cup {pref.soft[k][1] : k \in DOMAIN pref.soft})
<1>1. /\ enc' = Encoding(e, pref, written, intervals, Top(e))
      /\ points' = {Point(e, enc', a) : a \in ModelsOf(Order(enc'.vars), enc'.hard)}
      /\ e' = e
  BY DEF Encode
<1>2. intervals = ProcessIntervalVariables(e, Input(e))
  BY DEF Input
<1> HIDE DEF intervals
<1>3. enc' = EncodingOf(e)
  BY <1>1, <1>2 DEF EncodingOf
<1> HIDE DEF pref, written
<1> QED  BY <1>1, <1>3 DEF PointsOfModels

LEMMA PointsInv == IInv /\ PointsKept /\ [Next]_vars => PointsKept'
<1> SUFFICES ASSUME IInv, PointsKept, [Next]_vars, Encoded' PROVE PointsOfModels'
  BY DEF PointsKept
<1>1. CASE Encode
  BY <1>1, EncodePoints
<1>2. CASE ~ Encode
  <2>1. Encoded /\ UNCHANGED <<case, e, enc, points>>
    <3>1. CASE pc' = "ready"
      <4>1. UNCHANGED vars
        BY <1>2, <3>1 DEF Next, Read, Slice, Start, FirstCall, Improve, LastCall, GetSolution,
           CallExternal, Clear, SolveLevel, StoreLevel, SolveOnce, SolveMax, StoreMax, Conclude,
           Signal, PrintSolution, Stop
      <4> QED  BY <4>1 DEF vars, Encoded
    <3>2. CASE pc' # "ready"
      BY <3>2, EncodedKept
    <3> QED  BY <3>1, <3>2
  <2> QED  BY <2>1 DEF PointsKept, PointsOfModels
<1> QED  BY <1>1, <1>2

LEMMA PointUnits ==
  ASSUME PointsOfModels, IsFiniteSet(enc.vars)
  PROVE  \A I : (\E p \in points : p.units = I) <=>
                  \E a \in SUBSET enc.vars : AllSatisfied(a, enc.hard) /\ Chosen(e, a) = I
<1>1. \A c \in enc.hard : \A l \in c : l[1] \in enc.vars
  BY EncodingParts DEF PointsOfModels
<1>2. ModelsOf(Order(enc.vars), enc.hard) = {a \in SUBSET enc.vars : AllSatisfied(a, enc.hard)}
  BY <1>1, OrderLists, ModelsExact
<1>3. \A a : Point(e, enc, a).units = Chosen(e, a)
  BY DEF Point, Chosen
<1> QED  BY <1>2, <1>3 DEF PointsOfModels

AnswerMeets ==
  end.kind = "answer" /\ IsFiniteSet(enc.vars) /\ (\E m \in Nat : WellPosed(e, m) /\ Bounded(Input(e), m)) =>
    end.units \subseteq e.needed /\ Met(e, end.units)

(***************************************************************************)
(* What is printed, also after a signal or with a killed program, meets    *)
(* all that is asked for: dependencies, conflicts, the request and the     *)
(* upgrades.  It is assumed that no name is of a package and of a feature, *)
(* no version is declared twice and nothing is asked for below version 0   *)
(* (WellPosed), and that the encoding is finite.                           *)
(***************************************************************************)
THEOREM AnswerMeetsDemands == Spec => []AnswerMeets
<1>1. Init => PointsKept
  BY DEF Init, PointsKept, Encoded
<1>2. IInv /\ PointsKept => AnswerMeets
  <2> SUFFICES ASSUME IInv, PointsKept, end.kind = "answer", IsFiniteSet(enc.vars),
                      NEW m \in Nat, WellPosed(e, m), Bounded(Input(e), m)
               PROVE  end.units \subseteq e.needed /\ Met(e, end.units)
    BY DEF AnswerMeets
  <2>1. PointsOfModels
    BY DEF IInv, Phases, Encoded, NoEnd, PointsKept
  <2>2. PICK p \in points : end.units = p.units
    BY DEF IInv, PointPrinted
  <2>3. PICK a \in SUBSET enc.vars : AllSatisfied(a, enc.hard) /\ Chosen(e, a) = end.units
    BY <2>1, <2>2, PointUnits
  <2>4. Demanded(e) \cup ProcessIntervalVariables(e, Input(e)) \subseteq enc.hard
    BY <2>1, DemandedInput, EncodingParts DEF PointsOfModels
  <2>5. AllSatisfied(a, Demanded(e) \cup ProcessIntervalVariables(e, Input(e)))
    BY <2>3, <2>4 DEF AllSatisfied
  <2>6. Chosen(e, a) \subseteq e.needed
    BY DEF Chosen
  <2>7. Met(e, Chosen(e, a))
    BY <2>5, <2>6, DemandedInput, DemandsExact
  <2> QED  BY <2>3, <2>6, <2>7
<1> QED  BY <1>1, <1>2, PointsInv, PackupInvariance, PTL DEF Spec

PointsMeet ==
  Encoded /\ IsFiniteSet(enc.vars) /\ NoneHeavy(e) /\ (\E m \in Nat : Readable(e, m)) =>
    {p.units : p \in points} = {I \in SUBSET e.needed : Met(e, I)}

(***************************************************************************)
(* The points that are searched are exact: the models of the hard clauses  *)
(* choose those sets of needed units that meet what is asked for, all and  *)
(* only, with the clauses of the criteria and of the packages that are not *)
(* removed.                                                                *)
(***************************************************************************)
THEOREM PointsExact == Spec => []PointsMeet
<1>1. Init => PointsKept
  BY DEF Init, PointsKept, Encoded
<1>2. PointsKept => PointsMeet
  <2> SUFFICES ASSUME PointsOfModels, IsFiniteSet(enc.vars), NoneHeavy(e), NEW m \in Nat, Readable(e, m)
               PROVE  {p.units : p \in points} = {I \in SUBSET e.needed : Met(e, I)}
    BY DEF PointsKept, PointsMeet
  <2>1. enc = EncodingOf(e) /\ WellPosed(e, m) /\ Bounded(Input(e), m)
    BY DEF PointsOfModels, Readable
  <2>2. ASSUME NEW p \in points PROVE p.units \subseteq e.needed /\ Met(e, p.units)
    <3>1. PICK a \in SUBSET enc.vars : AllSatisfied(a, enc.hard) /\ Chosen(e, a) = p.units
      BY PointUnits
    <3>2. Demanded(e) \cup ProcessIntervalVariables(e, Input(e)) \subseteq enc.hard
      BY <2>1, DemandedInput, EncodingParts
    <3>3. AllSatisfied(a, Demanded(e) \cup ProcessIntervalVariables(e, Input(e)))
      BY <3>1, <3>2 DEF AllSatisfied
    <3>4. Chosen(e, a) \subseteq e.needed
      BY DEF Chosen
    <3>5. Met(e, Chosen(e, a))
      BY <2>1, <3>3, <3>4, DemandedInput, DemandsExact
    <3> QED  BY <3>1, <3>4, <3>5
  <2>3. ASSUME NEW I, I \subseteq e.needed, Met(e, I) PROVE \E p \in points : p.units = I
    <3>1. \E a \in SUBSET enc.vars : Chosen(e, a) = I /\ AllSatisfied(a, enc.hard)
      BY <2>1, <2>3, EncodingComplete
    <3> QED  BY <3>1, PointUnits
  <2> QED  BY <2>2, <2>3
<1> QED  BY <1>1, <1>2, PointsInv, PackupInvariance, PTL DEF Spec

-----------------------------------------------------------------------------
(* Slicing *)

LEMMA NeedsUnits ==
  ASSUME NEW p, NEW lex
  PROVE  /\ \A vp : NeedVersions(p, vp) \subseteq Units(p)
         /\ \A i : NeedUnit(p, lex, i) \subseteq Units(p)
<1>1. \A n, f : ReadUnits(p, n) \subseteq Units(p) /\ FeatureUnits(p, f) \subseteq Units(p)
  BY DEF ReadUnits, FeatureUnits
<1>2. \A vp : NeedPackages(p, vp) \subseteq Units(p) /\ NeedFeatures(p, vp) \subseteq Units(p)
  BY <1>1 DEF NeedPackages, NeedFeatures
<1>3. \A vp : NeedVersions(p, vp) \subseteq Units(p)
  BY <1>2 DEF NeedVersions
<1>4. \A cnf : NeedFormula(p, cnf) \subseteq Units(p)
  BY <1>3 DEF NeedFormula
<1>5. \A n : NeedLatest(p, n) \subseteq Units(p)
  BY <1>1 DEF NeedLatest
<1> QED  BY <1>3, <1>4, <1>5 DEF NeedUnit

(***************************************************************************)
(* What need reaches: the recursion stops where nothing more is needed,    *)
(* after no more steps than there are units.                               *)
(***************************************************************************)
LEMMA NeededClosed ==
  ASSUME NEW p, UnitsListed(p), NEW lex, NEW S \in SUBSET Units(p)
  PROVE  /\ S \subseteq NeededFrom(p, lex, S) /\ NeededFrom(p, lex, S) \subseteq Units(p)
         /\ \A i \in NeededFrom(p, lex, S) : NeedUnit(p, lex, i) \subseteq NeededFrom(p, lex, S)
<1> DEFINE n == Len(p.units)
           U == Units(p)
           Reached(T) == T \cup UNION {NeedUnit(p, lex, i) : i \in T}
           H == [k \in Nat |-> [T \in SUBSET U |-> Reached(T)]]
           F == CHOOSE f : f = [k \in 0 .. n |-> IF k = 0 THEN S ELSE Reached(f[k-1])]
<1>1. NeededFrom(p, lex, S) = F[n]
  BY DEF NeededFrom
<1>2. n \in Nat /\ IsFiniteSet(U) /\ Cardinality(U) <= n
  <2>1. n \in Nat /\ U = 1 .. n
    BY DEF UnitsListed
  <2> HIDE DEF n, U
  <2>2. IsFiniteSet(1 .. n) /\ Cardinality(1 .. n) = IF 1 > n THEN 0 ELSE n - 1 + 1
    BY <2>1, FS_Interval
  <2> QED  BY <2>1, <2>2
<1>3. \A T \in SUBSET U : Reached(T) \in SUBSET U /\ T \subseteq Reached(T)
  BY NeedsUnits
<1>4. S \in SUBSET U
  OBVIOUS
<1> HIDE DEF Reached, U, n
<1>5. /\ StepsOf(H, SUBSET U) /\ Adds(H, U)
      /\ \A k \in Nat : \A T \in SUBSET U : H[k][T] = Reached(T)
  BY <1>3 DEF StepsOf, Adds
<1> HIDE DEF H
<1>6. PICK h : Chain(h, n, SUBSET U, S, H)
  BY <1>2, <1>4, <1>5, Iteration
<1>7. h = [k \in 0 .. n |-> IF k = 0 THEN S ELSE Reached(h[k-1])]
  <2>1. ASSUME NEW k \in 0 .. n PROVE h[k] = IF k = 0 THEN S ELSE Reached(h[k-1])
    <3>1. CASE k = 0
      BY <1>6, <3>1 DEF Chain
    <3>2. CASE k # 0
      <4>1. k \in 1 .. n /\ k \in Nat /\ k-1 \in 0 .. n
        BY <1>2, <3>2
      <4>2. h[k] = H[k][h[k-1]] /\ h[k-1] \in SUBSET U
        BY <1>6, <4>1 DEF Chain
      <4> QED  BY <1>5, <3>2, <4>1, <4>2
    <3> QED  BY <3>1, <3>2
  <2>2. h \in [0 .. n -> SUBSET U]
    BY <1>6 DEF Chain
  <2> QED  BY <2>1, <2>2
<1>8. F = [k \in 0 .. n |-> IF k = 0 THEN S ELSE Reached(F[k-1])]
  <2> DEFINE P(f) == f = [k \in 0 .. n |-> IF k = 0 THEN S ELSE Reached(f[k-1])]
  <2>1. P(h)
    BY <1>7
  <2>2. F = CHOOSE f : P(f)
    OBVIOUS
  <2> HIDE DEF F, P
  <2>3. P(F)
    BY <2>1, <2>2
  <2> QED  BY <2>3 DEF P
<1> HIDE DEF F
<1>9. Goes(F, n, SUBSET U, S, H)
  <2>1. ASSUME NEW k \in 0 .. n PROVE F[k] = IF k = 0 THEN S ELSE Reached(F[k-1])
    BY <1>8
  <2>2. 0 \in 0 .. n /\ \A k \in 1 .. n : k \in 0 .. n /\ k # 0 /\ k \in Nat
    BY <1>2
  <2> QED  BY <1>5, <2>1, <2>2 DEF Goes
<1>10. F[n] = h[n] /\ h[n] \in SUBSET U
  <2>1. n \in 0 .. n
    BY <1>2
  <2>2. F[n] = h[n]
    <3>1. n \in Nat /\ StepsOf(H, SUBSET U)
      BY <1>2, <1>5
    <3>2. \A k \in 0 .. n : F[k] = h[k]
      BY <1>4, <1>6, <1>9, <3>1, OneChain
    <3> QED  BY <2>1, <3>2
  <2> QED  BY <1>6, <2>1, <2>2 DEF Chain
<1>11. Reached(h[n]) = h[n] /\ S \subseteq h[n]
  <2>1. StepsOf(H, SUBSET U) /\ Adds(H, U)
    BY <1>5
  <2>2. H[0][h[n]] = h[n] /\ S \subseteq h[n]
    BY <1>2, <1>6, <2>1, Saturation
  <2> QED  BY <1>5, <1>10, <2>2
<1>12. \A i \in h[n] : NeedUnit(p, lex, i) \subseteq h[n]
  BY <1>11 DEF Reached
<1> QED  BY <1>1, <1>10, <1>11, <1>12 DEF U

\* the problem as it was read, without slicing
Whole(s) == [pr |-> s.pr, lex |-> s.lex, needed |-> Units(s.pr), features |-> AllProvided(s.pr)]

LEMMA SeedsUnits ==
  ASSUME NEW p, NEW lex
  PROVE  /\ Seeds(p, lex) \subseteq Units(p)
         /\ \A vp \in Range(p.upgrade) \cup p.install : NeedVersions(p, vp) \subseteq Seeds(p, lex)
<1>1. \A n : ReadUnits(p, n) \subseteq Units(p)
  BY DEF ReadUnits
<1>2. SliceChanged(p, lex) \subseteq Units(p)
  BY DEF SliceChanged
<1>3. Seeds(p, lex) \subseteq Units(p)
  BY <1>1, <1>2, NeedsUnits DEF Seeds
<1>4. \A vp \in Range(p.upgrade) \cup p.install : NeedVersions(p, vp) \subseteq Seeds(p, lex)
  BY DEF Seeds
<1> QED  BY <1>3, <1>4

\* slicing keeps what the request and the needed units may need
LEMMA SlicedClosed ==
  ASSUME NEW p, UnitsListed(p), NEW lex, NEW s, s = Sliced(p, lex)
  PROVE  /\ s.pr = p /\ s.lex = lex /\ s.needed \subseteq Units(p)
         /\ s.features = UNION {Provided(p, i) : i \in s.needed}
         /\ \A vp \in Range(p.upgrade) \cup p.install : NeedVersions(p, vp) \subseteq s.needed
         /\ \A i \in s.needed : \A k \in DOMAIN Unit(s, i).depends :
              \A vp \in Range(Unit(s, i).depends[k]) : NeedVersions(p, vp) \subseteq s.needed
         /\ Seeds(p, lex) \subseteq s.needed
<1> DEFINE S == Seeds(p, lex)
           T == NeededFrom(p, lex, S)
<1>1. s = [pr |-> p, lex |-> lex, needed |-> T, features |-> UNION {Provided(p, i) : i \in T}]
  BY DEF Sliced
<1>2. S \in SUBSET Units(p) /\ \A vp \in Range(p.upgrade) \cup p.install : NeedVersions(p, vp) \subseteq S
  BY SeedsUnits
<1> HIDE DEF S
<1>3. S \subseteq T /\ T \subseteq Units(p) /\ \A i \in T : NeedUnit(p, lex, i) \subseteq T
  BY <1>2, NeededClosed
<1> HIDE DEF T
<1>4. /\ s.pr = p /\ s.lex = lex /\ s.needed = T
      /\ s.features = UNION {Provided(p, i) : i \in T}
  BY <1>1
<1>5. ASSUME NEW i \in T, NEW k \in DOMAIN Unit(s, i).depends, NEW vp \in Range(Unit(s, i).depends[k])
      PROVE  NeedVersions(p, vp) \subseteq T
  <2>1. Unit(s, i) = p.units[i]
    BY <1>4 DEF Unit
  <2>2. NeedVersions(p, vp) \subseteq NeedFormula(p, p.units[i].depends)
    BY <1>5, <2>1 DEF NeedFormula
  <2>3. NeedFormula(p, p.units[i].depends) \subseteq NeedUnit(p, lex, i)
    BY DEF NeedUnit
  <2> QED  BY <1>3, <2>2, <2>3
<1>6. \A vp \in Range(p.upgrade) \cup p.install : NeedVersions(p, vp) \subseteq T
  BY <1>2, <1>3
<1>7. Seeds(p, lex) \subseteq s.needed
  BY <1>3, <1>4 DEF S
<1> QED  BY <1>3, <1>4, <1>5, <1>6, <1>7

LEMMA WholeFields ==
  ASSUME NEW s
  PROVE  /\ Whole(s).pr = s.pr /\ Whole(s).needed = Units(s.pr)
         /\ Whole(s).features = AllProvided(s.pr)
         /\ \A i : Unit(Whole(s), i) = Unit(s, i)
         /\ \A i, vp : Answers(Whole(s), i, vp) <=> Answers(s, i, vp)
<1>1. Whole(s).pr = s.pr /\ Whole(s).needed = Units(s.pr) /\ Whole(s).features = AllProvided(s.pr)
  BY DEF Whole
<1>2. \A i : Unit(Whole(s), i) = Unit(s, i)
  BY <1>1 DEF Unit
<1> QED  BY <1>1, <1>2 DEF Answers

\* a document without the known issues stays one
LEMMA WholePosed ==
  ASSUME NEW s, NEW m \in Nat, WellPosed(Whole(s), m), s.needed \subseteq Units(s.pr),
         s.features = UNION {Provided(s.pr, i) : i \in s.needed}
  PROVE  WellPosed(s, m)
<1>1. s.features \subseteq Whole(s).features
  BY WholeFields DEF AllProvided
<1>2. Encodable(s, m)
  BY <1>1, WholeFields DEF WellPosed, Encodable
<1>3. AllRequests(s) \subseteq AllRequests(Whole(s))
  <2> DEFINE D(i) == UNION {Range(Unit(s, i).depends[k]) : k \in DOMAIN Unit(s, i).depends}
             K(i) == Range(Unit(s, i).conflicts)
  <2>1. AllRequests(s) = s.pr.install \cup Range(s.pr.upgrade) \cup Range(s.pr.remove)
                           \cup (UNION {D(i) : i \in s.needed}) \cup (UNION {K(i) : i \in s.needed})
    BY DEF AllRequests
  <2>2. AllRequests(Whole(s)) = s.pr.install \cup Range(s.pr.upgrade) \cup Range(s.pr.remove)
                           \cup (UNION {D(i) : i \in Units(s.pr)}) \cup (UNION {K(i) : i \in Units(s.pr)})
    BY WholeFields DEF AllRequests
  <2> HIDE DEF D, K
  <2> QED  BY <2>1, <2>2
<1>4. \A vp \in AllRequests(s) : Askable(vp)
  BY <1>3 DEF WellPosed
<1>5. \A i \in s.needed : i \in Whole(s).needed /\ UnitVar(Whole(s), i) = UnitVar(s, i)
  BY WholeFields DEF UnitVar
<1>6. \A i \in s.needed : ~ IsFeature(s.pr, Unit(s, i).name)
  BY <1>5, WholeFields DEF WellPosed
<1>7. \A i, j \in s.needed : UnitVar(s, i) = UnitVar(s, j) => i = j
  BY <1>5 DEF WellPosed
<1> QED  BY <1>2, <1>4, <1>6, <1>7 DEF WellPosed

LEMMA LatestWhole ==
  ASSUME NEW s, NEW m \in Nat, WellPosed(Whole(s), m), WellPosed(s, m), NEW n
  PROVE  LatestNeeded(s, n) <= LatestNeeded(Whole(s), n)
         /\ LatestNeeded(s, n) \in Int /\ LatestNeeded(Whole(s), n) \in Int
<1>1. Encodable(s, m) /\ Encodable(Whole(s), m)
  BY DEF WellPosed
<1>2. s.needed \subseteq Units(s.pr) /\ s.features \subseteq AllProvided(s.pr)
  BY <1>1 DEF Encodable, AllProvided
<1>3. Latests(s, n) \subseteq Latests(Whole(s), n)
  <2>1. CASE IsFeature(s.pr, n)
    <3>1. Versions(s, n) \subseteq Versions(Whole(s), n)
      <4>1. CASE NeededFeature(s, n)
        <5>1. NeededFeature(Whole(s), n)
          BY <1>2, <4>1, WholeFields DEF NeededFeature
        <5> QED  BY <1>2, <4>1, <5>1, WholeFields DEF Versions
      <4>2. CASE ~ NeededFeature(s, n)
        <5>1. Versions(s, n) = UnitVersions(s, n)
          BY <4>2 DEF Versions
        <5>2. NeededUnits(s, n) = {}
          BY <2>1 DEF NeededUnits, WellPosed
        <5> QED  BY <5>1, <5>2 DEF UnitVersions
      <4> QED  BY <4>1, <4>2
    <3> QED  BY <2>1, <3>1, WholeFields DEF Latests
  <2>2. CASE ~ IsFeature(s.pr, n)
    <3>1. NeededUnits(s, n) \subseteq NeededUnits(Whole(s), n)
      BY <1>2, WholeFields DEF NeededUnits
    <3> QED  BY <2>2, <3>1, WholeFields DEF Latests
  <2> QED  BY <2>1, <2>2
<1>4. LatestNeeded(s, n) \in Latests(s, n) /\ Latests(s, n) \subseteq Int
  BY <1>1, LatestIs
<1>5. /\ LatestNeeded(Whole(s), n) \in Latests(Whole(s), n) /\ Latests(Whole(s), n) \subseteq Int
      /\ \A y \in Latests(Whole(s), n) : y <= LatestNeeded(Whole(s), n)
  BY <1>1, LatestIs
<1> QED  BY <1>3, <1>4, <1>5

\* of a name that a needed unit answers for, the installed versions are those of needed units
VersionsKept(s, J, n) ==
  /\ NeededFeature(s, n) <=> NeededFeature(Whole(s), n)
  /\ InstalledVersions(s, J \cap s.needed, n) \subseteq InstalledVersions(Whole(s), J, n)
  /\ InstalledVersions(s, J \cap s.needed, n) # {}
  /\ InstalledVersions(s, J \cap s.needed, n) \subseteq Versions(s, n)

LEMMA AnsweredVersions ==
  ASSUME NEW s, NEW m \in Nat, WellPosed(Whole(s), m), WellPosed(s, m), NEW J, J \subseteq Units(s.pr),
         s.features = UNION {Provided(s.pr, i) : i \in s.needed},
         NEW vp, NEW j \in J, j \in s.needed, Answers(s, j, vp), NEW n, n = vp.name
  PROVE  VersionsKept(s, J, n)
<1> DEFINE I == J \cap s.needed
<1>1. s.needed \subseteq Units(s.pr) /\ s.features \subseteq AllProvided(s.pr)
  BY DEF WellPosed, Encodable, AllProvided
<1>2. j \in Whole(s).needed /\ UnitVar(Whole(s), j) = UnitVar(s, j) /\ ~ IsFeature(s.pr, Unit(s, j).name)
  BY <1>1, WholeFields DEF UnitVar, WellPosed
<1>3. CASE IsFeature(s.pr, n)
  <2>1. PICK f \in Provided(s.pr, j) : f[1] = n
    BY <1>2, <1>3 DEF Answers
  <2>2. f \in s.features
    BY <2>1
  <2>3. NeededFeature(s, n) /\ NeededFeature(Whole(s), n)
    BY <1>1, <2>1, <2>2, WholeFields DEF NeededFeature
  <2>4. InstalledVersions(s, I, n) = {g[2] : g \in {h \in UNION {Provided(s.pr, i) : i \in I} : h[1] = n}}
    BY <2>3 DEF InstalledVersions
  <2>5. InstalledVersions(Whole(s), J, n) = {g[2] : g \in {h \in UNION {Provided(s.pr, i) : i \in J} : h[1] = n}}
    BY <2>3, WholeFields DEF InstalledVersions
  <2>6. Versions(s, n) = {g[2] : g \in {h \in s.features : h[1] = n}}
    BY <2>3 DEF Versions
  <2>7. f[2] \in InstalledVersions(s, I, n)
    BY <2>1, <2>4
  <2>8. UNION {Provided(s.pr, i) : i \in I} \subseteq s.features
    OBVIOUS
  <2>9. InstalledVersions(s, I, n) \subseteq Versions(s, n)
    BY <2>4, <2>6, <2>8
  <2>10. InstalledVersions(s, I, n) \subseteq InstalledVersions(Whole(s), J, n)
    BY <2>4, <2>5
  <2> QED  BY <2>3, <2>7, <2>9, <2>10 DEF VersionsKept
<1>4. CASE ~ IsFeature(s.pr, n)
  <2>1. ~ NeededFeature(s, n) /\ ~ NeededFeature(Whole(s), n)
    BY <1>1, <1>4, WholeFields DEF NeededFeature, IsFeature
  <2>2. \A f \in Provided(s.pr, j) : f \in AllProvided(s.pr)
    BY <1>1 DEF AllProvided
  <2>3. Unit(s, j).name = n
    BY <1>4, <2>2 DEF Answers, IsFeature
  <2>4. InstalledVersions(s, I, n) = {Unit(s, i).version : i \in {k \in I : Unit(s, k).name = n}}
    BY <2>1 DEF InstalledVersions
  <2>5. InstalledVersions(Whole(s), J, n) = {Unit(s, i).version : i \in {k \in J : Unit(s, k).name = n}}
    BY <2>1, WholeFields DEF InstalledVersions
  <2>6. Versions(s, n) = {Unit(s, i).version : i \in {k \in s.needed : Unit(s, k).name = n}}
    BY <2>1 DEF Versions, UnitVersions, NeededUnits
  <2>7. Unit(s, j).version \in InstalledVersions(s, I, n)
    BY <2>3, <2>4
  <2>8. InstalledVersions(s, I, n) \subseteq Versions(s, n)
    BY <2>4, <2>6
  <2>9. InstalledVersions(s, I, n) \subseteq InstalledVersions(Whole(s), J, n)
    BY <2>4, <2>5
  <2> QED  BY <2>1, <2>7, <2>8, <2>9 DEF VersionsKept
<1> QED  BY <1>3, <1>4

\* what a request can name is needed, and answered for by what is needed
LEMMA AnswersKept ==
  ASSUME NEW s, NEW m, WellPosed(Whole(s), m), NEW J, J \subseteq Units(s.pr), NEW vp,
         NeedVersions(s.pr, vp) \subseteq s.needed, \E j \in J : Answers(Whole(s), j, vp)
  PROVE  \E j \in J \cap s.needed : Answers(s, j, vp)
<1>1. PICK j \in J : Answers(Whole(s), j, vp)
  OBVIOUS
<1>2. j \in Whole(s).needed /\ Whole(s).pr = s.pr /\ Answers(s, j, vp)
  BY <1>1, WholeFields
<1>3. j \in NeedVersions(Whole(s).pr, vp)
  BY <1>1, <1>2, AnswersNeeded
<1> QED  BY <1>1, <1>2, <1>3

LEMMA DependsKept ==
  ASSUME NEW p, UnitsListed(p), NEW lex, NEW s, s = Sliced(p, lex), NEW m, WellPosed(Whole(s), m),
         NEW J, J \subseteq Units(p), DependsMet(Whole(s), J)
  PROVE  DependsMet(s, J \cap s.needed)
<1> SUFFICES ASSUME NEW i \in J \cap s.needed, NEW k \in DOMAIN Unit(s, i).depends
             PROVE  \E vp \in Range(Unit(s, i).depends[k]) : \E j \in J \cap s.needed : Answers(s, j, vp)
  BY DEF DependsMet
<1>1. s.pr = p /\ \A vp \in Range(Unit(s, i).depends[k]) : NeedVersions(p, vp) \subseteq s.needed
  BY SlicedClosed
<1>2. Unit(Whole(s), i) = Unit(s, i)
  BY WholeFields
<1>3. PICK vp \in Range(Unit(s, i).depends[k]) : \E j \in J : Answers(Whole(s), j, vp)
  BY <1>2 DEF DependsMet
<1>4. \E j \in J \cap s.needed : Answers(s, j, vp)
  BY <1>1, <1>3, AnswersKept
<1> QED  BY <1>4

LEMMA UpgradesKept ==
  ASSUME NEW s, NEW m \in Nat, WellPosed(Whole(s), m), WellPosed(s, m), NEW J, J \subseteq Units(s.pr),
         \A vp \in Range(s.pr.upgrade) : \E j \in J \cap s.needed : Answers(s, j, vp),
         UpgradesMet(Whole(s), J)
  PROVE  UpgradesMet(s, J \cap s.needed)
<1> SUFFICES ASSUME NEW vp \in Range(s.pr.upgrade), NEW n, n = vp.name
             PROVE  /\ LatestNeeded(s, n) >= 0 =>
                         \E v \in Versions(s, n) :
                           v >= LatestNeeded(s, n) /\ InstalledVersions(s, J \cap s.needed, n) = {v}
                    /\ NeededFeature(s, n) => 0 \notin InstalledVersions(s, J \cap s.needed, n)
  BY DEF UpgradesMet
<1>1. PICK j \in J \cap s.needed : Answers(s, j, vp)
  OBVIOUS
<1>2. s.features = UNION {Provided(s.pr, i) : i \in s.needed}
  BY DEF WellPosed, Encodable
<1>3. VersionsKept(s, J, n)
  BY <1>1, <1>2, AnsweredVersions
<1>4. /\ LatestNeeded(s, n) <= LatestNeeded(Whole(s), n)
      /\ LatestNeeded(s, n) \in Int /\ LatestNeeded(Whole(s), n) \in Int
  BY LatestWhole
<1>5. /\ LatestNeeded(Whole(s), n) >= 0 =>
           \E v \in Versions(Whole(s), n) :
             v >= LatestNeeded(Whole(s), n) /\ InstalledVersions(Whole(s), J, n) = {v}
      /\ NeededFeature(Whole(s), n) => 0 \notin InstalledVersions(Whole(s), J, n)
  BY WholeFields DEF UpgradesMet
<1>6. ASSUME LatestNeeded(s, n) >= 0
      PROVE  \E v \in Versions(s, n) :
               v >= LatestNeeded(s, n) /\ InstalledVersions(s, J \cap s.needed, n) = {v}
  <2>1. LatestNeeded(Whole(s), n) >= 0
    BY <1>4, <1>6
  <2>2. PICK v \in Versions(Whole(s), n) :
               v >= LatestNeeded(Whole(s), n) /\ InstalledVersions(Whole(s), J, n) = {v}
    BY <1>5, <2>1
  <2>3. InstalledVersions(s, J \cap s.needed, n) = {v} /\ v \in Versions(s, n)
    BY <1>3, <2>2 DEF VersionsKept
  <2>4. v \in Nat
    BY <2>3, VersionsBounded DEF WellPosed
  <2>5. v >= LatestNeeded(Whole(s), n)
    BY <2>2
  <2>6. v >= LatestNeeded(s, n)
    BY <1>4, <2>4, <2>5
  <2> QED  BY <2>3, <2>6
<1>7. ASSUME NeededFeature(s, n) PROVE 0 \notin InstalledVersions(s, J \cap s.needed, n)
  BY <1>3, <1>5, <1>7 DEF VersionsKept
<1> QED  BY <1>6, <1>7

(***************************************************************************)
(* Slicing loses nothing: of an installation of the whole universe that    *)
(* meets what is asked for, the needed units alone do, so that a sliced    *)
(* problem has no solution only if the document has none.                  *)
(***************************************************************************)
THEOREM SlicingKeeps ==
  ASSUME NEW p, UnitsListed(p), NEW lex, NEW s, s = Sliced(p, lex), NEW m \in Nat, WellPosed(Whole(s), m),
         NEW J, J \subseteq Units(p), Met(Whole(s), J)
  PROVE  Met(s, J \cap s.needed)
<1>1. /\ s.pr = p /\ s.needed \subseteq Units(p)
      /\ s.features = UNION {Provided(p, i) : i \in s.needed}
      /\ \A vp \in Range(p.upgrade) \cup p.install : NeedVersions(p, vp) \subseteq s.needed
  BY SlicedClosed
<1>2. WellPosed(s, m)
  BY <1>1, WholePosed
<1>3. /\ DependsMet(Whole(s), J) /\ ConflictsKept(Whole(s), J)
      /\ RequestMet(Whole(s), J) /\ UpgradesMet(Whole(s), J)
  BY DEF Met
<1>4. DependsMet(s, J \cap s.needed)
  BY <1>3, DependsKept
<1>5. ConflictsKept(s, J \cap s.needed)
  BY <1>3, WholeFields DEF ConflictsKept
<1>6. \A vp \in p.install \cup Range(p.upgrade) : \E j \in J \cap s.needed : Answers(s, j, vp)
  <2> SUFFICES ASSUME NEW vp \in p.install \cup Range(p.upgrade)
               PROVE  \E j \in J \cap s.needed : Answers(s, j, vp)
    OBVIOUS
  <2>1. \E j \in J : Answers(Whole(s), j, vp)
    BY <1>1, <1>3, WholeFields DEF RequestMet
  <2>2. NeedVersions(s.pr, vp) \subseteq s.needed /\ J \subseteq Units(s.pr)
    BY <1>1
  <2> QED  BY <2>1, <2>2, AnswersKept
<1>7. RequestMet(s, J \cap s.needed)
  BY <1>1, <1>3, <1>6, WholeFields DEF RequestMet
<1>8. UpgradesMet(s, J \cap s.needed)
  BY <1>1, <1>2, <1>3, <1>6, UpgradesKept
<1> QED  BY <1>4, <1>5, <1>7, <1>8 DEF Met

\* a request to upgrade admits the latest version that is installed
UpgradesAdmit(w) ==
  \A vp \in Range(w.pr.upgrade) :
    LatestNeeded(w, vp.name) >= 0 => Evaluate(LatestNeeded(w, vp.name), vp.op, vp.version)

\* ... or a criterion makes all that is installed needed
UpgradesSafe(w) == Minimised("removed", w.lex) \/ Minimised("changed", w.lex) \/ UpgradesAdmit(w)

InstalledNeeded(s) == \A i \in Units(s.pr) : s.pr.units[i].installed => i \in s.needed

LEMMA InstalledSeeds ==
  ASSUME NEW p, NEW lex, Minimised("removed", lex) \/ Minimised("changed", lex),
         NEW i \in Units(p), p.units[i].installed
  PROVE  i \in Seeds(p, lex)
<1>1. CASE Minimised("changed", lex)
  BY <1>1 DEF Seeds, SliceChanged
<1>2. CASE Minimised("removed", lex)
  <2> DEFINE n == p.units[i].name
             ns == {m \in ReadNames(p) : /\ Minimised("removed", lex)
                                         /\ IsAnyInstalled(p, ReadUnits(p, m))}
  <2>1. i \in ReadUnits(p, n) /\ n \in ns
    BY <1>2 DEF ReadUnits, ReadNames, IsAnyInstalled
  <2>2. i \in UNION {ReadUnits(p, m) : m \in ns}
    <3> HIDE DEF n, ns
    <3> QED  BY <2>1
  <2>3. UNION {ReadUnits(p, m) : m \in ns} \subseteq Seeds(p, lex)
    BY DEF Seeds
  <2> QED  BY <2>2, <2>3
<1> QED  BY <1>1, <1>2

LEMMA LatestInstalledKept ==
  ASSUME NEW s, NEW m \in Nat, WellPosed(Whole(s), m), WellPosed(s, m), InstalledNeeded(s), NEW n
  PROVE  LatestNeeded(s, n) = LatestNeeded(Whole(s), n)
<1> DEFINE L == LatestNeeded(Whole(s), n)
<1>1. Encodable(s, m) /\ Encodable(Whole(s), m)
  BY DEF WellPosed
<1>2. LatestNeeded(s, n) \in Latests(s, n) /\ Latests(s, n) \subseteq Int
      /\ \A y \in Latests(s, n) : y <= LatestNeeded(s, n)
  BY <1>1, LatestIs
<1>3. L \in Latests(Whole(s), n) /\ L \in Int
  BY <1>1, LatestIs
<1>4. LatestNeeded(s, n) <= L
  BY LatestWhole
<1> HIDE DEF L
<1>5. L \in Latests(s, n)
  <2>1. CASE L = -1
    BY <2>1 DEF Latests
  <2>2. CASE L # -1 /\ IsFeature(s.pr, n)
    <3>1. IsInstalledFeature(s.pr, <<n, L>>)
      BY <1>3, <2>2, WholeFields DEF Latests
    <3>2. PICK i \in Units(s.pr) : <<n, L>> \in Provided(s.pr, i) /\ s.pr.units[i].installed
      BY <3>1 DEF IsInstalledFeature, IsAnyInstalled, FeatureUnits
    <3>3. <<n, L>> \in s.features
      BY <1>1, <3>2 DEF Encodable, InstalledNeeded
    <3> DEFINE f == <<n, L>>
    <3>4. f[1] = n /\ f[2] = L /\ f \in s.features
      BY <3>3
    <3> HIDE DEF f
    <3>5. NeededFeature(s, n)
      BY <3>4 DEF NeededFeature
    <3>6. L \in Versions(s, n)
      BY <3>4, <3>5 DEF Versions
    <3> QED  BY <2>2, <3>1, <3>6 DEF Latests
  <2>3. CASE L # -1 /\ ~ IsFeature(s.pr, n)
    <3>1. PICK i \in NeededUnits(Whole(s), n) : Unit(s, i).installed /\ Unit(s, i).version = L
      BY <1>3, <2>3, WholeFields DEF Latests
    <3>2. i \in NeededUnits(s, n)
      BY <3>1, WholeFields DEF NeededUnits, InstalledNeeded, Unit
    <3> QED  BY <2>3, <3>1, <3>2 DEF Latests
  <2> QED  BY <2>1, <2>2, <2>3
<1> QED  BY <1>2, <1>3, <1>4, <1>5 DEF L

LEMMA LatestKept ==
  ASSUME NEW s, NEW m \in Nat, WellPosed(Whole(s), m), WellPosed(s, m), NEW vp, NEW n, n = vp.name,
         NeedVersions(s.pr, vp) \subseteq s.needed, NEW L, L = LatestNeeded(Whole(s), n),
         L >= 0 => Evaluate(L, vp.op, vp.version)
  PROVE  LatestNeeded(s, n) = L
<1>1. Encodable(s, m) /\ Encodable(Whole(s), m)
  BY DEF WellPosed
<1>2. LatestNeeded(s, n) \in Latests(s, n) /\ Latests(s, n) \subseteq Int
      /\ \A y \in Latests(s, n) : y <= LatestNeeded(s, n)
  BY <1>1, LatestIs
<1>3. L \in Latests(Whole(s), n) /\ L \in Int
  BY <1>1, LatestIs
<1>4. LatestNeeded(s, n) <= L
  BY LatestWhole
<1>5. L \in Latests(s, n)
  <2>1. CASE L = -1
    BY <2>1 DEF Latests
  <2>2. CASE L # -1 /\ IsFeature(s.pr, n)
    <3>1. L \in Versions(Whole(s), n) /\ IsInstalledFeature(s.pr, <<n, L>>)
      BY <1>3, <2>2, WholeFields DEF Latests
    <3>2. NeededFeature(Whole(s), n)
      BY <2>2, WholeFields DEF IsFeature, NeededFeature
    <3>3. PICK f \in AllProvided(s.pr) : f[1] = n /\ f[2] = L
      BY <3>1, <3>2, WholeFields DEF Versions
    <3>4. PICK i \in Units(s.pr) : f \in Provided(s.pr, i)
      BY <3>3 DEF AllProvided
    <3>5. f = <<n, L>>
      BY <3>3, <3>4 DEF Provided, FeatureOf
    <3>6. L >= 0
      <4>1. Versions(Whole(s), n) \subseteq 0 .. m
        BY <1>1, VersionsBounded
      <4> QED  BY <3>1, <4>1
    <3>7. L \in FeatureVersions(s.pr, n) /\ Evaluate(L, vp.op, vp.version)
      BY <3>3, <3>6 DEF FeatureVersions
    <3>8. FeatureUnits(s.pr, <<n, L>>) \subseteq NeedVersions(s.pr, vp)
      BY <2>2, <3>7 DEF NeedVersions, NeedFeatures
    <3>9. i \in FeatureUnits(s.pr, <<n, L>>)
      BY <3>4, <3>5 DEF FeatureUnits
    <3>10. i \in s.needed
      BY <3>8, <3>9
    <3>11. f \in s.features
      BY <1>1, <3>4, <3>10 DEF Encodable
    <3>12. NeededFeature(s, n)
      BY <3>3, <3>11 DEF NeededFeature
    <3>13. L \in Versions(s, n)
      BY <3>3, <3>11, <3>12 DEF Versions
    <3> QED  BY <2>2, <3>1, <3>13 DEF Latests
  <2>3. CASE L # -1 /\ ~ IsFeature(s.pr, n)
    <3>1. PICK i \in NeededUnits(Whole(s), n) : Unit(s, i).installed /\ Unit(s, i).version = L
      BY <1>3, <2>3, WholeFields DEF Latests
    <3>2. i \in Units(s.pr) /\ Unit(s, i).name = n
      BY <3>1, WholeFields DEF NeededUnits
    <3>3. L >= 0
      BY <1>1, <3>1, WholeFields DEF Encodable, NeededUnits
    <3>4. i \in NeedPackages(s.pr, vp)
      BY <3>1, <3>2, <3>3 DEF NeedPackages, ReadUnits, Unit
    <3>5. i \in s.needed
      BY <2>3, <3>4 DEF NeedVersions
    <3>6. i \in NeededUnits(s, n)
      BY <3>2, <3>5 DEF NeededUnits
    <3> QED  BY <2>3, <3>1, <3>6 DEF Latests
  <2> QED  BY <2>1, <2>2, <2>3
<1> QED  BY <1>2, <1>3, <1>4, <1>5

LEMMA VersionsGrow ==
  ASSUME NEW s, NEW m, WellPosed(s, m), NEW n, NeededFeature(s, n) <=> NeededFeature(Whole(s), n)
  PROVE  Versions(s, n) \subseteq Versions(Whole(s), n)
<1>1. s.needed \subseteq Units(s.pr) /\ s.features \subseteq AllProvided(s.pr)
  BY DEF WellPosed, Encodable, AllProvided
<1>2. CASE NeededFeature(s, n)
  BY <1>1, <1>2, WholeFields DEF Versions
<1>3. CASE ~ NeededFeature(s, n)
  <2>1. Versions(s, n) = {Unit(s, i).version : i \in {k \in s.needed : Unit(s, k).name = n}}
    BY <1>3 DEF Versions, UnitVersions, NeededUnits
  <2>2. Versions(Whole(s), n) = {Unit(s, i).version : i \in {k \in Units(s.pr) : Unit(s, k).name = n}}
    BY <1>3, WholeFields DEF Versions, UnitVersions, NeededUnits
  <2> QED  BY <1>1, <2>1, <2>2
<1> QED  BY <1>2, <1>3

(***************************************************************************)
(* Slicing gains nothing: what meets the sliced problem meets the whole    *)
(* one, if a criterion keeps all that is installed, or if the requests to  *)
(* upgrade admit the latest installed version (otherwise slicing may drop  *)
(* that version, and packup may downgrade).                                *)
(***************************************************************************)
THEOREM SlicingSound ==
  ASSUME NEW p, UnitsListed(p), NEW lex, NEW s, s = Sliced(p, lex), NEW m \in Nat, WellPosed(Whole(s), m),
         UpgradesSafe(Whole(s)), NEW I, I \subseteq s.needed, Met(s, I)
  PROVE  Met(Whole(s), I)
<1>1. /\ s.pr = p /\ s.needed \subseteq Units(p) /\ I \subseteq Units(s.pr)
      /\ s.features = UNION {Provided(s.pr, i) : i \in s.needed}
  BY SlicedClosed
<1>2. WellPosed(s, m)
  BY <1>1, WholePosed
<1>3. DependsMet(s, I) /\ ConflictsKept(s, I) /\ RequestMet(s, I) /\ UpgradesMet(s, I)
  BY DEF Met
<1>4. DependsMet(Whole(s), I)
  BY <1>3, WholeFields DEF DependsMet
<1>5. ConflictsKept(Whole(s), I)
  BY <1>3, WholeFields DEF ConflictsKept
<1>6. RequestMet(Whole(s), I)
  BY <1>3, WholeFields DEF RequestMet
<1>7. UpgradesMet(Whole(s), I)
  <2> SUFFICES ASSUME NEW vp \in Range(s.pr.upgrade), NEW n, n = vp.name
               PROVE  /\ LatestNeeded(Whole(s), n) >= 0 =>
                           \E v \in Versions(Whole(s), n) :
                             v >= LatestNeeded(Whole(s), n) /\ InstalledVersions(Whole(s), I, n) = {v}
                      /\ NeededFeature(Whole(s), n) => 0 \notin InstalledVersions(Whole(s), I, n)
    BY WholeFields DEF UpgradesMet
  <2>1. PICK j \in I : Answers(s, j, vp)
    BY <1>3 DEF RequestMet
  <2>2. VersionsKept(s, I, n)
    <3>1. j \in s.needed
      BY <2>1
    <3> QED  BY <1>1, <1>2, <2>1, <3>1, AnsweredVersions
  <2>3. NeededFeature(s, n) <=> NeededFeature(Whole(s), n)
    BY <2>2 DEF VersionsKept
  <2>4. InstalledVersions(Whole(s), I, n) = InstalledVersions(s, I, n)
    <3>1. Whole(s).pr = s.pr /\ \A i : Unit(Whole(s), i) = Unit(s, i)
      BY WholeFields
    <3>2. CASE NeededFeature(s, n)
      BY <2>3, <3>1, <3>2 DEF InstalledVersions
    <3>3. CASE ~ NeededFeature(s, n)
      BY <2>3, <3>1, <3>3 DEF InstalledVersions
    <3> QED  BY <3>2, <3>3
  <2>5. Versions(s, n) \subseteq Versions(Whole(s), n)
    BY <1>2, <2>3, VersionsGrow
  <2>6. LatestNeeded(s, n) = LatestNeeded(Whole(s), n)
    <3>1. NeedVersions(s.pr, vp) \subseteq s.needed
      BY <1>1, SlicedClosed
    <3> DEFINE L == LatestNeeded(Whole(s), n)
    <3>2. CASE UpgradesAdmit(Whole(s))
      <4>1. L >= 0 => Evaluate(L, vp.op, vp.version)
        BY <3>2, WholeFields DEF UpgradesAdmit
      <4> HIDE DEF L
      <4>2. LatestNeeded(s, n) = L
        BY <1>2, <3>1, <4>1, LatestKept DEF L
      <4> QED  BY <4>2 DEF L
    <3>3. CASE Minimised("removed", lex) \/ Minimised("changed", lex)
      <4>1. InstalledNeeded(s)
        <5>1. Seeds(p, lex) \subseteq s.needed
          BY SlicedClosed
        <5>2. \A i \in Units(p) : p.units[i].installed => i \in Seeds(p, lex)
          BY <3>3, InstalledSeeds
        <5> QED  BY <1>1, <5>1, <5>2 DEF InstalledNeeded
      <4> QED  BY <1>2, <4>1, LatestInstalledKept
    <3>4. Whole(s).lex = lex
      BY SlicedClosed DEF Whole
    <3> QED  BY <3>2, <3>3, <3>4 DEF UpgradesSafe
  <2>7. /\ LatestNeeded(s, n) >= 0 =>
             \E v \in Versions(s, n) : v >= LatestNeeded(s, n) /\ InstalledVersions(s, I, n) = {v}
        /\ NeededFeature(s, n) => 0 \notin InstalledVersions(s, I, n)
    BY <1>3 DEF UpgradesMet
  <2> QED  BY <2>3, <2>4, <2>5, <2>6, <2>7
<1> QED  BY <1>4, <1>5, <1>6, <1>7 DEF Met

\* what is sliced is what was read
SlicedOf == e = Sliced(RefineUpgradeRequest(pr), Criteria(o))
SlicedKept == pc = "encode" \/ Encoded => SlicedOf

LEMMA SlicedInv == IInv /\ SlicedKept /\ [Next]_vars => SlicedKept'
<1> SUFFICES ASSUME IInv, SlicedKept, [Next]_vars, pc' = "encode" \/ Encoded' PROVE SlicedOf'
  BY DEF SlicedKept
<1>1. CASE Read
  BY <1>1 DEF Read, Encoded
<1>2. CASE Slice
  BY <1>2 DEF Slice, SlicedOf, o
<1>3. CASE (pc = "encode" \/ Encoded) /\ UNCHANGED <<case, pr, e>>
  <2>1. UNCHANGED o
    BY <1>3 DEF o
  <2> QED  BY <1>3, <2>1 DEF SlicedKept, SlicedOf
<1>4. CASE Encode
  BY <1>3, <1>4 DEF Encode
<1>5. CASE Signal
  <2>1. CASE pc \in {"read", "encode"}
    <3>1. ~ Called /\ model = {}
      BY <2>1 DEF IInv, Phases, Unsolved, Called
    <3>2. end'.kind = "FAIL" /\ end'.signal = TRUE /\ pc' = "done"
      BY <1>5, <3>1 DEF Signal, PrintSolution, Stop
    <3> QED  BY <3>2 DEF Encoded
  <2>2. CASE pc \notin {"read", "encode"}
    <3>1. end = NoEnd /\ UNCHANGED <<case, pr, e>>
      BY <1>5 DEF IInv, Phases, Signal
    <3> QED  BY <1>3, <2>2, <3>1 DEF Encoded, NoEnd
  <2> QED  BY <2>1, <2>2
<1>6. CASE \/ Start \/ FirstCall \/ Improve \/ LastCall \/ GetSolution
           \/ SolveLevel \/ StoreLevel \/ SolveOnce \/ SolveMax \/ StoreMax \/ Conclude
  <2>1. pc \notin {"read", "encode", "done"} /\ UNCHANGED <<case, pr, e>>
    BY <1>6 DEF Start, FirstCall, Improve, LastCall, GetSolution, SolveLevel, StoreLevel,
                SolveOnce, SolveMax, StoreMax, Conclude
  <2>2. Encoded
    BY <2>1 DEF IInv, Phases, Encoded, NoEnd
  <2> QED  BY <1>3, <2>1, <2>2
<1>7. CASE UNCHANGED vars
  BY <1>3, <1>7 DEF vars, Encoded
<1> QED  BY <1>1, <1>2, <1>4, <1>5, <1>6, <1>7 DEF Next

\* what was read, without slicing
WholeProblem ==
  LET p == RefineUpgradeRequest(pr)
  IN  [pr |-> p, lex |-> Criteria(o), needed |-> Units(p), features |-> AllProvided(p)]
AnswerMeetsAll ==
  end.kind = "answer" /\ IsFiniteSet(enc.vars) /\ UnitsListed(WholeProblem.pr) /\ UpgradesSafe(WholeProblem)
     /\ (\E m \in Nat : WellPosed(WholeProblem, m) /\ Bounded(Input(e), m)) =>
    Met(WholeProblem, end.units)

(***************************************************************************)
(* What is printed, also after a signal or with a killed program, meets    *)
(* all that the whole document asks for, although the units that were      *)
(* sliced away were never looked at.  It is assumed, besides what          *)
(* AnswerMeetsDemands does, that removed or changed is minimised, or that  *)
(* a request to upgrade admits the latest version that is installed.       *)
(***************************************************************************)
THEOREM AnswerMeetsDocument == Spec => []AnswerMeetsAll
<1>1. Init => SlicedKept
  BY DEF Init, SlicedKept, Encoded
<1>2. IInv /\ SlicedKept /\ AnswerMeets => AnswerMeetsAll
  <2> SUFFICES ASSUME IInv, SlicedKept, AnswerMeets, end.kind = "answer", IsFiniteSet(enc.vars),
                      UnitsListed(WholeProblem.pr), UpgradesSafe(WholeProblem),
                      NEW m \in Nat, WellPosed(WholeProblem, m), Bounded(Input(e), m)
               PROVE  Met(WholeProblem, end.units)
    BY DEF AnswerMeetsAll
  <2>1. Encoded
    BY DEF IInv, Phases, Encoded, NoEnd
  <2> DEFINE p == RefineUpgradeRequest(pr)
  <2>2. e = Sliced(p, Criteria(o))
    BY <2>1 DEF SlicedKept, SlicedOf
  <2>3. e.pr = p /\ e.lex = Criteria(o)
    BY <2>2 DEF Sliced
  <2>4. WholeProblem = Whole(e) /\ WholeProblem.pr = p
    BY <2>3 DEF WholeProblem, Whole
  <2> HIDE DEF p
  <2>5. UnitsListed(p) /\ UpgradesSafe(Whole(e)) /\ WellPosed(Whole(e), m)
    BY <2>4
  <2>6. e.needed \subseteq Units(e.pr) /\ e.features = UNION {Provided(e.pr, i) : i \in e.needed}
    BY <2>2, <2>3, <2>5, SlicedClosed
  <2>7. WellPosed(e, m)
    BY <2>5, <2>6, WholePosed
  <2>8. end.units \subseteq e.needed /\ Met(e, end.units)
    BY <2>7 DEF AnswerMeets
  <2>9. Met(Whole(e), end.units)
    BY <2>2, <2>5, <2>8, SlicingSound
  <2> QED  BY <2>4, <2>9
<1> QED  BY <1>1, <1>2, SlicedInv, AnswerMeetsDemands, PackupInvariance, PTL DEF Spec

FailMeansNone ==
  end.kind = "FAIL" /\ ~ end.signal /\ ~ killed /\ o.mode # "lp" /\ IsFiniteSet(enc.vars) /\ NoneHeavy(e)
     /\ UnitsListed(WholeProblem.pr) /\ (\E m \in Nat : Readable(e, m) /\ WellPosed(WholeProblem, m)) =>
    \A J \in SUBSET Units(WholeProblem.pr) : ~ Met(WholeProblem, J)

(***************************************************************************)
(* FAIL, unless a signal or a killed program left nothing, is printed only *)
(* if no installation of the whole document meets what is asked for.       *)
(***************************************************************************)
THEOREM FailIsJustified == Spec => []FailMeansNone
<1>1. Init => SlicedKept
  BY DEF Init, SlicedKept, Encoded
<1>2. IInv /\ SlicedKept /\ PointsMeet => FailMeansNone
  <2> SUFFICES ASSUME IInv, SlicedKept, PointsMeet,
                      end.kind = "FAIL", ~ end.signal, ~ killed, o.mode # "lp",
                      IsFiniteSet(enc.vars), NoneHeavy(e), UnitsListed(WholeProblem.pr),
                      NEW m \in Nat, Readable(e, m), WellPosed(WholeProblem, m),
                      NEW J, J \subseteq Units(WholeProblem.pr), Met(WholeProblem, J)
               PROVE  FALSE
    BY DEF FailMeansNone
  <2>1. Encoded /\ points = {}
    BY DEF IInv, Phases, EndReasons, Encoded, NoEnd
  <2> DEFINE p == RefineUpgradeRequest(pr)
  <2>2. e = Sliced(p, Criteria(o))
    BY <2>1 DEF SlicedKept, SlicedOf
  <2>3. e.pr = p /\ e.lex = Criteria(o)
    BY <2>2 DEF Sliced
  <2>4. WholeProblem = Whole(e) /\ WholeProblem.pr = p
    BY <2>3 DEF WholeProblem, Whole
  <2> HIDE DEF p
  <2>5. UnitsListed(p) /\ WellPosed(Whole(e), m) /\ J \subseteq Units(p) /\ Met(Whole(e), J)
    BY <2>4
  <2>6. Met(e, J \cap e.needed)
    BY <2>2, <2>5, SlicingKeeps
  <2>7. J \cap e.needed \in {I \in SUBSET e.needed : Met(e, I)}
    BY <2>6
  <2>8. {q.units : q \in points} = {I \in SUBSET e.needed : Met(e, I)}
    BY <2>1 DEF PointsMeet
  <2> QED  BY <2>1, <2>7, <2>8
<1> QED  BY <1>1, <1>2, SlicedInv, PointsExact, PackupInvariance, PTL DEF Spec

-----------------------------------------------------------------------------
(* The document *)

\* the lists of a unit are sequences
ListsRead(u) == u.provides \in Seq(Range(u.provides)) /\ Recommending(u.recommends)

\* p is what was read of the packages P and the request
Reads(p, P, request) ==
  /\ p = [units |-> p.units, install |-> p.install, upgrade |-> p.upgrade, remove |-> p.remove]
  /\ UnitsListed(p) /\ DOMAIN P = Units(p)
  /\ \A i \in Units(p) :
       /\ P[i].name = p.units[i].name /\ P[i].version = p.units[i].version
       /\ P[i].installed = p.units[i].installed /\ P[i].keep = p.units[i].keep
       /\ P[i].depends = p.units[i].depends /\ P[i].conflicts = p.units[i].conflicts
       /\ P[i].provides = p.units[i].provides /\ ListsRead(p.units[i])
       /\ Single(Ref!Given(P[i], "recommends")) => Ref!Conjuncts(P, i, "recommends") = p.units[i].recommends
  /\ p.install = Range(request.install) \cup UNION {HandleKeep(p.units[i]) : i \in Units(p)}
  /\ Range(p.remove) = Range(request.remove) /\ Range(p.upgrade) = Range(request.upgrade)

\* what is asked for anywhere
Asked(P, request) ==
  Range(request.install) \cup Range(request.remove) \cup Range(request.upgrade)
    \cup (UNION {UNION {Range(P[i].depends[k]) : k \in DOMAIN P[i].depends} : i \in DOMAIN P})
    \cup (UNION {Range(P[i].conflicts) : i \in DOMAIN P})

\* Versions are from 1 to m, no name is of a package and of a feature, no
\* version is declared twice, and what is to be upgraded is installed.
Plain(P, request, m) ==
  /\ \A i \in DOMAIN P :
       /\ P[i].version \in 1 .. m /\ P[i].installed \in BOOLEAN
       /\ \A vp \in Range(P[i].provides) :
            /\ vp.op = "none" \/ (vp.op = "=" /\ vp.version \in 1 .. m)
            /\ vp.name \notin {"true!", "false!"} /\ \A j \in DOMAIN P : P[j].name # vp.name
  /\ \A i, j \in DOMAIN P : P[i].name = P[j].name /\ P[i].version = P[j].version => i = j
  /\ \A vp \in Asked(P, request) :
       /\ Askable(vp) /\ vp.name \notin {"true!", "false!"}
       /\ vp = [name |-> vp.name, op |-> vp.op, version |-> vp.version]
  /\ \A vp \in Range(request.upgrade) : Ref!InstalledVersions(P, Ref!Initial(P), vp.name) # {}

\* the library's Range is one operator
LEMMA RangeIs == \A f : Ref!Range(f) = Range(f)
BY DEF Ref!Range, Range

LEMMA CompIs ==
  ASSUME NEW op \in {"none", "=", "!=", ">=", ">", "<=", "<"}, NEW v, NEW w
  PROVE  Ref!Comp(op, v, w) <=> Evaluate(v, op, w)
<1>1. CASE op \in {"none", "=", "!="}
  BY <1>1 DEF Ref!Comp, Evaluate
<1>2. CASE op = ">="
  BY <1>2 DEF Ref!Comp, Evaluate
<1>3. CASE op = ">"
  BY <1>3 DEF Ref!Comp, Evaluate
<1>4. CASE op = "<="
  BY <1>4 DEF Ref!Comp, Evaluate
<1>5. CASE op = "<"
  BY <1>5 DEF Ref!Comp, Evaluate
<1> QED  BY <1>1, <1>2, <1>3, <1>4, <1>5

\* what a unit offers
LEMMA OffersAre ==
  ASSUME NEW w, NEW P, NEW i \in DOMAIN P, NEW m \in Nat, P[i].version \in 1 .. m,
         P[i].name = Unit(w, i).name, P[i].version = Unit(w, i).version, P[i].provides = Unit(w, i).provides,
         \A vq \in Range(P[i].provides) : vq.op = "none" \/ (vq.op = "=" /\ vq.version \in 1 .. m),
         NEW vp, vp.op \in {"none", "=", "!=", ">=", ">", "<=", "<"}
  PROVE  (\E f \in Ref!Offers(P[i]) : Ref!Answers(f, vp)) <=> Answers(w, i, vp)
<1> DEFINE n == vp.name
           T(v) == Evaluate(v, vp.op, vp.version)
<1>1. \A v : Ref!Comp(vp.op, v, vp.version) <=> T(v)
  BY CompIs
<1> HIDE DEF T
<1>2. \A f : Ref!Answers(f, vp) <=> f[1] = n /\ (f[2] = -1 \/ T(f[2]))
  BY <1>1 DEF Ref!Answers, Ref!NoVersion
<1>3. Ref!Answers(Ref!Own(P[i]), vp) <=> Unit(w, i).name = n /\ T(Unit(w, i).version)
  BY <1>2 DEF Ref!Own
<1>4. (\E f \in Ref!Features0(P[i]) : Ref!Answers(f, vp)) <=>
        \E vq \in Range(P[i].provides) : vq.name = n /\ (vq.op = "none" \/ T(vq.version))
  <2>1. \A vq \in Range(P[i].provides) :
          Ref!Answers(<<vq.name, IF vq.op = "none" THEN -1 ELSE vq.version>>, vp) <=>
            vq.name = n /\ (vq.op = "none" \/ T(vq.version))
    BY <1>2
  <2>2. \A f : f \in Ref!Features0(P[i]) <=>
          \E vq \in Range(P[i].provides) : f = <<vq.name, IF vq.op = "none" THEN -1 ELSE vq.version>>
    BY RangeIs DEF Ref!Features0, Ref!NoVersion
  <2> QED  BY <2>1, <2>2
<1>5. (\E f \in Provided(w.pr, i) : f[1] = n /\ (f[2] = 0 \/ T(f[2]))) <=>
        \E vq \in Range(P[i].provides) : vq.name = n /\ (vq.op = "none" \/ T(vq.version))
  <2>1. \A f : f \in Provided(w.pr, i) <=> \E vq \in Range(P[i].provides) : f = FeatureOf(vq)
    BY DEF Provided, Unit
  <2>2. ASSUME NEW vq \in Range(P[i].provides)
        PROVE  /\ FeatureOf(vq)[1] = vq.name
               /\ (FeatureOf(vq)[2] = 0 \/ T(FeatureOf(vq)[2])) <=> (vq.op = "none" \/ T(vq.version))
    BY DEF FeatureOf
  <2> QED  BY <2>1, <2>2
<1>6. Answers(w, i, vp) <=> \/ Unit(w, i).name = n /\ T(Unit(w, i).version)
                            \/ \E f \in Provided(w.pr, i) : f[1] = n /\ (f[2] = 0 \/ T(f[2]))
  BY DEF Answers, T
<1> QED  BY <1>3, <1>4, <1>5, <1>6 DEF Ref!Offers

\* what is read, without slicing
WholeOf(p, lex) == [pr |-> p, lex |-> lex, needed |-> Units(p), features |-> AllProvided(p)]

\* what Reads and Plain say of the units
LEMMA PlainUnits ==
  ASSUME NEW p, NEW P, NEW request, Reads(p, P, request), NEW m \in Nat, Plain(P, request, m),
         NEW w, w.pr.units = p.units, NEW i \in DOMAIN P
  PROVE  /\ P[i].name = Unit(w, i).name /\ P[i].version = Unit(w, i).version
         /\ P[i].installed = Unit(w, i).installed /\ P[i].keep = Unit(w, i).keep
         /\ P[i].depends = Unit(w, i).depends /\ P[i].conflicts = Unit(w, i).conflicts
         /\ P[i].provides = Unit(w, i).provides
         /\ P[i].version \in 1 .. m /\ P[i].installed \in BOOLEAN
         /\ \A vq \in Range(P[i].provides) :
              /\ vq.op = "none" \/ (vq.op = "=" /\ vq.version \in 1 .. m)
              /\ vq.name \notin {"true!", "false!"} /\ \A j \in DOMAIN P : P[j].name # vq.name
<1>1. i \in Units(p) /\ Unit(w, i) = p.units[i]
  BY DEF Reads, Unit
<1> QED  BY <1>1 DEF Reads, Plain

\* to be satisfied is to be answered by a unit
LEMMA SatIs ==
  ASSUME NEW p, NEW P, NEW request, Reads(p, P, request), NEW m \in Nat, Plain(P, request, m),
         NEW w, w.pr.units = p.units, NEW I, I \subseteq DOMAIN P,
         NEW vp, vp.op \in {"none", "=", "!=", ">=", ">", "<=", "<"}, vp.name \notin {"true!", "false!"}
  PROVE  Ref!Sat(P, I, vp) <=> \E j \in I : Answers(w, j, vp)
<1>1. ASSUME NEW j \in I
      PROVE  (\E f \in Ref!Offers(P[j]) : Ref!Answers(f, vp)) <=> Answers(w, j, vp)
  <2>1. j \in DOMAIN P
    OBVIOUS
  <2>2. /\ P[j].name = Unit(w, j).name /\ P[j].version = Unit(w, j).version
        /\ P[j].provides = Unit(w, j).provides /\ P[j].version \in 1 .. m
        /\ \A vq \in Range(P[j].provides) : vq.op = "none" \/ (vq.op = "=" /\ vq.version \in 1 .. m)
    BY <2>1, PlainUnits
  <2> QED  BY <2>1, <2>2, OffersAre
<1>2. Ref!Sat(P, I, vp) <=> \E j \in I : \E f \in Ref!Offers(P[j]) : Ref!Answers(f, vp)
  BY DEF Ref!Sat
<1> QED  BY <1>1, <1>2

\* the units that a request means are those that answer it
LEMMA NeedIsAnswer ==
  ASSUME NEW p, NEW P, NEW request, Reads(p, P, request), NEW m \in Nat, Plain(P, request, m),
         NEW w, w.pr.units = p.units, NEW j \in DOMAIN P,
         NEW vp, vp.op \in {"none", "=", "!=", ">=", ">", "<=", "<"}
  PROVE  j \in NeedVersions(w.pr, vp) <=> Answers(w, j, vp)
<1> DEFINE n == vp.name
           T(v) == Evaluate(v, vp.op, vp.version)
<1>1. Units(w.pr) = DOMAIN P /\ \A i : Unit(w, i) = w.pr.units[i]
  BY DEF Units, Reads, Unit
<1>2. \A i \in DOMAIN P : \A f \in Provided(w.pr, i) : \A k \in DOMAIN P : Unit(w, k).name # f[1]
  <2> SUFFICES ASSUME NEW i \in DOMAIN P, NEW f \in Provided(w.pr, i), NEW k \in DOMAIN P
               PROVE  Unit(w, k).name # f[1]
    OBVIOUS
  <2>1. PICK vq \in Range(Unit(w, i).provides) : f = FeatureOf(vq)
    BY DEF Provided, Unit
  <2>2. P[i].provides = Unit(w, i).provides
        /\ \A vr \in Range(P[i].provides) : \A h \in DOMAIN P : P[h].name # vr.name
    BY PlainUnits
  <2>3. P[k].name = Unit(w, k).name
    BY PlainUnits
  <2> QED  BY <2>1, <2>2, <2>3 DEF FeatureOf
<1>3. \A f : f \in AllProvided(w.pr) <=> \E i \in DOMAIN P : f \in Provided(w.pr, i)
  BY <1>1 DEF AllProvided
<1>4. \A i : \A f \in Provided(w.pr, i) : f = <<f[1], f[2]>>
  BY DEF Provided, FeatureOf
<1>5. CASE IsFeature(w.pr, n)
  <2>1. Unit(w, j).name # n
    BY <1>2, <1>3, <1>5 DEF IsFeature
  <2>2. NeedVersions(w.pr, vp) = NeedFeatures(w.pr, vp)
    BY <1>5 DEF NeedVersions
  <2>3. j \in NeedFeatures(w.pr, vp) <=>
          \E v \in {0} \cup {x \in FeatureVersions(w.pr, n) : T(x)} : <<n, v>> \in Provided(w.pr, j)
    <3> DEFINE S == {0} \cup {x \in FeatureVersions(w.pr, n) : T(x)}
    <3>1. NeedFeatures(w.pr, vp) = UNION {FeatureUnits(w.pr, <<n, v>>) : v \in S}
      BY DEF NeedFeatures
    <3>2. \A v : j \in FeatureUnits(w.pr, <<n, v>>) <=> <<n, v>> \in Provided(w.pr, j)
      BY <1>1 DEF FeatureUnits
    <3> HIDE DEF S
    <3>3. j \in NeedFeatures(w.pr, vp) <=> \E v \in S : <<n, v>> \in Provided(w.pr, j)
      BY <3>1, <3>2
    <3> QED  BY <3>3 DEF S
  <2>4. ASSUME NEW f \in Provided(w.pr, j), f[1] = n PROVE f[2] \in FeatureVersions(w.pr, n) /\ f = <<n, f[2]>>
    BY <1>3, <1>4, <2>4 DEF FeatureVersions
  <2>5. Answers(w, j, vp) <=> \E f \in Provided(w.pr, j) : f[1] = n /\ (f[2] = 0 \/ T(f[2]))
    BY <2>1 DEF Answers
  <2> HIDE DEF T, n
  <2>6. ASSUME NEW v, <<n, v>> \in Provided(w.pr, j) PROVE <<n, v>>[1] = n /\ <<n, v>>[2] = v
    OBVIOUS
  <2> QED  BY <2>2, <2>3, <2>4, <2>5, <2>6
<1>6. CASE ~ IsFeature(w.pr, n)
  <2>1. \A f \in Provided(w.pr, j) : f[1] # n
    BY <1>3, <1>6 DEF IsFeature
  <2>2. NeedVersions(w.pr, vp) = NeedPackages(w.pr, vp)
    BY <1>6 DEF NeedVersions
  <2> QED  BY <1>1, <2>1, <2>2 DEF NeedPackages, ReadUnits, Answers
<1> QED  BY <1>5, <1>6

\* the versions of a name, NoVersion for version 0
LEMMA InstalledAre ==
  ASSUME NEW p, NEW P, NEW request, Reads(p, P, request), NEW m \in Nat, Plain(P, request, m),
         NEW w, w.pr.units = p.units, w.features = AllProvided(w.pr), NEW I, I \subseteq DOMAIN P, NEW n
  PROVE  /\ InstalledVersions(w, I, n) \subseteq 0 .. m
         /\ Ref!InstalledVersions(P, I, n) = {IF v = 0 THEN -1 ELSE v : v \in InstalledVersions(w, I, n)}
<1>0. w.features = AllProvided(w.pr) /\ Units(w.pr) = DOMAIN P
  BY DEF Units, Reads
<1>1. ASSUME NEW i \in I
      PROVE  /\ P[i].name = Unit(w, i).name /\ P[i].version = Unit(w, i).version
             /\ P[i].provides = Unit(w, i).provides /\ P[i].version \in 1 .. m
             /\ \A vq \in Range(P[i].provides) :
                  /\ vq.op = "none" \/ (vq.op = "=" /\ vq.version \in 1 .. m)
                  /\ \A j \in DOMAIN P : P[j].name # vq.name
  BY <1>0, PlainUnits
<1> DEFINE Own(i, x) == Unit(w, i).name = n /\ x = Unit(w, i).version
           Of(i, x) == \E vq \in Range(P[i].provides) : vq.name = n /\ x = IF vq.op = "none" THEN 0 ELSE vq.version
           OfVersion(i, x) ==
             \E vq \in Range(P[i].provides) : vq.name = n /\ x = IF vq.op = "none" THEN -1 ELSE vq.version
           V == InstalledVersions(w, I, n)
<1>2. \A x : x \in Ref!InstalledVersions(P, I, n) <=>
        \E i \in I : Own(i, x) \/ OfVersion(i, x)
  <2>1. \A x : x \in Ref!InstalledVersions(P, I, n) <=>
          \E i \in I : \E f \in Ref!Offers(P[i]) : f[1] = n /\ x = f[2]
    BY DEF Ref!InstalledVersions
  <2>2. ASSUME NEW i \in I, NEW x
        PROVE  (\E f \in Ref!Offers(P[i]) : f[1] = n /\ x = f[2]) <=> Own(i, x) \/ OfVersion(i, x)
    <3> DEFINE t == <<Unit(w, i).name, Unit(w, i).version>>
               G(vq) == <<vq.name, IF vq.op = "none" THEN -1 ELSE vq.version>>
               T(f) == f[1] = n /\ x = f[2]
    <3>1. \A f : f \in Ref!Offers(P[i]) <=> f = t \/ \E vq \in Range(P[i].provides) : f = G(vq)
      BY <1>1, RangeIs DEF Ref!Offers, Ref!Own, Ref!Features0, Ref!NoVersion
    <3>2. T(t) <=> Own(i, x)
      OBVIOUS
    <3>3. \A vq : T(G(vq)) <=> vq.name = n /\ x = IF vq.op = "none" THEN -1 ELSE vq.version
      OBVIOUS
    <3>4. (\E f \in Ref!Offers(P[i]) : T(f)) <=> T(t) \/ \E vq \in Range(P[i].provides) : T(G(vq))
      <4> HIDE DEF t, G, T
      <4> QED  BY <3>1
    <3> HIDE DEF t, G, Own
    <3> QED  BY <3>2, <3>3, <3>4
  <2> HIDE DEF Own, OfVersion
  <2> QED  BY <2>1, <2>2
<1>3. \A i \in I : \A x : (\E f \in Provided(w.pr, i) : f[1] = n /\ f[2] = x) <=> Of(i, x)
  <2> SUFFICES ASSUME NEW i \in I, NEW x
               PROVE  (\E f \in Provided(w.pr, i) : f[1] = n /\ f[2] = x) <=> Of(i, x)
    OBVIOUS
  <2>1. \A f : f \in Provided(w.pr, i) <=> \E vq \in Range(P[i].provides) : f = FeatureOf(vq)
    BY <1>0, <1>1 DEF Provided, Unit
  <2>2. \A vq : FeatureOf(vq)[1] = vq.name /\ FeatureOf(vq)[2] = IF vq.op = "none" THEN 0 ELSE vq.version
    BY DEF FeatureOf
  <2> QED  BY <2>1, <2>2
<1>4. NeededFeature(w, n) => \A i \in I : Unit(w, i).name # n
  <2> SUFFICES ASSUME NeededFeature(w, n), NEW i \in I PROVE Unit(w, i).name # n
    OBVIOUS
  <2>1. PICK k \in DOMAIN P : \E f \in Provided(w.pr, k) : f[1] = n
    BY <1>0 DEF NeededFeature, AllProvided
  <2>2. PICK vq \in Range(Unit(w, k).provides) : FeatureOf(vq)[1] = n
    BY <1>0, <2>1 DEF Provided, Unit
  <2>3. P[k].provides = Unit(w, k).provides
        /\ \A vr \in Range(P[k].provides) : \A j \in DOMAIN P : P[j].name # vr.name
    BY <1>0, PlainUnits
  <2>4. vq.name = n
    BY <2>2 DEF FeatureOf
  <2> QED  BY <1>1, <2>2, <2>3, <2>4
<1>5. ~ NeededFeature(w, n) => \A i \in I : \A x : ~ Of(i, x)
  <2>1. ~ NeededFeature(w, n) => \A i \in I : \A f \in Provided(w.pr, i) : f[1] # n
    BY <1>0 DEF NeededFeature, AllProvided
  <2> HIDE DEF Of
  <2> QED  BY <1>3, <2>1
<1>6. \A x : x \in V <=> \E i \in I : Own(i, x) \/ Of(i, x)
  <2>1. CASE NeededFeature(w, n)
    <3>1. \A x : x \in V <=> \E i \in I : \E f \in Provided(w.pr, i) : f[1] = n /\ f[2] = x
      BY <1>0, <2>1 DEF InstalledVersions
    <3>2. \A i \in I : \A x : ~ Own(i, x)
      BY <1>4, <2>1
    <3> HIDE DEF Own, Of, V
    <3> QED  BY <1>3, <3>1, <3>2
  <2>2. CASE ~ NeededFeature(w, n)
    <3>1. \A x : x \in V <=> \E i \in I : Own(i, x)
      BY <2>2 DEF InstalledVersions
    <3> HIDE DEF Own, Of, V
    <3> QED  BY <1>5, <2>2, <3>1
  <2> QED  BY <2>1, <2>2
<1> HIDE DEF V
<1>7. \A i \in I : \A x : (Own(i, x) => x \in 1 .. m) /\ (Of(i, x) => x \in 0 .. m)
  BY <1>1
<1>8. V \subseteq 0 .. m
  <2> HIDE DEF Own, Of
  <2>1. \A x : x \in 1 .. m => x \in 0 .. m
    OBVIOUS
  <2> QED  BY <1>6, <1>7, <2>1
<1>9. ASSUME NEW i \in I, NEW x
      PROVE  Own(i, x) \/ OfVersion(i, x) <=> \E v : (Own(i, v) \/ Of(i, v)) /\ x = IF v = 0 THEN -1 ELSE v
  <2>1. Own(i, x) => x # 0 /\ x = IF x = 0 THEN -1 ELSE x
    BY <1>1
  <2>2. ASSUME NEW v, Own(i, v), x = IF v = 0 THEN -1 ELSE v PROVE Own(i, x)
    BY <1>1, <2>2
  <2>3. OfVersion(i, x) <=> \E v : Of(i, v) /\ x = IF v = 0 THEN -1 ELSE v
    <3>1. \A vq \in Range(P[i].provides) : vq.op # "none" => vq.version # 0
      BY <1>1
    <3> QED  BY <3>1
  <2> HIDE DEF Own, Of, OfVersion
  <2> QED  BY <2>1, <2>2, <2>3
<1>10. \A x : x \in Ref!InstalledVersions(P, I, n) <=> \E v \in V : x = IF v = 0 THEN -1 ELSE v
  <2>1. ASSUME NEW x
        PROVE  x \in Ref!InstalledVersions(P, I, n) <=>
                 \E i \in I : \E v : (Own(i, v) \/ Of(i, v)) /\ x = IF v = 0 THEN -1 ELSE v
    <3> HIDE DEF Own, Of, OfVersion
    <3> QED  BY <1>2, <1>9
  <2> HIDE DEF Own, Of, OfVersion
  <2> QED  BY <1>6, <2>1
<1> QED  BY <1>8, <1>10 DEF V

\* what RefineUpgradeRequest changes
LEMMA RefineFields ==
  ASSUME NEW p, p = [units |-> p.units, install |-> p.install, upgrade |-> p.upgrade, remove |-> p.remove],
         NEW r, r = RefineUpgradeRequest(p)
  PROVE  /\ r.units = p.units /\ r.install = p.install /\ r.remove = p.remove
         /\ DOMAIN r.upgrade = DOMAIN p.upgrade
         /\ \A k \in DOMAIN p.upgrade :
              LET vp == p.upgrade[k] IN
                r.upgrade[k] = IF vp.op = "none" /\ LatestInstalled(p, vp.name) # 0
                               THEN [vp EXCEPT !.op = ">=", !.version = LatestInstalled(p, vp.name)] ELSE vp
<1> DEFINE Refined(vp) ==
             IF vp.op = "none" /\ LatestInstalled(p, vp.name) # 0
             THEN [vp EXCEPT !.op = ">=", !.version = LatestInstalled(p, vp.name)] ELSE vp
           U == [k \in DOMAIN p.upgrade |-> Refined(p.upgrade[k])]
<1>1. r = [p EXCEPT !.upgrade = U]
  BY DEF RefineUpgradeRequest
<1> HIDE DEF U
<1>2. r.units = p.units /\ r.install = p.install /\ r.remove = p.remove /\ r.upgrade = U
  BY <1>1
<1> QED  BY <1>2 DEF U

\* the installed versions, the latest of which LatestNeeded and LatestInstalled are
LEMMA LatestOfInstalled ==
  ASSUME NEW p, NEW P, NEW request, Reads(p, P, request), NEW m \in Nat, Plain(P, request, m),
         NEW w, w.pr.units = p.units, w.needed = Units(w.pr), w.features = AllProvided(w.pr), NEW n,
         NEW W, W = InstalledVersions(w, Ref!Initial(P), n)
  PROVE  /\ LatestNeeded(w, n) = Max({-1} \cup W)
         /\ LatestInstalled(p, n) = Max({0} \cup W)
<1>1. Units(w.pr) = DOMAIN P /\ Units(p) = DOMAIN P /\ \A i : Unit(w, i) = p.units[i]
  BY DEF Units, Reads, Unit
<1>2. \A i \in DOMAIN P : P[i].installed = Unit(w, i).installed
  BY <1>1, PlainUnits
<1>3. Ref!Initial(P) = {i \in DOMAIN P : Unit(w, i).installed}
  BY <1>2 DEF Ref!Initial
<1>4. IsFeature(w.pr, n) <=> NeededFeature(w, n)
  BY DEF IsFeature, NeededFeature
<1>5. /\ \A i : Provided(p, i) = Provided(w.pr, i)
      /\ AllProvided(p) = AllProvided(w.pr) /\ (IsFeature(p, n) <=> IsFeature(w.pr, n))
      /\ FeatureVersions(p, n) = FeatureVersions(w.pr, n)
      /\ \A f : IsInstalledFeature(p, f) <=> IsInstalledFeature(w.pr, f)
  BY DEF Provided, AllProvided, IsFeature, FeatureVersions, IsInstalledFeature, IsAnyInstalled, FeatureUnits, Units
<1>6. CASE NeededFeature(w, n)
  <2> DEFINE S == {v \in FeatureVersions(w.pr, n) : IsInstalledFeature(w.pr, <<n, v>>)}
  <2>1. Versions(w, n) = FeatureVersions(w.pr, n)
    BY <1>6 DEF Versions, FeatureVersions
  <2>2. LatestNeeded(w, n) = Max({-1} \cup S) /\ LatestInstalled(p, n) = Max({0} \cup S)
    BY <1>4, <1>5, <1>6, <2>1 DEF LatestNeeded, LatestInstalled
  <2>3. \A i : \A f \in Provided(w.pr, i) : f = <<f[1], f[2]>>
    BY DEF Provided, FeatureOf
  <2>4. \A v : v \in W <=> \E i \in Ref!Initial(P) : \E f \in Provided(w.pr, i) : f[1] = n /\ f[2] = v
    BY <1>6 DEF InstalledVersions
  <2>5. \A v : v \in W <=> \E i \in Ref!Initial(P) : <<n, v>> \in Provided(w.pr, i)
    <3>1. \A v : <<n, v>>[1] = n /\ <<n, v>>[2] = v
      OBVIOUS
    <3> QED  BY <2>3, <2>4, <3>1
  <2>6. \A v : IsInstalledFeature(w.pr, <<n, v>>) <=> \E i \in Ref!Initial(P) : <<n, v>> \in Provided(w.pr, i)
    BY <1>1, <1>3 DEF IsInstalledFeature, IsAnyInstalled, FeatureUnits, Unit
  <2>7. \A v : (\E i \in Ref!Initial(P) : <<n, v>> \in Provided(w.pr, i)) => v \in FeatureVersions(w.pr, n)
    <3> SUFFICES ASSUME NEW v, NEW i \in Ref!Initial(P), <<n, v>> \in Provided(w.pr, i)
                 PROVE  v \in FeatureVersions(w.pr, n)
      OBVIOUS
    <3>1. <<n, v>> \in AllProvided(w.pr)
      BY <1>1, <1>3 DEF AllProvided
    <3>2. <<n, v>>[1] = n /\ <<n, v>>[2] = v
      OBVIOUS
    <3> QED  BY <3>1, <3>2 DEF FeatureVersions
  <2>8. S = W
    BY <2>5, <2>6, <2>7
  <2> QED  BY <2>2, <2>8
<1>7. CASE ~ NeededFeature(w, n)
  <2>1. W = {Unit(w, i).version : i \in {j \in Ref!Initial(P) : Unit(w, j).name = n}}
    BY <1>7 DEF InstalledVersions
  <2>2. {j \in NeededUnits(w, n) : Unit(w, j).installed} = {j \in Ref!Initial(P) : Unit(w, j).name = n}
    BY <1>1, <1>3 DEF NeededUnits
  <2>3. {j \in ReadUnits(p, n) : p.units[j].installed} = {j \in Ref!Initial(P) : Unit(w, j).name = n}
    BY <1>1, <1>3 DEF ReadUnits
  <2>4. LatestNeeded(w, n) = Max({-1} \cup W)
    BY <1>4, <1>7, <2>1, <2>2 DEF LatestNeeded
  <2>5. LatestInstalled(p, n) = Max({0} \cup W)
    <3>1. ~ IsFeature(p, n)
      BY <1>4, <1>5, <1>7
    <3>2. {p.units[i].version : i \in {j \in ReadUnits(p, n) : p.units[j].installed}} = W
      BY <1>1, <2>1, <2>3
    <3> QED  BY <3>1, <3>2 DEF LatestInstalled
  <2> QED  BY <2>4, <2>5
<1> QED  BY <1>6, <1>7

\* a name that is installed has a latest version, the same for both
LEMMA LatestAgree ==
  ASSUME NEW p, NEW P, NEW request, Reads(p, P, request), NEW m \in Nat, Plain(P, request, m),
         NEW w, w.pr.units = p.units, w.needed = Units(w.pr), w.features = AllProvided(w.pr), NEW n,
         NEW W, W = InstalledVersions(w, Ref!Initial(P), n), W # {}, NEW L, L = LatestNeeded(w, n)
  PROVE  L = LatestInstalled(p, n) /\ L \in W /\ W \subseteq 0 .. m /\ \A x \in W : x <= L
<1>1. LatestNeeded(w, n) = Max({-1} \cup W) /\ LatestInstalled(p, n) = Max({0} \cup W)
  BY LatestOfInstalled
<1>2. W \subseteq 0 .. m
  <2>1. Ref!Initial(P) \subseteq DOMAIN P
    BY DEF Ref!Initial
  <2> QED  BY <2>1, InstalledAre
<1>3. Max(W) \in W /\ \A x \in W : x <= Max(W)
  BY <1>2, GreatestOf
<1>4. \A S : Max(S) = CHOOSE x \in S : \A y \in S : x >= y
  BY DEF Max
<1> DEFINE g == Max(W)
<1> HIDE DEF g
<1>5. g \in W /\ g \in Int /\ g >= 0 /\ \A x \in W : x \in Int /\ x >= 0 /\ x <= g
  BY <1>2, <1>3 DEF g
<1>6. ASSUME NEW d \in {0, -1} PROVE Max({d} \cup W) = g
  <2>1. \A x \in {d} \cup W : x \in Int /\ x <= g
    BY <1>5
  <2>2. g \in {d} \cup W /\ \A y \in {d} \cup W : g >= y
    BY <1>5, <2>1
  <2>3. \A x \in {d} \cup W : (\A y \in {d} \cup W : x >= y) => x = g
    BY <1>5, <2>1, <2>2
  <2> QED  BY <1>4, <2>2, <2>3
<1> QED  BY <1>1, <1>2, <1>5, <1>6

\* w is the whole of what Plain packages were read as
Wholly(w, p, P, request, m) ==
  /\ Reads(p, P, request) /\ Plain(P, request, m)
  /\ w.pr.units = p.units /\ w.needed = Units(w.pr) /\ w.features = AllProvided(w.pr)

LEMMA AnswerVersion ==
  ASSUME NEW p, NEW P, NEW request, NEW m \in Nat, NEW w, Wholly(w, p, P, request, m),
         NEW I, I \subseteq DOMAIN P, NEW vp, NEW n, n = vp.name
  PROVE  /\ \A j \in I : Answers(w, j, vp) =>
              \E x \in InstalledVersions(w, I, n) : x = 0 \/ Evaluate(x, vp.op, vp.version)
         /\ InstalledVersions(w, I, n) \subseteq Versions(w, n)
         /\ 0 \in InstalledVersions(w, I, n) => NeededFeature(w, n)
<1>1. Units(w.pr) = DOMAIN P /\ w.needed = DOMAIN P /\ w.features = AllProvided(w.pr)
  BY DEF Wholly, Units, Reads
<1>2. \A j \in DOMAIN P : P[j].name = Unit(w, j).name /\ P[j].provides = Unit(w, j).provides
                          /\ Unit(w, j).version \in 1 .. m
                          /\ \A vq \in Range(P[j].provides) : \A k \in DOMAIN P : P[k].name # vq.name
  BY PlainUnits DEF Wholly
<1>3. \A j \in DOMAIN P : \A f \in Provided(w.pr, j) : f \in w.features
  BY <1>1 DEF AllProvided
<1>4. CASE NeededFeature(w, n)
  <2>1. \A x : x \in InstalledVersions(w, I, n) <=> \E j \in I : \E f \in Provided(w.pr, j) : f[1] = n /\ f[2] = x
    BY <1>4 DEF InstalledVersions
  <2>2. \A j \in I : Unit(w, j).name # n
    <3>1. PICK k \in DOMAIN P : \E f \in Provided(w.pr, k) : f[1] = n
      BY <1>1, <1>4 DEF NeededFeature, AllProvided
    <3>2. PICK vq \in Range(Unit(w, k).provides) : FeatureOf(vq)[1] = n
      BY <3>1 DEF Provided, Unit
    <3>3. vq.name = n
      BY <3>2 DEF FeatureOf
    <3> QED  BY <1>2, <3>2, <3>3
  <2>3. InstalledVersions(w, I, n) \subseteq Versions(w, n)
    BY <1>3, <1>4, <2>1 DEF Versions
  <2>4. ASSUME NEW j \in I, Answers(w, j, vp)
        PROVE  \E x \in InstalledVersions(w, I, n) : x = 0 \/ Evaluate(x, vp.op, vp.version)
    <3>1. PICK f \in Provided(w.pr, j) : f[1] = n /\ (f[2] = 0 \/ Evaluate(f[2], vp.op, vp.version))
      BY <2>2, <2>4 DEF Answers
    <3>2. f[2] \in InstalledVersions(w, I, n)
      BY <2>1, <3>1
    <3> QED  BY <3>1, <3>2
  <2> QED  BY <1>4, <2>3, <2>4
<1>5. CASE ~ NeededFeature(w, n)
  <2>1. \A x : x \in InstalledVersions(w, I, n) <=> \E j \in I : Unit(w, j).name = n /\ x = Unit(w, j).version
    BY <1>5 DEF InstalledVersions
  <2>2. \A j \in I : \A f \in Provided(w.pr, j) : f[1] # n
    BY <1>3, <1>5 DEF NeededFeature
  <2>3. InstalledVersions(w, I, n) \subseteq Versions(w, n)
    BY <1>1, <1>5, <2>1 DEF Versions, UnitVersions, NeededUnits
  <2>4. 0 \notin InstalledVersions(w, I, n)
    BY <1>2, <2>1
  <2>5. ASSUME NEW j \in I, Answers(w, j, vp)
        PROVE  \E x \in InstalledVersions(w, I, n) : x = 0 \/ Evaluate(x, vp.op, vp.version)
    <3>1. Unit(w, j).name = n /\ Evaluate(Unit(w, j).version, vp.op, vp.version)
      BY <2>2, <2>5 DEF Answers
    <3> QED  BY <2>1, <3>1
  <2> QED  BY <2>3, <2>4, <2>5
<1> QED  BY <1>4, <1>5

\* a request without a version is answered by whatever has the name
LEMMA AnswersAny ==
  ASSUME NEW w, NEW j, NEW vp, NEW vq, vp.op = "none", vp.name = vq.name, Answers(w, j, vq)
  PROVE  Answers(w, j, vp)
BY DEF Answers, Evaluate

\* vq is what becomes of the request vp to upgrade, L being the latest installed version
Refines(vq, vp, L) ==
  /\ vq.name = vp.name
  /\ IF vp.op = "none" /\ L # 0 THEN vq.op = ">=" /\ vq.version = L ELSE vq = vp

\* the versions of n that are left after an upgrade
Raised(w, I, n) ==
  /\ LatestNeeded(w, n) >= 0 =>
       \E v \in Versions(w, n) : v >= LatestNeeded(w, n) /\ InstalledVersions(w, I, n) = {v}
  /\ NeededFeature(w, n) => 0 \notin InstalledVersions(w, I, n)

\* an upgrade
LEMMA UpgradeIs ==
  ASSUME NEW p, NEW P, NEW request, NEW m \in Nat, NEW w, Wholly(w, p, P, request, m),
         NEW I, I \subseteq DOMAIN P, NEW vp \in Range(request.upgrade),
         NEW vq, Refines(vq, vp, LatestNeeded(w, vp.name))
  PROVE  Ref!Upgraded(P, I, vp) <=> (\E j \in I : Answers(w, j, vq)) /\ Raised(w, I, vp.name)
<1> SUFFICES ASSUME NEW n, n = vp.name, NEW L, L = LatestNeeded(w, n), NEW V, V = InstalledVersions(w, I, n),
                    vq.name = n, vp.op = "none" /\ L # 0 => vq.op = ">=" /\ vq.version = L,
                    ~ (vp.op = "none" /\ L # 0) => vq = vp
             PROVE  Ref!Upgraded(P, I, vp) <=>
                      /\ \E j \in I : Answers(w, j, vq)
                      /\ L >= 0 => \E v \in Versions(w, n) : v >= L /\ V = {v}
                      /\ NeededFeature(w, n) => 0 \notin V
  BY DEF Refines, Raised
<1> DEFINE W == InstalledVersions(w, Ref!Initial(P), n)
           VN == Ref!InstalledVersions(P, I, n)
           WN == Ref!InstalledVersions(P, Ref!Initial(P), n)
           N(v) == IF v = 0 THEN -1 ELSE v
<1>1. /\ vp.op \in {"none", "=", "!=", ">=", ">", "<=", "<"} /\ vp.name \notin {"true!", "false!"}
      /\ vp \in Asked(P, request)
  BY DEF Wholly, Plain, Asked, Askable
<1>2. Ref!Initial(P) \subseteq DOMAIN P
  BY DEF Ref!Initial
<1>3. V \subseteq 0 .. m /\ VN = {N(v) : v \in V}
  BY InstalledAre DEF Wholly
<1>4. W \subseteq 0 .. m /\ WN = {N(v) : v \in W}
  BY <1>2, InstalledAre DEF Wholly
<1>5. WN # {}
  BY DEF Wholly, Plain
<1>6. W # {}
  BY <1>4, <1>5
<1>7. L \in W /\ \A x \in W : x <= L
  <2>1. /\ Reads(p, P, request) /\ Plain(P, request, m) /\ w.pr.units = p.units
        /\ w.needed = Units(w.pr) /\ w.features = AllProvided(w.pr)
    BY DEF Wholly
  <2> HIDE DEF N
  <2> QED  BY <1>6, <2>1, LatestAgree
<1>8. L \in 0 .. m
  BY <1>4, <1>7
<1>9. Ref!Sat(P, I, vp) <=> \E j \in I : Answers(w, j, vp)
  BY <1>1, SatIs DEF Wholly
<1>10. Ref!Upgraded(P, I, vp) <=>
         /\ \E j \in I : Answers(w, j, vp)
         /\ \E v \in VN : VN = {v} /\ v # -1 /\ \A x \in WN : v >= x
  BY <1>9 DEF Ref!Upgraded, Ref!NoVersion
<1>11. V \subseteq Versions(w, n) /\ (0 \in V => NeededFeature(w, n))
  BY AnswerVersion
<1>12. \A j \in I : Answers(w, j, vp) => \E x \in V : x = 0 \/ Evaluate(x, vp.op, vp.version)
  BY AnswerVersion
<1> HIDE DEF W, VN, WN
<1>13. ASSUME \E j \in I : Answers(w, j, vp), NEW v \in VN, VN = {v}, v # -1, \A x \in WN : v >= x
       PROVE  /\ \E j \in I : Answers(w, j, vq)
              /\ L >= 0 => \E y \in Versions(w, n) : y >= L /\ V = {y}
              /\ NeededFeature(w, n) => 0 \notin V
  <2>1. v \in V /\ v # 0
    <3>1. PICK y \in V : v = N(y)
      BY <1>3
    <3> QED  BY <1>13, <3>1
  <2>2. V = {v}
    <3> SUFFICES ASSUME NEW y \in V PROVE y = v
      BY <2>1
    <3>1. N(y) \in VN
      BY <1>3
    <3>2. N(y) = v
      BY <1>13, <3>1
    <3> QED  BY <1>13, <3>2
  <2>3. v >= L
    <3>1. N(L) \in WN
      BY <1>4, <1>7
    <3>2. v >= N(L)
      BY <1>13, <3>1
    <3>3. v \in 1 .. m
      BY <1>3, <2>1
    <3> QED  BY <1>8, <3>2, <3>3
  <2>4. \E j \in I : Answers(w, j, vq)
    <3>1. CASE vp.op = "none" /\ L # 0
      <4>1. PICK j \in I : Answers(w, j, vp)
        BY <1>13
      <4>2. \A x \in InstalledVersions(w, {j}, n) : x \in V
        BY <4>1 DEF InstalledVersions
      <4>3. PICK x \in InstalledVersions(w, {j}, n) : TRUE
        <5>1. {j} \subseteq DOMAIN P
          BY <4>1
        <5> QED  BY <4>1, <5>1, AnswerVersion
      <4>4. x = v
        BY <2>2, <4>2
      <4>5. Evaluate(v, vq.op, vq.version)
        BY <2>3, <3>1 DEF Evaluate
      <4>6. Answers(w, j, vq)
        <5>1. CASE NeededFeature(w, n)
          <6>1. PICK f \in Provided(w.pr, j) : f[1] = n /\ f[2] = v
            BY <4>3, <4>4, <5>1 DEF InstalledVersions
          <6> QED  BY <4>5, <6>1 DEF Answers
        <5>2. CASE ~ NeededFeature(w, n)
          <6>1. Unit(w, j).name = n /\ Unit(w, j).version = v
            BY <4>3, <4>4, <5>2 DEF InstalledVersions
          <6> QED  BY <4>5, <6>1 DEF Answers
        <5> QED  BY <5>1, <5>2
      <4> QED  BY <4>1, <4>6
    <3>2. CASE ~ (vp.op = "none" /\ L # 0)
      BY <1>13, <3>2
    <3> QED  BY <3>1, <3>2
  <2> QED  BY <1>11, <2>1, <2>2, <2>3, <2>4
<1>14. ASSUME NEW j \in I, Answers(w, j, vq), L >= 0 => \E v \in Versions(w, n) : v >= L /\ V = {v},
              NeededFeature(w, n) => 0 \notin V
       PROVE  /\ \E i \in I : Answers(w, i, vp)
              /\ \E v \in VN : VN = {v} /\ v # -1 /\ \A x \in WN : v >= x
  <2>1. Answers(w, j, vp)
    <3>1. CASE vp.op = "none" /\ L # 0
      BY <1>14, <3>1, AnswersAny
    <3>2. CASE ~ (vp.op = "none" /\ L # 0)
      BY <1>14, <3>2
    <3> QED  BY <3>1, <3>2
  <2>2. PICK v \in Versions(w, n) : v >= L /\ V = {v}
    BY <1>8, <1>14
  <2>3. v # 0 /\ v \in 1 .. m
    BY <1>3, <1>11, <1>14, <2>2
  <2>4. VN = {v}
    BY <1>3, <2>2, <2>3
  <2>5. ASSUME NEW x \in WN PROVE v >= x
    <3>1. PICK y \in W : x = N(y)
      BY <1>4
    <3>2. y <= L /\ y \in 0 .. m
      BY <1>4, <1>7
    <3> QED  BY <1>8, <2>2, <2>3, <3>1, <3>2
  <2> QED  BY <2>1, <2>3, <2>4, <2>5
<1> QED  BY <1>10, <1>13, <1>14

LEMMA DependsIs ==
  ASSUME NEW p, NEW P, NEW request, NEW m \in Nat, NEW w, Wholly(w, p, P, request, m),
         NEW I, I \subseteq DOMAIN P
  PROVE  DependsMet(w, I) <=>
           \A i \in I : \A k \in DOMAIN P[i].depends : \E vp \in Range(P[i].depends[k]) : Ref!Sat(P, I, vp)
<1>1. ASSUME NEW i \in I, NEW k \in DOMAIN P[i].depends, NEW vp \in Range(P[i].depends[k])
      PROVE  Ref!Sat(P, I, vp) <=> \E j \in I : Answers(w, j, vp)
  <2>1. vp \in Asked(P, request)
    BY DEF Asked
  <2>2. vp.op \in {"none", "=", "!=", ">=", ">", "<=", "<"} /\ vp.name \notin {"true!", "false!"}
    BY <2>1 DEF Wholly, Plain, Askable
  <2> QED  BY <2>2, SatIs DEF Wholly
<1>2. \A i \in I : P[i].depends = Unit(w, i).depends
  BY PlainUnits DEF Wholly
<1> QED  BY <1>1, <1>2 DEF DependsMet

LEMMA ConflictsAre ==
  ASSUME NEW p, NEW P, NEW request, NEW m \in Nat, NEW w, Wholly(w, p, P, request, m),
         NEW I, I \subseteq DOMAIN P
  PROVE  ConflictsKept(w, I) <=>
           \A i \in I : \A vp \in Range(P[i].conflicts) : ~ Ref!Sat(P, I \ {i}, vp)
<1>1. ASSUME NEW i \in I, NEW vp \in Range(P[i].conflicts)
      PROVE  I \cap NeedVersions(w.pr, vp) \subseteq {i} <=> ~ Ref!Sat(P, I \ {i}, vp)
  <2>1. vp \in Asked(P, request)
    BY DEF Asked
  <2>2. vp.op \in {"none", "=", "!=", ">=", ">", "<=", "<"} /\ vp.name \notin {"true!", "false!"}
    BY <2>1 DEF Wholly, Plain, Askable
  <2>3. I \ {i} \subseteq DOMAIN P
    OBVIOUS
  <2>4. Ref!Sat(P, I \ {i}, vp) <=> \E j \in I \ {i} : Answers(w, j, vp)
    BY <2>2, <2>3, SatIs DEF Wholly
  <2>5. \A j \in I : j \in NeedVersions(w.pr, vp) <=> Answers(w, j, vp)
    BY <2>2, NeedIsAnswer DEF Wholly
  <2> QED  BY <2>4, <2>5
<1>2. \A i \in I : P[i].conflicts = Unit(w, i).conflicts
  BY PlainUnits DEF Wholly
<1> QED  BY <1>1, <1>2 DEF ConflictsKept

\* what an installed package keeps is asked for like the rest
LEMMA KeptIs ==
  ASSUME NEW p, NEW P, NEW request, NEW m \in Nat, NEW w, Wholly(w, p, P, request, m),
         NEW I, I \subseteq DOMAIN P, NEW i \in DOMAIN P
  PROVE  (i \in Ref!Initial(P) => Ref!KeptPackage(P, I, i)) <=>
           \A vp \in HandleKeep(Unit(w, i)) : \E j \in I : Answers(w, j, vp)
<1> DEFINE u == Unit(w, i)
           Ask(vp) == \E j \in I : Answers(w, j, vp)
<1>1. /\ P[i].name = u.name /\ P[i].version = u.version /\ P[i].installed = u.installed
      /\ P[i].keep = u.keep /\ P[i].provides = u.provides /\ u.version \in 1 .. m /\ u.installed \in BOOLEAN
      /\ \A vq \in Range(u.provides) :
           /\ vq.op = "none" \/ (vq.op = "=" /\ vq.version \in 1 .. m)
           /\ vq.name \notin {"true!", "false!"}
  BY PlainUnits DEF Wholly
<1>2. i \in Ref!Initial(P) <=> u.installed
  BY <1>1 DEF Ref!Initial
<1>3. CASE ~ u.installed
  BY <1>2, <1>3 DEF HandleKeep
<1>4. \A j \in I : \A f \in Provided(w.pr, j) : f[1] # u.name
  <2> SUFFICES ASSUME NEW j \in I, NEW f \in Provided(w.pr, j) PROVE f[1] # u.name
    OBVIOUS
  <2>1. PICK vq \in Range(Unit(w, j).provides) : f = FeatureOf(vq)
    BY DEF Provided, Unit
  <2>2. j \in DOMAIN P
    OBVIOUS
  <2>3. vq.name # u.name
    BY <1>1, <2>1, <2>2, PlainUnits DEF Wholly
  <2> QED  BY <2>1, <2>3 DEF FeatureOf
<1>5. CASE u.installed /\ u.keep = "version"
  <2>1. HandleKeep(u) = {Exactly(u.name, u.version)}
    BY <1>5 DEF HandleKeep
  <2>2. ASSUME NEW j \in I PROVE Answers(w, j, Exactly(u.name, u.version)) <=> j = i
    <3>1. Answers(w, j, Exactly(u.name, u.version)) <=> Unit(w, j).name = u.name /\ Unit(w, j).version = u.version
      BY <1>4 DEF Answers, Exactly, Evaluate
    <3>2. j \in DOMAIN P /\ P[j].name = Unit(w, j).name /\ P[j].version = Unit(w, j).version
      BY PlainUnits DEF Wholly
    <3>3. P[j].name = P[i].name /\ P[j].version = P[i].version => j = i
      BY <3>2 DEF Wholly, Plain
    <3> QED  BY <1>1, <3>1, <3>2, <3>3
  <2>3. Ref!KeptPackage(P, I, i) <=> i \in I
    BY <1>1, <1>5 DEF Ref!KeptPackage
  <2> QED  BY <1>2, <1>5, <2>1, <2>2, <2>3
<1>6. CASE u.installed /\ u.keep = "package"
  <2>1. HandleKeep(u) = {Anything(u.name)}
    BY <1>6 DEF HandleKeep
  <2>2. ASSUME NEW j \in I PROVE Answers(w, j, Anything(u.name)) <=> P[j].name = P[i].name
    <3>1. Answers(w, j, Anything(u.name)) <=> Unit(w, j).name = u.name
      BY <1>4 DEF Answers, Anything, Evaluate
    <3>2. P[j].name = Unit(w, j).name
      BY PlainUnits DEF Wholly
    <3> QED  BY <1>1, <3>1, <3>2
  <2>3. Ref!KeptPackage(P, I, i) <=> \E j \in I : P[j].name = P[i].name
    BY <1>1, <1>6 DEF Ref!KeptPackage
  <2> QED  BY <1>2, <1>6, <2>1, <2>2, <2>3
<1>7. CASE u.installed /\ u.keep = "feature"
  <2> DEFINE K(vq) == IF FeatureOf(vq)[2] = 0 THEN Anything(vq.name) ELSE Exactly(vq.name, vq.version)
  <2>1. HandleKeep(u) = {K(vq) : vq \in Range(u.provides)}
    BY <1>7 DEF HandleKeep
  <2>2. ASSUME NEW vq \in Range(u.provides) PROVE Ref!Sat(P, I, vq) <=> Ask(K(vq))
    <3>1. vq.op \in {"none", "="} /\ vq.name \notin {"true!", "false!"} /\ (vq.op = "=" => vq.version # 0)
      BY <1>1
    <3>2. Ref!Sat(P, I, vq) <=> Ask(vq)
      BY <3>1, SatIs DEF Wholly
    <3>3. CASE vq.op = "none"
      <4>1. K(vq) = Anything(vq.name)
        BY <3>3 DEF FeatureOf
      <4>2. \A j : Answers(w, j, Anything(vq.name)) <=> Answers(w, j, vq)
        BY <3>3 DEF Answers, Anything, Evaluate
      <4> QED  BY <3>2, <4>1, <4>2
    <3>4. CASE vq.op = "="
      <4>1. K(vq) = Exactly(vq.name, vq.version)
        BY <3>1, <3>4 DEF FeatureOf
      <4>2. \A j : Answers(w, j, Exactly(vq.name, vq.version)) <=> Answers(w, j, vq)
        BY <3>4 DEF Answers, Exactly, Evaluate
      <4> QED  BY <3>2, <4>1, <4>2
    <3> QED  BY <3>1, <3>3, <3>4
  <2>3. Ref!KeptPackage(P, I, i) <=> \A vq \in Range(u.provides) : Ref!Sat(P, I, vq)
    BY <1>1, <1>7, RangeIs DEF Ref!KeptPackage
  <2> HIDE DEF K, Ask
  <2>4. (\A vp \in HandleKeep(u) : Ask(vp)) <=> \A vq \in Range(u.provides) : Ask(K(vq))
    BY <2>1
  <2> QED  BY <1>2, <1>7, <2>2, <2>3, <2>4 DEF Ask
<1>8. CASE u.installed /\ u.keep \notin {"version", "package", "feature"}
  <2>1. HandleKeep(u) = {}
    BY <1>8 DEF HandleKeep
  <2>2. Ref!KeptPackage(P, I, i)
    BY <1>1, <1>8 DEF Ref!KeptPackage
  <2> QED  BY <2>1, <2>2
<1> QED  BY <1>1, <1>3, <1>5, <1>6, <1>7, <1>8

\* a request to upgrade, L being the latest installed version
AtLeast(vp, L) ==
  IF vp.op = "none" /\ L # 0 THEN [vp EXCEPT !.op = ">=", !.version = L] ELSE vp

\* the whole problem, after its requests to upgrade were refined
LEMMA RefinedWholly ==
  ASSUME NEW p, NEW P, NEW request, NEW m \in Nat, Reads(p, P, request), Plain(P, request, m), NEW lex,
         NEW w, w = WholeOf(RefineUpgradeRequest(p), lex)
  PROVE  /\ Wholly(w, p, P, request, m)
         /\ w.pr = RefineUpgradeRequest(p) /\ w.pr.install = p.install /\ w.pr.remove = p.remove
         /\ \A vq : vq \in Range(w.pr.upgrade) <=>
              \E vp \in Range(request.upgrade) :
                vq = AtLeast(vp, LatestInstalled(p, vp.name))
<1> DEFINE r == RefineUpgradeRequest(p)
           T(vp) == AtLeast(vp, LatestInstalled(p, vp.name))
<1> HIDE DEF r
<1>0. p = [units |-> p.units, install |-> p.install, upgrade |-> p.upgrade, remove |-> p.remove]
  BY DEF Reads
<1>1. /\ r.units = p.units /\ r.install = p.install /\ r.remove = p.remove
      /\ DOMAIN r.upgrade = DOMAIN p.upgrade
      /\ \A k \in DOMAIN p.upgrade : r.upgrade[k] = T(p.upgrade[k])
  BY <1>0, RefineFields DEF r, AtLeast
<1>2. w.pr = r /\ w.needed = Units(r) /\ w.features = AllProvided(r)
  BY DEF WholeOf, r
<1>3. \A vq : vq \in Range(r.upgrade) <=> \E vp \in Range(request.upgrade) : vq = T(vp)
  <2> HIDE DEF T
  <2>1. Range(p.upgrade) = Range(request.upgrade)
    BY DEF Reads
  <2>2. \A vq : vq \in Range(r.upgrade) <=> \E vp \in Range(p.upgrade) : vq = T(vp)
    BY <1>1 DEF Range
  <2> QED  BY <2>1, <2>2
<1>4. Wholly(w, p, P, request, m)
  BY <1>1, <1>2 DEF Wholly
<1> QED  BY <1>1, <1>2, <1>3, <1>4 DEF r

\* a refined request
LEMMA RefinedIs ==
  ASSUME NEW p, NEW P, NEW request, NEW m \in Nat, NEW w, Wholly(w, p, P, request, m),
         NEW vp \in Range(request.upgrade), NEW L, L = LatestNeeded(w, vp.name),
         NEW vq, vq = AtLeast(vp, L)
  PROVE  /\ LatestInstalled(p, vp.name) = L /\ L \in 0 .. m
         /\ vq.name = vp.name /\ (vp.op = "none" /\ L # 0 => vq.op = ">=" /\ vq.version = L)
         /\ (~ (vp.op = "none" /\ L # 0) => vq = vp) /\ Askable(vq)
<1> DEFINE n == vp.name
           W == InstalledVersions(w, Ref!Initial(P), n)
<1>1. /\ Reads(p, P, request) /\ Plain(P, request, m) /\ w.pr.units = p.units
      /\ w.needed = Units(w.pr) /\ w.features = AllProvided(w.pr)
  BY DEF Wholly
<1>2. Ref!Initial(P) \subseteq DOMAIN P
  BY DEF Ref!Initial
<1>3. Ref!InstalledVersions(P, Ref!Initial(P), n) # {}
  BY <1>1 DEF Plain
<1>4. W # {}
  BY <1>1, <1>2, <1>3, InstalledAre
<1> HIDE DEF W
<1>5. L = LatestInstalled(p, n) /\ L \in W /\ W \subseteq 0 .. m
  BY <1>1, <1>4, LatestAgree DEF W
<1>6. Askable(vp) /\ vp = [name |-> vp.name, op |-> vp.op, version |-> vp.version]
  BY <1>1 DEF Plain, Asked
<1>7. CASE vp.op = "none" /\ L # 0
  <2>1. vq = [name |-> n, op |-> ">=", version |-> L]
    BY <1>6, <1>7 DEF AtLeast
  <2> QED  BY <1>5, <1>7, <2>1 DEF Askable
<1>8. CASE ~ (vp.op = "none" /\ L # 0)
  BY <1>5, <1>6, <1>8 DEF AtLeast
<1> QED  BY <1>5, <1>7, <1>8

(***************************************************************************)
(* What packup asks of the units is what the document says: an             *)
(* installation is valid (module CudfSpec) exactly if it meets what was    *)
(* read.                                                                   *)
(***************************************************************************)
THEOREM ReadIsMeant ==
  ASSUME NEW p, NEW P, NEW request, NEW m \in Nat, Reads(p, P, request), Plain(P, request, m), NEW lex,
         NEW w, w = WholeOf(RefineUpgradeRequest(p), lex), NEW I, I \subseteq DOMAIN P
  PROVE  Ref!Valid(P, request, I) <=> Met(w, I)
<1> DEFINE Ask(vp) == \E j \in I : Answers(w, j, vp)
           T(vp) == AtLeast(vp, LatestInstalled(p, vp.name))
<1>1. /\ Wholly(w, p, P, request, m) /\ w.pr.install = p.install /\ w.pr.remove = p.remove
      /\ \A vq : vq \in Range(w.pr.upgrade) <=> \E vp \in Range(request.upgrade) : vq = T(vp)
  BY RefinedWholly
<1>2. DependsMet(w, I) /\ ConflictsKept(w, I) <=> \A i \in I : Ref!GoodPackage(P, I, i)
  <2>1. \A i \in I : Ref!GoodPackage(P, I, i) <=>
          /\ \A k \in DOMAIN P[i].depends : \E vp \in Range(P[i].depends[k]) : Ref!Sat(P, I, vp)
          /\ \A vp \in Range(P[i].conflicts) : ~ Ref!Sat(P, I \ {i}, vp)
    BY RangeIs DEF Ref!GoodPackage
  <2>2. DependsMet(w, I) <=>
          \A i \in I : \A k \in DOMAIN P[i].depends : \E vp \in Range(P[i].depends[k]) : Ref!Sat(P, I, vp)
    BY <1>1, DependsIs
  <2>3. ConflictsKept(w, I) <=> \A i \in I : \A vp \in Range(P[i].conflicts) : ~ Ref!Sat(P, I \ {i}, vp)
    BY <1>1, ConflictsAre
  <2> QED  BY <2>1, <2>2, <2>3
<1>3. (\A i \in Ref!Initial(P) : Ref!KeptPackage(P, I, i)) <=>
        \A i \in DOMAIN P : \A vp \in HandleKeep(Unit(w, i)) : Ask(vp)
  <2>1. \A i \in Ref!Initial(P) : i \in DOMAIN P
    BY DEF Ref!Initial
  <2>2. \A i \in DOMAIN P : (i \in Ref!Initial(P) => Ref!KeptPackage(P, I, i)) <=>
          \A vp \in HandleKeep(Unit(w, i)) : Ask(vp)
    BY <1>1, KeptIs
  <2> QED  BY <2>1, <2>2
<1>4. (\A vp \in w.pr.install : Ask(vp)) <=>
        /\ \A vp \in Range(request.install) : Ask(vp)
        /\ \A i \in DOMAIN P : \A vp \in HandleKeep(Unit(w, i)) : Ask(vp)
  <2>1. DOMAIN P = Units(p) /\ \A i : Unit(w, i) = p.units[i]
    BY <1>1 DEF Wholly, Reads, Unit
  <2>2. w.pr.install = Range(request.install) \cup UNION {HandleKeep(p.units[i]) : i \in Units(p)}
    BY <1>1 DEF Reads
  <2>3. \A vp : vp \in w.pr.install <=>
          vp \in Range(request.install) \/ \E i \in DOMAIN P : vp \in HandleKeep(Unit(w, i))
    BY <2>1, <2>2
  <2> HIDE DEF Ask
  <2> QED  BY <2>3
<1>5. ASSUME NEW vp \in Range(request.install) \cup Range(request.remove)
      PROVE  (Ref!Sat(P, I, vp) <=> Ask(vp)) /\ \A j \in I : j \in NeedVersions(w.pr, vp) <=> Answers(w, j, vp)
  <2>1. vp.op \in {"none", "=", "!=", ">=", ">", "<=", "<"} /\ vp.name \notin {"true!", "false!"}
    BY DEF Plain, Asked, Askable
  <2>2. w.pr.units = p.units
    BY <1>1 DEF Wholly
  <2>3. Ref!Sat(P, I, vp) <=> Ask(vp)
    BY <2>1, <2>2, SatIs
  <2>4. \A j \in I : j \in NeedVersions(w.pr, vp) <=> Answers(w, j, vp)
    BY <2>1, <2>2, NeedIsAnswer
  <2> QED  BY <2>3, <2>4
<1>6. ASSUME NEW vp \in Range(request.upgrade)
      PROVE  /\ Ref!Upgraded(P, I, vp) <=> Ask(T(vp)) /\ Raised(w, I, vp.name)
             /\ T(vp).name = vp.name
  <2> DEFINE L == LatestNeeded(w, vp.name)
             vq == AtLeast(vp, L)
  <2>1. /\ LatestInstalled(p, vp.name) = L
        /\ vq.name = vp.name /\ (vp.op = "none" /\ L # 0 => vq.op = ">=" /\ vq.version = L)
        /\ (~ (vp.op = "none" /\ L # 0) => vq = vp)
    <3> HIDE DEF L, vq
    <3> QED  BY <1>1, RefinedIs DEF L, vq
  <2>2. T(vp) = vq
    BY <2>1
  <2>3. Ref!Upgraded(P, I, vp) <=> Ask(vq) /\ Raised(w, I, vp.name)
    <3>1. Wholly(w, p, P, request, m) /\ Refines(vq, vp, L)
      BY <1>1, <2>1 DEF Refines
    <3>2. Ref!Upgraded(P, I, vp) <=> (\E j \in I : Answers(w, j, vq)) /\ Raised(w, I, vp.name)
      <4> HIDE DEF vq
      <4> QED  BY <3>1, UpgradeIs
    <3> QED  BY <3>2 DEF Ask
  <2> QED  BY <2>1, <2>2, <2>3
<1> HIDE DEF T
<1>7. UpgradesMet(w, I) <=> \A vq \in Range(w.pr.upgrade) : Raised(w, I, vq.name)
  BY DEF UpgradesMet, Raised
<1>8. RequestMet(w, I) <=>
        /\ \A vp \in w.pr.install : Ask(vp)
        /\ \A vq \in Range(w.pr.upgrade) : Ask(vq)
        /\ \A vp \in Range(w.pr.remove) : I \cap NeedVersions(w.pr, vp) = {}
  BY DEF RequestMet
<1> HIDE DEF Ask
<1>9. (\A vp \in Range(request.upgrade) : Ref!Upgraded(P, I, vp)) <=>
        (\A vq \in Range(w.pr.upgrade) : Ask(vq)) /\ (\A vq \in Range(w.pr.upgrade) : Raised(w, I, vq.name))
  BY <1>1, <1>6
<1>10. (\A vp \in Range(w.pr.remove) : I \cap NeedVersions(w.pr, vp) = {}) <=>
         \A vp \in Range(request.remove) : ~ Ref!Sat(P, I, vp)
  <2>1. Range(w.pr.remove) = Range(request.remove)
    BY <1>1 DEF Reads
  <2>2. ASSUME NEW vp \in Range(request.remove) PROVE I \cap NeedVersions(w.pr, vp) = {} <=> ~ Ref!Sat(P, I, vp)
    BY <1>5 DEF Ask
  <2> QED  BY <2>1, <2>2
<1>11. Ref!Valid(P, request, I) <=>
         /\ \A i \in I : Ref!GoodPackage(P, I, i)
         /\ \A i \in Ref!Initial(P) : Ref!KeptPackage(P, I, i)
         /\ \A vp \in Range(request.install) : Ref!Sat(P, I, vp)
         /\ \A vp \in Range(request.remove) : ~ Ref!Sat(P, I, vp)
         /\ \A vp \in Range(request.upgrade) : Ref!Upgraded(P, I, vp)
  BY RangeIs DEF Ref!Valid
<1>12. (\A vp \in Range(request.install) : Ref!Sat(P, I, vp)) <=> \A vp \in Range(request.install) : Ask(vp)
  BY <1>5
<1> QED  BY <1>2, <1>3, <1>4, <1>7, <1>8, <1>9, <1>10, <1>11, <1>12 DEF Met

\* a plain document is one that the encoding is exact for
LEMMA PlainPosed ==
  ASSUME NEW p, NEW P, NEW request, NEW m \in Nat, Reads(p, P, request), Plain(P, request, m), NEW lex,
         NEW w, w = WholeOf(RefineUpgradeRequest(p), lex)
  PROVE  WellPosed(w, m)
<1>1. /\ Wholly(w, p, P, request, m) /\ w.pr.install = p.install /\ w.pr.remove = p.remove
      /\ \A vq : vq \in Range(w.pr.upgrade) <=>
           \E vp \in Range(request.upgrade) : vq = AtLeast(vp, LatestInstalled(p, vp.name))
  BY RefinedWholly
<1>2. w.pr.units = p.units /\ w.needed = Units(w.pr) /\ w.features = AllProvided(w.pr) /\ Units(w.pr) = DOMAIN P
  BY <1>1 DEF Wholly, Reads, Units
<1>3. ASSUME NEW i \in DOMAIN P
      PROVE  /\ P[i].name = Unit(w, i).name /\ P[i].version = Unit(w, i).version
             /\ P[i].depends = Unit(w, i).depends /\ P[i].conflicts = Unit(w, i).conflicts
             /\ P[i].provides = Unit(w, i).provides
             /\ P[i].version \in 1 .. m
             /\ \A vq \in Range(P[i].provides) :
                  /\ vq.op = "none" \/ (vq.op = "=" /\ vq.version \in 1 .. m)
                  /\ \A j \in DOMAIN P : P[j].name # vq.name
  BY <1>2, PlainUnits
<1>4. \A f : f \in AllProvided(w.pr) <=> \E i \in DOMAIN P : \E vq \in Range(P[i].provides) : f = FeatureOf(vq)
  BY <1>2, <1>3 DEF AllProvided, Provided, Unit
<1>5. \A vq : FeatureOf(vq)[1] = vq.name /\ FeatureOf(vq)[2] = IF vq.op = "none" THEN 0 ELSE vq.version
  BY DEF FeatureOf
<1>6. Encodable(w, m)
  <2>1. \A i \in w.needed : Unit(w, i).version \in 0 .. m
    BY <1>2, <1>3
  <2>2. \A f \in w.features : f[2] \in 0 .. m
    BY <1>2, <1>3, <1>4, <1>5
  <2> QED  BY <1>2, <2>1, <2>2 DEF Encodable, AllProvided
<1>7. ASSUME NEW vp \in Asked(P, request) PROVE Askable(vp)
  BY DEF Plain
<1>8. ASSUME NEW vp \in w.pr.install PROVE Askable(vp)
  <2>1. CASE vp \in Range(request.install)
    BY <1>7, <2>1 DEF Asked
  <2>2. ASSUME NEW i \in DOMAIN P, vp \in HandleKeep(p.units[i]) PROVE Askable(vp)
    <3>1. p.units[i] = Unit(w, i)
      BY <1>2 DEF Unit
    <3>2. \/ vp = Exactly(Unit(w, i).name, Unit(w, i).version) \/ vp = Anything(Unit(w, i).name)
          \/ \E vq \in Range(P[i].provides) : vp = Anything(vq.name) \/ (vq.op # "none" /\ vp = Exactly(vq.name, vq.version))
      BY <1>3, <2>2, <3>1 DEF HandleKeep, FeatureOf
    <3> QED  BY <1>3, <3>2 DEF Exactly, Anything, Askable
  <2>3. vp \in Range(request.install) \/ \E i \in DOMAIN P : vp \in HandleKeep(p.units[i])
    BY <1>1, <1>2 DEF Reads
  <2> QED  BY <2>1, <2>2, <2>3
<1>9. ASSUME NEW vq \in Range(w.pr.upgrade) PROVE Askable(vq)
  <2>1. PICK vp \in Range(request.upgrade) : vq = AtLeast(vp, LatestInstalled(p, vp.name))
    BY <1>1
  <2>2. LatestInstalled(p, vp.name) = LatestNeeded(w, vp.name)
    BY <1>1, RefinedIs
  <2>3. vq = AtLeast(vp, LatestNeeded(w, vp.name))
    BY <2>1, <2>2
  <2> QED  BY <1>1, <2>3, RefinedIs
<1>10. \A vp \in AllRequests(w) : Askable(vp)
  <2>1. Range(w.pr.remove) = Range(request.remove)
    BY <1>1 DEF Reads
  <2>2. \A i \in w.needed : \A k \in DOMAIN Unit(w, i).depends : \A vp \in Range(Unit(w, i).depends[k]) : vp \in Asked(P, request)
    BY <1>2, <1>3 DEF Asked
  <2>3. \A i \in w.needed : \A vp \in Range(Unit(w, i).conflicts) : vp \in Asked(P, request)
    BY <1>2, <1>3 DEF Asked
  <2>4. \A vp \in Range(request.remove) : vp \in Asked(P, request)
    BY DEF Asked
  <2> QED  BY <1>7, <1>8, <1>9, <2>1, <2>2, <2>3, <2>4 DEF AllRequests
<1>11. \A i \in w.needed : ~ IsFeature(w.pr, Unit(w, i).name)
  <2> SUFFICES ASSUME NEW i \in DOMAIN P, NEW f \in AllProvided(w.pr), f[1] = Unit(w, i).name PROVE FALSE
    BY <1>2 DEF IsFeature
  <2>1. PICK j \in DOMAIN P : \E vq \in Range(P[j].provides) : f = FeatureOf(vq)
    BY <1>4
  <2>2. PICK vq \in Range(P[j].provides) : f = FeatureOf(vq)
    BY <2>1
  <2> QED  BY <1>3, <1>5, <2>2
<1>12. \A i, j \in w.needed : UnitVar(w, i) = UnitVar(w, j) => i = j
  <2> SUFFICES ASSUME NEW i \in DOMAIN P, NEW j \in DOMAIN P, UnitVar(w, i) = UnitVar(w, j) PROVE i = j
    BY <1>2
  <2>1. Unit(w, i).name = Unit(w, j).name /\ Unit(w, i).version = Unit(w, j).version
    BY DEF UnitVar, PV
  <2>2. P[i].name = P[j].name /\ P[i].version = P[j].version
    BY <1>3, <2>1
  <2> QED  BY <2>2 DEF Plain
<1> QED  BY <1>6, <1>10, <1>11, <1>12 DEF WellPosed

-----------------------------------------------------------------------------
(* Reading the document *)

(* Induction over the sets of positions: what holds of the empty set, and  *)
(* of a set if it holds without the last position, holds of all.           *)
LEMMA PositionSets ==
  ASSUME NEW l \in Nat, NEW G, {} \in G,
         \A T \in SUBSET (1 .. l) : T # {} /\ T \ {Max(T)} \in G => T \in G
  PROVE  \A T \in SUBSET (1 .. l) : T \in G
<1> DEFINE U == 1 .. l
           B == {n \in Nat : \E T \in SUBSET U : Cardinality(T) = n /\ T \notin G}
<1>1. IsFiniteSet(U)
  BY FS_Interval
<1>2. \A T \in SUBSET U : Cardinality(T) \in Nat
  BY <1>1, FS_Subset, FS_CardinalityType
<1> SUFFICES ASSUME B # {} PROVE FALSE
  BY <1>2
<1>3. PICK n \in B : \A k \in B : n <= k
  <2>1. B \subseteq Nat
    OBVIOUS
  <2> HIDE DEF B
  <2> QED  BY <2>1, LeastOf
<1>4. PICK T \in SUBSET U : Cardinality(T) = n /\ T \notin G
  BY <1>3
<1>5. T # {} /\ Max(T) \in T
  <2>1. T # {}
    BY <1>4
  <2>2. T \subseteq 0 .. l
    BY <1>4
  <2> QED  BY <2>1, <2>2, GreatestOf
<1>6. /\ T \ {Max(T)} \in SUBSET U
      /\ Cardinality(T \ {Max(T)}) = n - 1 /\ n - 1 \in Nat /\ n \in Nat
  <2> HIDE DEF U
  <2>1. /\ T \ {Max(T)} \in SUBSET U /\ Cardinality(T) \in Nat
        /\ Cardinality(T \ {Max(T)}) = Cardinality(T) - 1 /\ Cardinality(T \ {Max(T)}) \in Nat
    BY <1>1, <1>4, <1>5, SmallerSet
  <2> QED  BY <1>4, <2>1
<1>7. T \ {Max(T)} \in G
  <2>1. n - 1 \notin B
    BY <1>3, <1>6
  <2> QED  BY <1>6, <2>1
<1> QED  BY <1>4, <1>5, <1>7

\* the last position of a set, and what is left without it
LEMMA LastPosition ==
  ASSUME NEW l \in Nat, NEW T \in SUBSET (1 .. l), T # {}, NEW c, c = Max(T)
  PROVE  /\ c \in T /\ c \in 1 .. l /\ T \ {c} \in SUBSET (1 .. l) /\ \A k \in T : k <= c
         /\ \A R \in SUBSET T : c \in R => Max(R) = c
<1>1. T \subseteq 0 .. l
  OBVIOUS
<1>2. c \in T /\ \A k \in T : k <= c
  BY <1>1, GreatestOf
<1>3. ASSUME NEW R \in SUBSET T, c \in R PROVE Max(R) = c
  <2>1. R \subseteq 0 .. l /\ R # {}
    BY <1>1, <1>3
  <2>2. Max(R) \in R /\ \A k \in R : k <= Max(R)
    BY <2>1, GreatestOf
  <2> DEFINE x == Max(R)
  <2> HIDE DEF x
  <2>3. x \in R /\ c <= x
    BY <1>3, <2>2 DEF x
  <2>4. x <= c /\ x \in Nat /\ c \in Nat
    BY <1>2, <2>3
  <2> QED  BY <2>3, <2>4 DEF x
<1> QED  BY <1>2, <1>3

\* one field of a stanza
ReadField(kind, q, f) == IF kind = "package" THEN PackageField(q, f) ELSE RequestField(q, f)

FieldsFold(g, kind, base, xs, S) ==
  g = [T \in SUBSET S |-> IF T = {} THEN base ELSE ReadField(kind, g[T \ {Max(T)}], xs[Max(T)])]

LEMMA FieldsFoldExists ==
  ASSUME NEW kind, NEW base, NEW xs, NEW l \in Nat
  PROVE  \E g : FieldsFold(g, kind, base, xs, 1 .. l)
<1> DEFINE U == 1 .. l
           G == {S \in SUBSET U : \E g : FieldsFold(g, kind, base, xs, S)}
<1>1. {} \in G
  <2> DEFINE g == [T \in SUBSET {} |-> base]
  <2>1. FieldsFold(g, kind, base, xs, {})
    BY DEF FieldsFold
  <2> QED  BY <2>1
<1>2. ASSUME NEW S \in SUBSET U, S # {}, S \ {Max(S)} \in G PROVE S \in G
  <2> DEFINE c == Max(S)
             R == S \ {c}
  <2>1. PICK h : FieldsFold(h, kind, base, xs, R)
    BY <1>2
  <2>2. c \in S /\ \A T \in SUBSET S : c \in T => Max(T) = c
    BY <1>2, LastPosition
  <2> HIDE DEF c
  <2> DEFINE g == [T \in SUBSET S |-> IF c \in T THEN ReadField(kind, h[T \ {c}], xs[c]) ELSE h[T]]
  <2>3. \A T \in SUBSET R : h[T] = IF T = {} THEN base ELSE ReadField(kind, h[T \ {Max(T)}], xs[Max(T)])
    BY <2>1 DEF FieldsFold
  <2>4. ASSUME NEW T \in SUBSET S
        PROVE  g[T] = IF T = {} THEN base ELSE ReadField(kind, g[T \ {Max(T)}], xs[Max(T)])
    <3>1. CASE c \in T
      <4>1. Max(T) = c /\ T # {}
        BY <2>2, <3>1
      <4>2. T \ {c} \in SUBSET S /\ c \notin T \ {c}
        OBVIOUS
      <4>3. g[T \ {c}] = h[T \ {c}]
        BY <4>2
      <4>4. g[T] = ReadField(kind, h[T \ {c}], xs[c])
        BY <3>1
      <4> HIDE DEF g
      <4> QED  BY <4>1, <4>3, <4>4
    <3>2. CASE c \notin T
      <4>1. T \in SUBSET R
        BY <3>2
      <4>2. g[T] = h[T]
        BY <3>2
      <4>3. g[T \ {Max(T)}] = h[T \ {Max(T)}]
        <5>1. T \ {Max(T)} \in SUBSET S /\ c \notin T \ {Max(T)}
          BY <3>2
        <5> QED  BY <5>1
      <4> HIDE DEF g, R
      <4> QED  BY <2>3, <4>1, <4>2, <4>3
    <3> QED  BY <3>1, <3>2
  <2>5. g = [T \in SUBSET S |-> g[T]]
    OBVIOUS
  <2> HIDE DEF g
  <2>6. FieldsFold(g, kind, base, xs, S)
    BY <2>4, <2>5 DEF FieldsFold
  <2> QED  BY <2>6
<1> HIDE DEF G
<1>3. U \in G
  BY <1>1, <1>2, PositionSets
<1> QED  BY <1>3 DEF G

\* what a stanza is read as
LEMMA FieldsFolded ==
  ASSUME NEW base, NEW xs, NEW l \in Nat, DOMAIN xs = 1 .. l
  PROVE  /\ \E g : FieldsFold(g, "package", base, xs, 1 .. l) /\ FoldLeft(PackageField, base, xs) = g[1 .. l]
         /\ \E g : FieldsFold(g, "problem", base, xs, 1 .. l) /\ FoldLeft(RequestField, base, xs) = g[1 .. l]
<1> DEFINE U == 1 .. l
           E(f) == f = [T \in SUBSET U |-> IF T = {} THEN base ELSE PackageField(f[T \ {Max(T)}], xs[Max(T)])]
           F(f) == f = [T \in SUBSET U |-> IF T = {} THEN base ELSE RequestField(f[T \ {Max(T)}], xs[Max(T)])]
           p == CHOOSE f : E(f)
           r == CHOOSE f : F(f)
<1>1. FoldLeft(PackageField, base, xs) = p[U]
  BY DEF FoldLeft, MapThenFoldSet
<1>2. FoldLeft(RequestField, base, xs) = r[U]
  BY DEF FoldLeft, MapThenFoldSet
<1>3. \A f : E(f) <=> FieldsFold(f, "package", base, xs, U)
  BY DEF FieldsFold, ReadField
<1>4. \A f : F(f) <=> FieldsFold(f, "problem", base, xs, U)
  BY DEF FieldsFold, ReadField
<1>5. (\E f : E(f)) /\ \E f : F(f)
  BY <1>3, <1>4, FieldsFoldExists
<1> HIDE DEF E, F
<1>6. E(p) /\ F(r)
  BY <1>5
<1> HIDE DEF p, r
<1> QED  BY <1>1, <1>2, <1>3, <1>4, <1>6

\* the last value of a tag among the fields T, or a default
TagAt(s, T, tag) == {k \in T : s.fields[k].tag = tag}
LastIn(s, T, tag, d) == IF TagAt(s, T, tag) = {} THEN d ELSE s.fields[Max(TagAt(s, T, tag))].val

\* the stanza of a package, with its lists given once at most
ListTags == {"depends", "conflicts", "provides"}
ProperPackage(s) ==
  /\ Len(s.fields) \in Nat /\ DOMAIN s.fields = 1 .. Len(s.fields)
  /\ \A k \in DOMAIN s.fields : s.fields[k].tag \in ListTags =>
       /\ s.fields[k].val \in Seq(Range(s.fields[k].val))
       /\ \A j \in DOMAIN s.fields : s.fields[j].tag = s.fields[k].tag => j = k
  /\ \A k \in DOMAIN s.fields :
       s.fields[k].tag = "property" /\ s.fields[k].prop = "recommends" => Recommending(s.fields[k].val)

\* the recommendations among the fields T of a stanza
RecommendsAt(s, T) == {k \in T : s.fields[k].tag = "property" /\ s.fields[k].prop = "recommends"}
RecommendsIn(s, T) ==
  IF RecommendsAt(s, T) = {} THEN << >> ELSE s.fields[CHOOSE k \in RecommendsAt(s, T) : TRUE].val

\* u is what the fields T of the stanza give
Fits(u, s, T) ==
  /\ ProperPackage(s)
  /\ Single(RecommendsAt(s, DOMAIN s.fields)) => u.recommends = RecommendsIn(s, T)
  /\ ListsRead(u)
  /\ u = [name |-> u.name, version |-> u.version, installed |-> u.installed, keep |-> u.keep,
          depends |-> u.depends, conflicts |-> u.conflicts, provides |-> u.provides, recommends |-> u.recommends]
  /\ u.name = s.name
  /\ u.version = LastIn(s, T, "version", 0) /\ u.installed = LastIn(s, T, "installed", FALSE)
  /\ u.keep = LastIn(s, T, "keep", "none") /\ u.depends = LastIn(s, T, "depends", << >>)
  /\ u.conflicts = LastIn(s, T, "conflicts", << >>) /\ u.provides = LastIn(s, T, "provides", << >>)

\* the last value is that of the last position, if it has the tag
LastStep(s, T, c) ==
  \A tag, d : LastIn(s, T, tag, d) = IF s.fields[c].tag = tag THEN s.fields[c].val ELSE LastIn(s, T \ {c}, tag, d)

LEMMA LastInStep ==
  ASSUME NEW s, NEW l \in Nat, NEW T \in SUBSET (1 .. l), T # {}, NEW c, c = Max(T)
  PROVE  LastStep(s, T, c)
<1> SUFFICES ASSUME NEW tag, NEW d
             PROVE  LastIn(s, T, tag, d) =
                      IF s.fields[c].tag = tag THEN s.fields[c].val ELSE LastIn(s, T \ {c}, tag, d)
  BY DEF LastStep
<1>1. c \in T /\ \A R \in SUBSET T : c \in R => Max(R) = c
  BY LastPosition
<1>2. CASE s.fields[c].tag = tag
  <2>1. c \in TagAt(s, T, tag) /\ TagAt(s, T, tag) \in SUBSET T
    BY <1>1, <1>2 DEF TagAt
  <2>2. Max(TagAt(s, T, tag)) = c
    BY <1>1, <2>1
  <2> QED  BY <1>2, <2>1, <2>2 DEF LastIn
<1>3. CASE s.fields[c].tag # tag
  <2>1. TagAt(s, T, tag) = TagAt(s, T \ {c}, tag)
    BY <1>3 DEF TagAt
  <2> QED  BY <1>3, <2>1 DEF LastIn
<1> QED  BY <1>2, <1>3

LEMMA OnceIn ==
  ASSUME NEW s, ProperPackage(s), NEW T \in SUBSET DOMAIN s.fields, NEW c \in T,
         s.fields[c].tag \in ListTags
  PROVE  LastIn(s, T \ {c}, s.fields[c].tag, << >>) = << >>
BY DEF LastIn, TagAt, ProperPackage

LEMMA FitsStep ==
  ASSUME NEW s, ProperPackage(s), NEW l \in Nat, DOMAIN s.fields = 1 .. l,
         NEW T \in SUBSET (1 .. l), T # {}, NEW c, c = Max(T), NEW u, Fits(u, s, T \ {c})
  PROVE  Fits(PackageField(u, s.fields[c]), s, T)
<1> DEFINE f == s.fields[c]
           v == PackageField(u, f)
           x == f.val
<1>1. c \in T /\ c \in DOMAIN s.fields
  BY LastPosition
<1>2. /\ LastIn(s, T, "version", 0) = IF f.tag = "version" THEN x ELSE u.version
      /\ LastIn(s, T, "installed", FALSE) = IF f.tag = "installed" THEN x ELSE u.installed
      /\ LastIn(s, T, "keep", "none") = IF f.tag = "keep" THEN x ELSE u.keep
      /\ LastIn(s, T, "depends", << >>) = IF f.tag = "depends" THEN x ELSE u.depends
      /\ LastIn(s, T, "conflicts", << >>) = IF f.tag = "conflicts" THEN x ELSE u.conflicts
      /\ LastIn(s, T, "provides", << >>) = IF f.tag = "provides" THEN x ELSE u.provides
  <2> DEFINE R == T \ {c}
  <2>0. LastStep(s, T, c)
    BY LastInStep
  <2>1. \A tag, d : LastIn(s, T, tag, d) = IF f.tag = tag THEN x ELSE LastIn(s, R, tag, d)
    BY <2>0 DEF LastStep
  <2>2. /\ u.version = LastIn(s, R, "version", 0) /\ u.installed = LastIn(s, R, "installed", FALSE)
        /\ u.keep = LastIn(s, R, "keep", "none") /\ u.depends = LastIn(s, R, "depends", << >>)
        /\ u.conflicts = LastIn(s, R, "conflicts", << >>) /\ u.provides = LastIn(s, R, "provides", << >>)
    BY DEF Fits
  <2> HIDE DEF f, x, R
  <2> QED  BY <2>1, <2>2
<1>3. f.tag \in ListTags => x \in Seq(Range(x)) /\ LastIn(s, T \ {c}, f.tag, << >>) = << >>
  BY <1>1, OnceIn DEF ProperPackage
<1>4. \A y : y \in Seq(Range(x)) => << >> \o y = y
  OBVIOUS
<1>5. /\ f.tag = "depends" => u.depends \o x = x
      /\ f.tag = "conflicts" => u.conflicts \o x = x
      /\ f.tag = "provides" => u.provides \o x = x
  <2> DEFINE R == T \ {c}
  <2> HIDE DEF f, x, R
  <2>1. Fits(u, s, R)
    BY DEF R
  <2>2. f.tag \in ListTags => x \in Seq(Range(x)) /\ LastIn(s, R, f.tag, << >>) = << >>
    BY <1>3 DEF R
  <2> QED  BY <1>4, <2>1, <2>2 DEF Fits, ListTags
<1>6. u = [name |-> u.name, version |-> u.version, installed |-> u.installed, keep |-> u.keep,
           depends |-> u.depends, conflicts |-> u.conflicts, provides |-> u.provides, recommends |-> u.recommends]
      /\ u.name = s.name
  BY DEF Fits
<1>0. f.tag = "property" /\ f.prop = "recommends" => Recommending(u.recommends \o x)
  <2>1. f.tag = "property" /\ f.prop = "recommends" => Recommending(x)
    BY <1>1 DEF ProperPackage
  <2>2. Recommending(u.recommends)
    BY DEF Fits, ListsRead
  <2> HIDE DEF f, x
  <2> QED  BY <2>1, <2>2, BothRecommending
<1> HIDE DEF f, x
<1>7. /\ v.name = u.name
      /\ v = [name |-> v.name, version |-> v.version, installed |-> v.installed, keep |-> v.keep,
              depends |-> v.depends, conflicts |-> v.conflicts, provides |-> v.provides, recommends |-> v.recommends]
      /\ v.version = IF f.tag = "version" THEN x ELSE u.version
      /\ v.installed = IF f.tag = "installed" THEN x ELSE u.installed
      /\ v.keep = IF f.tag = "keep" THEN x ELSE u.keep
      /\ v.depends = IF f.tag = "depends" THEN x ELSE u.depends
      /\ v.conflicts = IF f.tag = "conflicts" THEN x ELSE u.conflicts
      /\ v.provides = IF f.tag = "provides" THEN x ELSE u.provides
      /\ v.recommends = IF f.tag = "property" /\ f.prop = "recommends" THEN u.recommends \o x ELSE u.recommends
  <2>0. x = f.val
    BY DEF x
  <2>1. CASE f.tag = "depends"
    <3>1. v = [u EXCEPT !.depends = u.depends \o x]
      BY <2>0, <2>1 DEF PackageField
    <3> HIDE DEF v
    <3> QED  BY <1>5, <1>6, <2>1, <3>1
  <2>2. CASE f.tag = "conflicts"
    <3>1. v = [u EXCEPT !.conflicts = u.conflicts \o x]
      BY <2>0, <2>2 DEF PackageField
    <3> HIDE DEF v
    <3> QED  BY <1>5, <1>6, <2>2, <3>1
  <2>3. CASE f.tag = "provides"
    <3>1. v = [u EXCEPT !.provides = u.provides \o x]
      BY <2>0, <2>3 DEF PackageField
    <3> HIDE DEF v
    <3> QED  BY <1>5, <1>6, <2>3, <3>1
  <2>4. CASE f.tag = "version"
    <3>1. v = [u EXCEPT !.version = x]
      BY <2>0, <2>4 DEF PackageField
    <3> HIDE DEF v
    <3> QED  BY <1>6, <2>4, <3>1
  <2>5. CASE f.tag = "installed"
    <3>1. v = [u EXCEPT !.installed = x]
      BY <2>0, <2>5 DEF PackageField
    <3> HIDE DEF v
    <3> QED  BY <1>6, <2>5, <3>1
  <2>6. CASE f.tag = "keep"
    <3>1. v = [u EXCEPT !.keep = x]
      BY <2>0, <2>6 DEF PackageField
    <3> HIDE DEF v
    <3> QED  BY <1>6, <2>6, <3>1
  <2>7. CASE f.tag \notin ListTags \cup {"version", "installed", "keep"}
    <3>1. v = IF f.tag = "property" /\ f.prop = "recommends" THEN [u EXCEPT !.recommends = u.recommends \o x] ELSE u
      BY <2>0, <2>7 DEF PackageField, ListTags
    <3> HIDE DEF v
    <3> QED  BY <1>6, <2>7, <3>1 DEF ListTags
  <2> QED  BY <2>1, <2>2, <2>3, <2>4, <2>5, <2>6, <2>7 DEF ListTags
<1> HIDE DEF v
<1>8. ListsRead(v)
  <2>1. ListsRead(u)
    BY DEF Fits
  <2>2. f.tag = "provides" => x \in Seq(Range(x))
    BY <1>3 DEF ListTags
  <2>3. v.provides \in Seq(Range(v.provides))
    BY <1>7, <2>1, <2>2 DEF ListsRead
  <2> QED  BY <1>0, <1>7, <2>1, <2>3 DEF ListsRead
<1>9. ASSUME Single(RecommendsAt(s, DOMAIN s.fields)) PROVE v.recommends = RecommendsIn(s, T)
  <2>1. u.recommends = RecommendsIn(s, T \ {c})
    BY <1>9 DEF Fits
  <2>2. CASE f.tag = "property" /\ f.prop = "recommends"
    <3>1. c \in RecommendsAt(s, DOMAIN s.fields) /\ c \in RecommendsAt(s, T)
      BY <1>1, <2>2 DEF RecommendsAt, f
    <3>2. \A k \in RecommendsAt(s, T) : k \in RecommendsAt(s, DOMAIN s.fields)
      BY DEF RecommendsAt
    <3>3. RecommendsAt(s, T) = {c}
      BY <1>9, <3>1, <3>2 DEF Single
    <3>4. RecommendsAt(s, T \ {c}) = {}
      BY <3>3 DEF RecommendsAt
    <3>5. RecommendsIn(s, T) = x /\ u.recommends = << >>
      BY <2>1, <3>3, <3>4 DEF RecommendsIn, f, x
    <3>6. x \in Seq(Range(x))
      BY <1>1, <2>2 DEF ProperPackage, Recommending, f, x
    <3> QED  BY <1>4, <1>7, <2>2, <3>5, <3>6
  <2>3. CASE ~ (f.tag = "property" /\ f.prop = "recommends")
    <3>1. RecommendsAt(s, T) = RecommendsAt(s, T \ {c})
      BY <2>3 DEF RecommendsAt, f
    <3> QED  BY <1>7, <2>1, <2>3, <3>1 DEF RecommendsIn
  <2> QED  BY <2>2, <2>3
<1>10. Fits(v, s, T)
  BY <1>2, <1>6, <1>7, <1>8, <1>9 DEF Fits
<1> QED  BY <1>10 DEF v, f

\* a package is read as what its stanza says
LEMMA PackageFits ==
  ASSUME NEW s, ProperPackage(s)
  PROVE  Fits(FoldLeft(PackageField, StartPackage(s.name), s.fields), s, DOMAIN s.fields)
<1> DEFINE l == Len(s.fields)
           base == StartPackage(s.name)
           xs == s.fields
<1>1. l \in Nat /\ DOMAIN xs = 1 .. l
  BY DEF ProperPackage
<1> HIDE DEF l
<1>2. PICK g : FieldsFold(g, "package", base, xs, 1 .. l) /\ FoldLeft(PackageField, base, xs) = g[1 .. l]
  BY <1>1, FieldsFolded
<1> DEFINE G == {T \in SUBSET (1 .. l) : Fits(g[T], s, T)}
<1>3. \A T \in SUBSET (1 .. l) : g[T] = IF T = {} THEN base ELSE PackageField(g[T \ {Max(T)}], xs[Max(T)])
  BY <1>2 DEF FieldsFold, ReadField
<1>4. {} \in G
  <2>1. \A tag, d : LastIn(s, {}, tag, d) = d
    BY DEF LastIn, TagAt
  <2>2. ListsRead(base)
    <3>1. << >> \in Seq(Range(<< >>)) /\ DOMAIN << >> = {}
      BY DEF Range
    <3> QED  BY <3>1 DEF StartPackage, ListsRead, Recommending
  <2>3. RecommendsIn(s, {}) = << >>
    BY DEF RecommendsIn, RecommendsAt
  <2>5. Fits(base, s, {})
    BY <2>1, <2>2, <2>3 DEF StartPackage, Fits
  <2>4. g[{}] = base
    BY <1>3
  <2> QED  BY <2>4, <2>5
<1>5. ASSUME NEW T \in SUBSET (1 .. l), T # {}, T \ {Max(T)} \in G PROVE T \in G
  <2> DEFINE c == Max(T)
  <2>1. Fits(g[T \ {c}], s, T \ {c}) /\ g[T] = PackageField(g[T \ {c}], xs[c])
    BY <1>3, <1>5
  <2> HIDE DEF c
  <2>2. Fits(g[T], s, T)
    <3>1. c = Max(T)
      BY DEF c
    <3> QED  BY <1>1, <1>5, <2>1, <3>1, FitsStep
  <2> QED  BY <2>2
<1> HIDE DEF G
<1>6. 1 .. l \in G
  BY <1>1, <1>4, <1>5, PositionSets
<1> QED  BY <1>1, <1>2, <1>6 DEF G

-----------------------------------------------------------------------------
\* the request, with each of its lists given once at most
RequestTags == {"install", "remove", "upgrade"}
ProperRequest(s) ==
  /\ Len(s.fields) \in Nat /\ DOMAIN s.fields = 1 .. Len(s.fields)
  /\ \A k \in DOMAIN s.fields :
       /\ s.fields[k].tag \in RequestTags /\ s.fields[k].val \in Seq(Range(s.fields[k].val))
       /\ \A j \in DOMAIN s.fields : s.fields[j].tag = s.fields[k].tag => j = k

\* what was read before with the fields T of the request
Requesting(q, s, T) ==
  [units |-> q.units, install |-> q.install \cup Range(LastIn(s, T, "install", << >>)),
   upgrade |-> LastIn(s, T, "upgrade", << >>), remove |-> LastIn(s, T, "remove", << >>)]

LEMMA RequestStep ==
  ASSUME NEW q, NEW s, ProperRequest(s), NEW l \in Nat, DOMAIN s.fields = 1 .. l,
         NEW T \in SUBSET (1 .. l), T # {}, NEW c, c = Max(T)
  PROVE  RequestField(Requesting(q, s, T \ {c}), s.fields[c]) = Requesting(q, s, T)
<1> DEFINE f == s.fields[c]
           x == f.val
           R == T \ {c}
           In == LastIn(s, R, "install", << >>)
           Us == LastIn(s, R, "upgrade", << >>)
           Re == LastIn(s, R, "remove", << >>)
<1>1. c \in T /\ c \in DOMAIN s.fields
  BY LastPosition
<1>2. /\ LastIn(s, T, "install", << >>) = IF f.tag = "install" THEN x ELSE In
      /\ LastIn(s, T, "upgrade", << >>) = IF f.tag = "upgrade" THEN x ELSE Us
      /\ LastIn(s, T, "remove", << >>) = IF f.tag = "remove" THEN x ELSE Re
  <2>1. LastStep(s, T, c)
    BY LastInStep
  <2>2. \A tag, d : LastIn(s, T, tag, d) = IF f.tag = tag THEN x ELSE LastIn(s, R, tag, d)
    BY <2>1 DEF LastStep
  <2> HIDE DEF f, x, R
  <2> QED  BY <2>2
<1>3. f.tag \in RequestTags /\ x \in Seq(Range(x)) /\ LastIn(s, R, f.tag, << >>) = << >>
  BY <1>1 DEF ProperRequest, LastIn, TagAt
<1>4. << >> \o x = x /\ Range(<< >>) = {}
  <2>1. \A y : y \in Seq(Range(y)) => << >> \o y = y
    OBVIOUS
  <2>2. << >> \o x = x
    BY <1>3, <2>1
  <2> QED  BY <2>2 DEF Range
<1>5. /\ f.tag = "install" => In = << >>
      /\ f.tag = "upgrade" => Us = << >>
      /\ f.tag = "remove" => Re = << >>
  BY <1>3
<1> DEFINE a == Requesting(q, s, R)
<1>6. a = [units |-> q.units, install |-> q.install \cup Range(In), upgrade |-> Us, remove |-> Re]
  BY DEF Requesting
<1>7. Requesting(q, s, T) =
        [units |-> q.units, install |-> q.install \cup Range(IF f.tag = "install" THEN x ELSE In),
         upgrade |-> IF f.tag = "upgrade" THEN x ELSE Us, remove |-> IF f.tag = "remove" THEN x ELSE Re]
  BY <1>2 DEF Requesting
<1>8. /\ f.tag = "install" => RequestField(a, f) = [a EXCEPT !.install = a.install \cup Range(x)]
      /\ f.tag = "upgrade" => RequestField(a, f) = [a EXCEPT !.upgrade = a.upgrade \o x]
      /\ f.tag = "remove" => RequestField(a, f) = [a EXCEPT !.remove = a.remove \o x]
  <2> HIDE DEF a
  <2> QED  BY DEF RequestField
<1> HIDE DEF f, x, In, Us, Re, a
<1>9. /\ a.units = q.units /\ a.install = q.install \cup Range(In) /\ a.upgrade = Us /\ a.remove = Re
      /\ a = [units |-> a.units, install |-> a.install, upgrade |-> a.upgrade, remove |-> a.remove]
  BY <1>6
<1> DEFINE b == RequestField(a, f)
           d == Requesting(q, s, T)
<1>10. b = d
  <2>1. CASE f.tag = "install"
    <3>1. b = [units |-> a.units, install |-> a.install \cup Range(x), upgrade |-> a.upgrade, remove |-> a.remove]
      <4>1. b = [a EXCEPT !.install = a.install \cup Range(x)]
        BY <1>8, <2>1
      <4> HIDE DEF b
      <4> QED  BY <1>9, <4>1
    <3>2. d = [units |-> q.units, install |-> q.install \cup Range(x), upgrade |-> Us, remove |-> Re]
      BY <1>7, <2>1
    <3>3. a.install = q.install
      BY <1>4, <1>5, <1>9, <2>1
    <3> HIDE DEF b, d
    <3> QED  BY <1>9, <3>1, <3>2, <3>3
  <2>2. CASE f.tag = "upgrade"
    <3>1. b = [units |-> a.units, install |-> a.install, upgrade |-> a.upgrade \o x, remove |-> a.remove]
      <4>1. b = [a EXCEPT !.upgrade = a.upgrade \o x]
        BY <1>8, <2>2
      <4> HIDE DEF b
      <4> QED  BY <1>9, <4>1
    <3>2. d = [units |-> q.units, install |-> q.install \cup Range(In), upgrade |-> x, remove |-> Re]
      BY <1>7, <2>2
    <3>3. a.upgrade \o x = x
      BY <1>4, <1>5, <1>9, <2>2
    <3> HIDE DEF b, d
    <3> QED  BY <1>9, <3>1, <3>2, <3>3
  <2>3. CASE f.tag = "remove"
    <3>1. b = [units |-> a.units, install |-> a.install, upgrade |-> a.upgrade, remove |-> a.remove \o x]
      <4>1. b = [a EXCEPT !.remove = a.remove \o x]
        BY <1>8, <2>3
      <4> HIDE DEF b
      <4> QED  BY <1>9, <4>1
    <3>2. d = [units |-> q.units, install |-> q.install \cup Range(In), upgrade |-> Us, remove |-> x]
      BY <1>7, <2>3
    <3>3. a.remove \o x = x
      BY <1>4, <1>5, <1>9, <2>3
    <3> HIDE DEF b, d
    <3> QED  BY <1>9, <3>1, <3>2, <3>3
  <2> QED  BY <1>3, <2>1, <2>2, <2>3 DEF RequestTags
<1> QED  BY <1>10 DEF a, b, d, f

LEMMA RequestFits ==
  ASSUME NEW q, q = [units |-> q.units, install |-> q.install, upgrade |-> << >>, remove |-> << >>],
         NEW s, ProperRequest(s)
  PROVE  FoldLeft(RequestField, q, s.fields) = Requesting(q, s, DOMAIN s.fields)
<1> DEFINE l == Len(s.fields)
           xs == s.fields
<1>1. l \in Nat /\ DOMAIN xs = 1 .. l
  BY DEF ProperRequest
<1> HIDE DEF l
<1>2. PICK g : FieldsFold(g, "problem", q, xs, 1 .. l) /\ FoldLeft(RequestField, q, xs) = g[1 .. l]
  BY <1>1, FieldsFolded
<1> DEFINE G == {T \in SUBSET (1 .. l) : g[T] = Requesting(q, s, T)}
<1>3. \A T \in SUBSET (1 .. l) : g[T] = IF T = {} THEN q ELSE RequestField(g[T \ {Max(T)}], xs[Max(T)])
  BY <1>2 DEF FieldsFold, ReadField
<1>4. {} \in G
  <2>1. \A tag, d : LastIn(s, {}, tag, d) = d
    BY DEF LastIn, TagAt
  <2>2. q.install \cup Range(<< >>) = q.install
    BY DEF Range
  <2>3. Requesting(q, s, {}) = q
    BY <2>1, <2>2 DEF Requesting
  <2>4. g[{}] = q
    BY <1>3
  <2> QED  BY <2>3, <2>4
<1>5. ASSUME NEW T \in SUBSET (1 .. l), T # {}, T \ {Max(T)} \in G PROVE T \in G
  <2> DEFINE c == Max(T)
  <2>1. g[T \ {c}] = Requesting(q, s, T \ {c}) /\ g[T] = RequestField(g[T \ {c}], xs[c])
    BY <1>3, <1>5
  <2> HIDE DEF c
  <2>2. g[T] = Requesting(q, s, T)
    <3>1. c = Max(T)
      BY DEF c
    <3>2. RequestField(Requesting(q, s, T \ {c}), xs[c]) = Requesting(q, s, T)
      BY <1>1, <1>5, <3>1, RequestStep
    <3> QED  BY <2>1, <3>2
  <2> QED  BY <2>2
<1> HIDE DEF G
<1>6. 1 .. l \in G
  BY <1>1, <1>4, <1>5, PositionSets
<1> QED  BY <1>1, <1>2, <1>6 DEF G

-----------------------------------------------------------------------------
(* The stanzas of a kind *)

StanzasRec(f, doc, kind) ==
  f = [k \in 0 .. Len(doc) |->
         IF k = 0 THEN << >> ELSE IF doc[k].kind = kind THEN Append(f[k-1], doc[k]) ELSE f[k-1]]
StanzasTo(doc, kind) == CHOOSE f : StanzasRec(f, doc, kind)

Listing(doc) == Len(doc) \in Nat /\ DOMAIN doc = 1 .. Len(doc)

\* those up to the position k, q being those before
OneMore(q, r, doc, kind, k) == r = IF doc[k].kind = kind THEN Append(q, doc[k]) ELSE q

LEMMA StanzasAre ==
  ASSUME NEW doc, Listing(doc), NEW kind
  PROVE  /\ Ref!Stanzas(doc, kind) = StanzasTo(doc, kind)[Len(doc)]
         /\ StanzasTo(doc, kind)[0] = << >>
         /\ \A k \in 1 .. Len(doc) :
              OneMore(StanzasTo(doc, kind)[k-1], StanzasTo(doc, kind)[k], doc, kind, k)
<1> DEFINE n == Len(doc)
           D == Seq(Range(doc))
           H == [k \in Nat |-> [q \in D |-> IF k \in 1 .. n /\ doc[k].kind = kind THEN Append(q, doc[k]) ELSE q]]
<1>1. n \in Nat /\ DOMAIN doc = 1 .. n
  BY DEF Listing
<1>2. << >> \in D
  OBVIOUS
<1>3. StepsOf(H, D)
  <2>1. ASSUME NEW k \in 1 .. n, NEW q \in D PROVE Append(q, doc[k]) \in D
    <3>1. doc[k] \in Range(doc)
      BY <1>1 DEF Range
    <3> QED  BY <3>1
  <2> HIDE DEF D
  <2>2. \A k \in Nat : \A q \in D : (IF k \in 1 .. n /\ doc[k].kind = kind THEN Append(q, doc[k]) ELSE q) \in D
    BY <2>1
  <2> QED  BY <2>2 DEF StepsOf
<1>4. PICK g : Chain(g, n, D, << >>, H)
  <2> HIDE DEF H, D
  <2> QED  BY <1>1, <1>2, <1>3, Iteration
<1>5. StanzasRec(g, doc, kind)
  <2>1. g = [k \in 0 .. n |-> g[k]]
    BY <1>4 DEF Chain
  <2>2. ASSUME NEW k \in 0 .. n
        PROVE  g[k] = IF k = 0 THEN << >> ELSE IF doc[k].kind = kind THEN Append(g[k-1], doc[k]) ELSE g[k-1]
    <3>1. CASE k = 0
      BY <1>4, <3>1 DEF Chain
    <3>2. CASE k # 0
      <4>1. k \in 1 .. n /\ k \in Nat /\ k-1 \in 0 .. n
        BY <1>1, <3>2
      <4>2. g[k] = H[k][g[k-1]] /\ g[k-1] \in D
        BY <1>4, <4>1 DEF Chain
      <4> HIDE DEF D
      <4>3. H[k][g[k-1]] = IF doc[k].kind = kind THEN Append(g[k-1], doc[k]) ELSE g[k-1]
        BY <4>1, <4>2
      <4> QED  BY <3>2, <4>2, <4>3
    <3> QED  BY <3>1, <3>2
  <2> HIDE DEF H
  <2> QED  BY <2>1, <2>2 DEF StanzasRec
<1> DEFINE f == StanzasTo(doc, kind)
<1>6. StanzasRec(f, doc, kind)
  BY <1>5 DEF StanzasTo
<1>7. Ref!Stanzas(doc, kind) = f[n]
  BY DEF Ref!Stanzas, StanzasTo, StanzasRec
<1> HIDE DEF f
<1>8. f[0] = << >>
  BY <1>1, <1>6 DEF StanzasRec
<1>9. ASSUME NEW k \in 1 .. n PROVE OneMore(f[k-1], f[k], doc, kind, k)
  <2>1. k \in 0 .. n /\ k # 0
    BY <1>1
  <2> QED  BY <1>6, <2>1 DEF StanzasRec, OneMore
<1> QED  BY <1>7, <1>8, <1>9 DEF f

\* sequences that grow
Longer(q, r, x) ==
  /\ r \in Seq(Range(r)) /\ r # << >>
  /\ Len(q) \in Nat /\ Len(r) = Len(q) + 1 /\ DOMAIN q = 1 .. Len(q) /\ DOMAIN r = 1 .. Len(q) + 1
  /\ \A i \in DOMAIN q : r[i] = q[i]
  /\ r[Len(q) + 1] = x

LEMMA Appended ==
  ASSUME NEW q, q \in Seq(Range(q)), NEW x, NEW r, r = Append(q, x)
  PROVE  Longer(q, r, x)
<1> DEFINE S == Range(q) \cup {x}
<1>1. q \in Seq(S) /\ x \in S
  <2> DEFINE U == Range(q)
  <2> HIDE DEF U
  <2>1. q \in Seq(U) => q \in Seq(U \cup {x})
    OBVIOUS
  <2> QED  BY <2>1 DEF U
<1> HIDE DEF S
<1>2. /\ r \in Seq(S) /\ Len(q) \in Nat /\ Len(r) = Len(q) + 1 /\ DOMAIN q = 1 .. Len(q)
      /\ \A i \in 1 .. Len(q) : r[i] = q[i]
      /\ r[Len(q) + 1] = x
  BY <1>1
<1>3. DOMAIN r = 1 .. Len(q) + 1
  BY <1>2
<1>4. r # << >>
  BY <1>2
<1>5. r \in Seq(Range(r))
  <2>1. \A i \in 1 .. Len(r) : r[i] \in Range(r)
    BY <1>2, <1>3 DEF Range
  <2>2. r = [i \in 1 .. Len(r) |-> r[i]]
    <3>1. \A y : y \in Seq(S) => y = [i \in 1 .. Len(y) |-> y[i]]
      OBVIOUS
    <3> QED  BY <1>2, <3>1
  <2> DEFINE R == Range(r)
  <2> HIDE DEF R
  <2>3. Len(r) \in Nat /\ r \in [1 .. Len(r) -> R]
    BY <1>2, <2>1, <2>2 DEF R
  <2>4. \A y, T : \A l \in Nat : y \in [1 .. l -> T] => y \in Seq(T)
    OBVIOUS
  <2> QED  BY <2>3, <2>4 DEF R
<1> QED  BY <1>2, <1>3, <1>4, <1>5 DEF Longer

-----------------------------------------------------------------------------
(* What was read of the packages ps and the requests rs, of which one is used *)

LastGiven(s, tag) == LastIn(s, DOMAIN s.fields, tag, << >>)
Requested(rs, tag) == IF rs = << >> THEN << >> ELSE LastGiven(rs[1], tag)
AllKept(us) == UNION {HandleKeep(us[i]) : i \in DOMAIN us}

ReadUpTo(q, ps, rs) ==
  /\ q = [units |-> q.units, install |-> q.install, upgrade |-> q.upgrade, remove |-> q.remove]
  /\ q.units \in Seq(Range(q.units)) /\ ps \in Seq(Range(ps)) /\ Len(q.units) = Len(ps)
  /\ \A i \in DOMAIN ps : Fits(q.units[i], ps[i], DOMAIN ps[i].fields)
  /\ q.install = Range(Requested(rs, "install")) \cup AllKept(q.units)
  /\ q.upgrade = Requested(rs, "upgrade") /\ q.remove = Requested(rs, "remove")

LEMMA NothingRead == ReadUpTo(EmptyProblem, << >>, << >>)
<1>1. << >> \in Seq(Range(<< >>)) /\ DOMAIN << >> = {} /\ Range(<< >>) = {}
  BY DEF Range
<1>2. AllKept(<< >>) = {}
  BY <1>1 DEF AllKept
<1>3. Requested(<< >>, "install") = << >> /\ Requested(<< >>, "upgrade") = << >> /\ Requested(<< >>, "remove") = << >>
  BY DEF Requested
<1> DEFINE q == EmptyProblem
<1>4. /\ q = [units |-> q.units, install |-> q.install, upgrade |-> q.upgrade, remove |-> q.remove]
      /\ q.units = << >> /\ q.install = {} /\ q.upgrade = << >> /\ q.remove = << >>
  BY DEF EmptyProblem
<1> HIDE DEF q
<1>5. ReadUpTo(q, << >>, << >>)
  BY <1>1, <1>2, <1>3, <1>4 DEF ReadUpTo
<1> QED  BY <1>5 DEF q

LEMMA PackageRead ==
  ASSUME NEW q, NEW ps, NEW rs, ReadUpTo(q, ps, rs), NEW s, NEW u, Fits(u, s, DOMAIN s.fields),
         NEW qs, qs = Append(ps, s)
  PROVE  ReadUpTo(ClosePackage(q, u), qs, rs)
<1> DEFINE us == Append(q.units, u)
           ins == q.install \cup HandleKeep(u)
           r == ClosePackage(q, u)
<1>1. /\ q = [units |-> q.units, install |-> q.install, upgrade |-> q.upgrade, remove |-> q.remove]
      /\ q.units \in Seq(Range(q.units)) /\ ps \in Seq(Range(ps)) /\ Len(q.units) = Len(ps)
      /\ \A i \in DOMAIN ps : Fits(q.units[i], ps[i], DOMAIN ps[i].fields)
      /\ q.install = Range(Requested(rs, "install")) \cup AllKept(q.units)
      /\ q.upgrade = Requested(rs, "upgrade") /\ q.remove = Requested(rs, "remove")
  BY DEF ReadUpTo
<1>2. r = [units |-> us, install |-> ins, upgrade |-> q.upgrade, remove |-> q.remove]
  <2> DEFINE a == [q EXCEPT !.units = us]
  <2>1. r = [a EXCEPT !.install = ins]
    BY <1>1 DEF ClosePackage
  <2>2. a = [units |-> us, install |-> q.install, upgrade |-> q.upgrade, remove |-> q.remove]
    <3>1. q = [units |-> q.units, install |-> q.install, upgrade |-> q.upgrade, remove |-> q.remove]
      BY <1>1
    <3>2. \A y : [q EXCEPT !.units = y] = [units |-> y, install |-> q.install, upgrade |-> q.upgrade, remove |-> q.remove]
      BY <3>1
    <3> QED  BY <3>2
  <2> HIDE DEF a, r, us, ins
  <2> QED  BY <2>1, <2>2
<1> HIDE DEF r
<1>3. /\ us \in Seq(Range(us)) /\ Len(us) = Len(q.units) + 1
      /\ DOMAIN q.units = 1 .. Len(q.units) /\ DOMAIN us = 1 .. Len(q.units) + 1 /\ Len(q.units) \in Nat
      /\ \A i \in DOMAIN q.units : us[i] = q.units[i]
      /\ us[Len(q.units) + 1] = u
  <2>1. Longer(q.units, us, u)
    BY <1>1, Appended
  <2> HIDE DEF us
  <2> QED  BY <2>1 DEF Longer
<1>4. /\ qs \in Seq(Range(qs)) /\ Len(qs) = Len(ps) + 1
      /\ DOMAIN ps = 1 .. Len(ps) /\ DOMAIN qs = 1 .. Len(ps) + 1
      /\ \A i \in DOMAIN ps : qs[i] = ps[i]
      /\ qs[Len(ps) + 1] = s
  <2>1. Longer(ps, qs, s)
    BY <1>1, Appended
  <2> QED  BY <2>1 DEF Longer
<1> HIDE DEF us
<1>5. ASSUME NEW i \in DOMAIN qs PROVE Fits(us[i], qs[i], DOMAIN qs[i].fields)
  <2>1. CASE i \in DOMAIN ps
    <3>1. us[i] = q.units[i] /\ qs[i] = ps[i]
      BY <1>1, <1>3, <1>4, <2>1
    <3> QED  BY <1>1, <2>1, <3>1
  <2>2. CASE i = Len(ps) + 1
    <3>1. us[i] = u /\ qs[i] = s
      BY <1>1, <1>3, <1>4, <2>2
    <3> QED  BY <3>1
  <2> QED  BY <1>1, <1>3, <1>4, <2>1, <2>2
<1>6. AllKept(us) = AllKept(q.units) \cup HandleKeep(u)
  <2>1. DOMAIN us = DOMAIN q.units \cup {Len(q.units) + 1}
    BY <1>3
  <2> QED  BY <1>3, <2>1 DEF AllKept
<1>7. /\ r.units = us /\ r.install = ins /\ r.upgrade = q.upgrade /\ r.remove = q.remove
      /\ r = [units |-> r.units, install |-> r.install, upgrade |-> r.upgrade, remove |-> r.remove]
  <2> HIDE DEF ins
  <2> QED  BY <1>2
<1>8. r.install = Range(Requested(rs, "install")) \cup AllKept(us)
  BY <1>1, <1>6, <1>7
<1>9. Len(us) = Len(qs)
  BY <1>1, <1>3, <1>4
<1>10. r.units = us /\ r.upgrade = Requested(rs, "upgrade") /\ r.remove = Requested(rs, "remove")
  BY <1>1, <1>7
<1> HIDE DEF ins
<1>11. ReadUpTo(r, qs, rs)
  BY <1>3, <1>4, <1>5, <1>7, <1>8, <1>9, <1>10 DEF ReadUpTo
<1> QED  BY <1>11 DEF r

LEMMA RequestRead ==
  ASSUME NEW q, NEW ps, ReadUpTo(q, ps, << >>), NEW s, ProperRequest(s), NEW rs, rs = Append(<< >>, s)
  PROVE  ReadUpTo(FoldLeft(RequestField, q, s.fields), ps, rs)
<1>1. /\ q = [units |-> q.units, install |-> q.install, upgrade |-> q.upgrade, remove |-> q.remove]
      /\ q.units \in Seq(Range(q.units)) /\ ps \in Seq(Range(ps)) /\ Len(q.units) = Len(ps)
      /\ \A i \in DOMAIN ps : Fits(q.units[i], ps[i], DOMAIN ps[i].fields)
      /\ q.install = AllKept(q.units) /\ q.upgrade = << >> /\ q.remove = << >>
  <2>1. Requested(<< >>, "install") = << >> /\ Requested(<< >>, "upgrade") = << >> /\ Requested(<< >>, "remove") = << >>
    BY DEF Requested
  <2>2. Range(<< >>) = {}
    BY DEF Range
  <2> QED  BY <2>1, <2>2 DEF ReadUpTo
<1> DEFINE r == FoldLeft(RequestField, q, s.fields)
<1>2. r = Requesting(q, s, DOMAIN s.fields)
  <2>1. q = [units |-> q.units, install |-> q.install, upgrade |-> << >>, remove |-> << >>]
    BY <1>1
  <2> QED  BY <2>1, RequestFits
<1>3. rs # << >> /\ rs[1] = s
  <2>1. << >> \in Seq({s})
    OBVIOUS
  <2>2. rs = <<s>>
    BY <2>1
  <2> QED  BY <2>2
<1>4. \A tag : Requested(rs, tag) = LastIn(s, DOMAIN s.fields, tag, << >>)
  BY <1>3 DEF Requested, LastGiven
<1> HIDE DEF r
<1> DEFINE x == Requested(rs, "install")
           y == Requested(rs, "upgrade")
           z == Requested(rs, "remove")
<1>5. r = [units |-> q.units, install |-> q.install \cup Range(x), upgrade |-> y, remove |-> z]
  BY <1>2, <1>4 DEF Requesting
<1> HIDE DEF x, y, z
<1>6. /\ r = [units |-> r.units, install |-> r.install, upgrade |-> r.upgrade, remove |-> r.remove]
      /\ r.units = q.units /\ r.install = q.install \cup Range(x) /\ r.upgrade = y /\ r.remove = z
  BY <1>5
<1>7. r.install = Range(x) \cup AllKept(r.units)
  BY <1>1, <1>6
<1>8. ReadUpTo(r, ps, rs)
  BY <1>1, <1>6, <1>7 DEF ReadUpTo, x, y, z
<1> QED  BY <1>8 DEF r

-----------------------------------------------------------------------------
(* The whole document *)

\* every list is given once at most in a stanza, and there is one request at most
Proper(doc) ==
  /\ Listing(doc)
  /\ \A k \in DOMAIN doc : /\ doc[k].kind = "package" => ProperPackage(doc[k])
                           /\ doc[k].kind = "problem" => ProperRequest(doc[k])
  /\ \A j, k \in DOMAIN doc : doc[j].kind = "problem" /\ doc[k].kind = "problem" => j = k

\* the first n stanzas were read
ReadTo(q, doc, n) ==
  /\ n \in 0 .. Len(doc)
  /\ ReadUpTo(q, StanzasTo(doc, "package")[n], StanzasTo(doc, "problem")[n])
  /\ (\A j \in 1 .. n : doc[j].kind # "problem") => StanzasTo(doc, "problem")[n] = << >>

LEMMA ReadNext ==
  ASSUME NEW doc, Proper(doc), NEW k \in 1 .. Len(doc), NEW q, ReadTo(q, doc, k-1)
  PROVE  ReadTo(ReadStanza(q, doc[k]), doc, k)
<1> DEFINE n == Len(doc)
           s == doc[k]
           f == StanzasTo(doc, "package")
           g == StanzasTo(doc, "problem")
           r == ReadStanza(q, s)
<1>1. n \in Nat /\ DOMAIN doc = 1 .. n /\ Listing(doc) /\ k \in 0 .. n /\ k \in Nat
  BY DEF Proper, Listing
<1>2. OneMore(f[k-1], f[k], doc, "package", k) /\ OneMore(g[k-1], g[k], doc, "problem", k)
  BY <1>1, StanzasAre
<1>3. ReadUpTo(q, f[k-1], g[k-1]) /\ ((\A j \in 1 .. k-1 : doc[j].kind # "problem") => g[k-1] = << >>)
  BY DEF ReadTo
<1> HIDE DEF f, g
<1>4. CASE s.kind = "package"
  <2>1. f[k] = Append(f[k-1], s) /\ g[k] = g[k-1]
    BY <1>2, <1>4 DEF OneMore
  <2> DEFINE u == FoldLeft(PackageField, StartPackage(s.name), s.fields)
  <2>2. r = ClosePackage(q, u)
    BY <1>4 DEF ReadStanza
  <2>3. Fits(u, s, DOMAIN s.fields)
    <3>1. ProperPackage(s)
      BY <1>1, <1>4 DEF Proper
    <3> QED  BY <3>1, PackageFits
  <2> HIDE DEF u, r
  <2>4. ReadUpTo(r, f[k], g[k])
    BY <1>3, <2>1, <2>2, <2>3, PackageRead
  <2>5. (\A j \in 1 .. k : doc[j].kind # "problem") => g[k] = << >>
    <3>1. \A j \in 1 .. k-1 : j \in 1 .. k
      BY <1>1
    <3> QED  BY <1>3, <2>1, <3>1
  <2> QED  BY <1>1, <2>4, <2>5 DEF ReadTo, f, g, r
<1>5. CASE s.kind = "problem"
  <2>1. f[k] = f[k-1] /\ g[k] = Append(g[k-1], s)
    BY <1>2, <1>5 DEF OneMore
  <2>2. r = FoldLeft(RequestField, q, s.fields)
    BY <1>5 DEF ReadStanza
  <2>3. g[k-1] = << >>
    <3>1. \A j \in 1 .. k-1 : j \in DOMAIN doc /\ j # k
      BY <1>1
    <3> QED  BY <1>1, <1>3, <1>5, <3>1 DEF Proper
  <2>4. ProperRequest(s)
    BY <1>1, <1>5 DEF Proper
  <2> DEFINE ps == f[k-1]
             rs == g[k]
  <2>5. ReadUpTo(q, ps, << >>) /\ rs = Append(<< >>, s)
    BY <1>3, <2>1, <2>3
  <2> HIDE DEF ps, rs, r
  <2>6. ReadUpTo(r, ps, rs)
    BY <2>2, <2>4, <2>5, RequestRead
  <2>7. ReadUpTo(r, f[k], g[k])
    BY <2>1, <2>6 DEF ps, rs
  <2>8. ~ \A j \in 1 .. k : doc[j].kind # "problem"
    BY <1>1, <1>5
  <2> QED  BY <1>1, <2>7, <2>8 DEF ReadTo, f, g, r
<1>6. CASE s.kind \notin {"package", "problem"}
  <2>1. f[k] = f[k-1] /\ g[k] = g[k-1] /\ r = q
    BY <1>2, <1>6 DEF OneMore, ReadStanza
  <2>2. (\A j \in 1 .. k : doc[j].kind # "problem") => g[k] = << >>
    <3>1. \A j \in 1 .. k-1 : j \in 1 .. k
      BY <1>1
    <3> QED  BY <1>3, <2>1, <3>1
  <2> HIDE DEF r
  <2> QED  BY <1>1, <1>3, <2>1, <2>2 DEF ReadTo, f, g, r
<1> QED  BY <1>4, <1>5, <1>6

LEMMA LastOfIs ==
  ASSUME NEW s, NEW tag, NEW d
  PROVE  Ref!LastOf(s, tag, d) = LastIn(s, DOMAIN s.fields, tag, d)
<1>1. Ref!Fields(s, tag) = TagAt(s, DOMAIN s.fields, tag)
  BY DEF Ref!Fields, TagAt
<1>2. \A S : Ref!Max(S) = Max(S)
  BY DEF Ref!Max, Max
<1> QED  BY <1>1, <1>2 DEF Ref!LastOf, LastIn

LEMMA RequestIs ==
  ASSUME NEW doc, NEW rs, rs = Ref!Stanzas(doc, "problem")
  PROVE  /\ Ref!DocRequest(doc).install = Requested(rs, "install")
         /\ Ref!DocRequest(doc).remove = Requested(rs, "remove")
         /\ Ref!DocRequest(doc).upgrade = Requested(rs, "upgrade")
<1>1. \A tag : (IF rs = << >> THEN << >> ELSE Ref!LastOf(rs[1], tag, << >>)) = Requested(rs, tag)
  BY LastOfIs DEF Requested, LastGiven
<1> QED  BY <1>1 DEF Ref!DocRequest

LEMMA PackageIs ==
  ASSUME NEW u, NEW s, Fits(u, s, DOMAIN s.fields), NEW p, p = Ref!DocPackage(s)
  PROVE  /\ p.name = u.name /\ p.version = u.version /\ p.installed = u.installed /\ p.keep = u.keep
         /\ p.depends = u.depends /\ p.conflicts = u.conflicts /\ p.provides = u.provides
<1>1. \A tag, d : Ref!LastOf(s, tag, d) = LastIn(s, DOMAIN s.fields, tag, d)
  BY LastOfIs
<1>2. /\ p.name = s.name
      /\ p.version = LastIn(s, DOMAIN s.fields, "version", 0) /\ p.installed = LastIn(s, DOMAIN s.fields, "installed", FALSE)
      /\ p.keep = LastIn(s, DOMAIN s.fields, "keep", "none") /\ p.depends = LastIn(s, DOMAIN s.fields, "depends", << >>)
      /\ p.conflicts = LastIn(s, DOMAIN s.fields, "conflicts", << >>)
      /\ p.provides = LastIn(s, DOMAIN s.fields, "provides", << >>)
  BY <1>1 DEF Ref!DocPackage
<1> QED  BY <1>2 DEF Fits

\* The properties are listed as long as there are fields.
PropertiesRec(f, s) ==
  f = [k \in 0 .. Len(s.fields) |->
         IF k = 0 THEN << >>
         ELSE IF s.fields[k].tag # "property" THEN f[k-1]
         ELSE Append(f[k-1], [prop |-> s.fields[k].prop, val |-> s.fields[k].val])]

RecommendedBy(q) == {i \in DOMAIN q : q[i].prop = "recommends"}

\* what the list q says of the recommendations among the fields T
ListsRecommended(q, s, T) ==
  /\ q \in Seq(Range(q))
  /\ RecommendsAt(s, T) = {} => RecommendedBy(q) = {}
  /\ Single(RecommendedBy(q)) => Single(RecommendsAt(s, T))
  /\ RecommendsAt(s, T) # {} =>
       \E i \in RecommendedBy(q) : \E k \in RecommendsAt(s, T) : q[i].val = s.fields[k].val

LEMMA RecommendsStep ==
  ASSUME NEW s, NEW n \in Nat, NEW k \in 1 .. n, NEW q, ListsRecommended(q, s, 1 .. k-1), NEW r,
         r = IF s.fields[k].tag # "property" THEN q
             ELSE Append(q, [prop |-> s.fields[k].prop, val |-> s.fields[k].val])
  PROVE  ListsRecommended(r, s, 1 .. k)
<1> DEFINE f == s.fields[k]
           x == [prop |-> f.prop, val |-> f.val]
           A == RecommendsAt(s, 1 .. k-1)
           B == RecommendsAt(s, 1 .. k)
<1>0. 1 .. k = (1 .. k-1) \cup {k} /\ k \notin 1 .. k-1
  OBVIOUS
<1>1. B = IF f.tag = "property" /\ f.prop = "recommends" THEN A \cup {k} ELSE A
  BY <1>0 DEF RecommendsAt
<1>2. k \notin A
  BY <1>0 DEF RecommendsAt
<1>3. CASE f.tag # "property"
  <2>1. r = q /\ A = B
    BY <1>1, <1>3
  <2> QED  BY <2>1 DEF ListsRecommended
<1>4. CASE f.tag = "property"
  <2>1. Longer(q, r, x)
    BY <1>4, Appended DEF ListsRecommended
  <2>2. x.prop = f.prop /\ x.val = f.val
    OBVIOUS
  <2> DEFINE l == Len(q) + 1
  <2> HIDE DEF x
  <2>3. /\ r \in Seq(Range(r)) /\ l \notin DOMAIN q /\ DOMAIN r = DOMAIN q \cup {l}
        /\ \A i \in DOMAIN q : r[i] = q[i]
        /\ r[l] = x
    BY <2>1 DEF Longer
  <2> HIDE DEF l
  <2>4. RecommendedBy(r) = IF f.prop = "recommends" THEN RecommendedBy(q) \cup {l} ELSE RecommendedBy(q)
    BY <2>2, <2>3 DEF RecommendedBy
  <2>5. l \notin RecommendedBy(q)
    BY <2>3 DEF RecommendedBy
  <2>6. /\ A = {} => RecommendedBy(q) = {}
        /\ Single(RecommendedBy(q)) => Single(A)
        /\ A # {} => \E i \in RecommendedBy(q) : \E j \in A : q[i].val = s.fields[j].val
    BY DEF ListsRecommended
  <2>7. CASE f.prop # "recommends"
    <3>1. B = A /\ RecommendedBy(r) = RecommendedBy(q)
      BY <1>1, <2>4, <2>7
    <3>2. \A i \in RecommendedBy(q) : r[i] = q[i]
      BY <2>3 DEF RecommendedBy
    <3>3. A # {} => \E i \in RecommendedBy(r) : \E j \in A : r[i].val = s.fields[j].val
      BY <2>6, <3>1, <3>2
    <3> HIDE DEF A, B
    <3>4. /\ B = {} => RecommendedBy(r) = {}
          /\ Single(RecommendedBy(r)) => Single(B)
          /\ B # {} => \E i \in RecommendedBy(r) : \E j \in B : r[i].val = s.fields[j].val
      BY <2>6, <3>1, <3>3
    <3> QED  BY <2>3, <3>4 DEF ListsRecommended, B
  <2>8. CASE f.prop = "recommends"
    <3>1. B = A \cup {k} /\ RecommendedBy(r) = RecommendedBy(q) \cup {l}
      BY <1>1, <1>4, <2>4, <2>8
    <3>2. l \in RecommendedBy(r) /\ k \in B /\ r[l].val = s.fields[k].val
      BY <2>2, <2>3, <3>1
    <3> HIDE DEF A, B
    <3>3. ASSUME Single(RecommendedBy(r)) PROVE Single(B)
      <4>1. RecommendedBy(q) = {}
        BY <2>5, <3>1, <3>3 DEF Single
      <4>2. A = {}
        BY <2>6, <4>1
      <4> QED  BY <3>1, <4>2 DEF Single
    <3>4. B # {} /\ \E i \in RecommendedBy(r) : \E j \in B : r[i].val = s.fields[j].val
      BY <3>2
    <3> QED  BY <2>3, <3>3, <3>4 DEF ListsRecommended, B
  <2> QED  BY <2>7, <2>8
<1> QED  BY <1>3, <1>4

\* the properties that are recommendations, and the fields that are
LEMMA PropertiesAre ==
  ASSUME NEW s, ProperPackage(s)
  PROVE  ListsRecommended(Ref!Properties(s), s, DOMAIN s.fields)
<1> DEFINE n == Len(s.fields)
           pair(k) == [prop |-> s.fields[k].prop, val |-> s.fields[k].val]
           D == Seq({pair(k) : k \in 1 .. n})
           H == [k \in Nat |-> [q \in D |-> IF k \notin 1 .. n \/ s.fields[k].tag # "property" THEN q ELSE Append(q, pair(k))]]
<1>1. n \in Nat /\ DOMAIN s.fields = 1 .. n
  BY DEF ProperPackage
<1>2. << >> \in D
  OBVIOUS
<1>3. StepsOf(H, D)
  <2>1. ASSUME NEW k \in 1 .. n, NEW q \in D PROVE Append(q, pair(k)) \in D
    <3>1. pair(k) \in {pair(j) : j \in 1 .. n}
      OBVIOUS
    <3> HIDE DEF pair
    <3> QED  BY <3>1
  <2> HIDE DEF D, pair
  <2>2. \A k \in Nat : \A q \in D :
          (IF k \notin 1 .. n \/ s.fields[k].tag # "property" THEN q ELSE Append(q, pair(k))) \in D
    BY <2>1
  <2> QED  BY <2>2 DEF StepsOf
<1>4. \A k \in 1 .. n : \A q \in D : H[k][q] = IF s.fields[k].tag # "property" THEN q ELSE Append(q, pair(k))
  <2> HIDE DEF D, pair
  <2> QED  BY <1>1
<1> HIDE DEF H, D
<1>6. PICK g : Chain(g, n, D, << >>, H)
  BY <1>1, <1>2, <1>3, Iteration
<1>7. PropertiesRec(g, s)
  <2>1. g = [k \in 0 .. n |-> g[k]]
    BY <1>6 DEF Chain
  <2>2. ASSUME NEW k \in 0 .. n
        PROVE  g[k] = IF k = 0 THEN << >> ELSE IF s.fields[k].tag # "property" THEN g[k-1] ELSE Append(g[k-1], pair(k))
    <3>1. CASE k = 0
      BY <1>6, <3>1 DEF Chain
    <3>2. CASE k # 0
      <4>1. k \in 1 .. n /\ k \in Nat /\ k-1 \in 0 .. n
        BY <1>1, <3>2
      <4>2. g[k] = H[k][g[k-1]] /\ g[k-1] \in D
        BY <1>6, <4>1 DEF Chain
      <4> HIDE DEF pair
      <4> QED  BY <1>4, <3>2, <4>1, <4>2
    <3> QED  BY <3>1, <3>2
  <2> QED  BY <2>1, <2>2 DEF PropertiesRec
<1> DEFINE h == CHOOSE f : PropertiesRec(f, s)
<1>8. PropertiesRec(h, s)
  BY <1>7
<1>9. Ref!Properties(s) = h[n]
  BY DEF Ref!Properties, PropertiesRec
<1> HIDE DEF h
<1>10. /\ h[0] = << >>
       /\ \A k \in 1 .. n : h[k] = IF s.fields[k].tag # "property" THEN h[k-1] ELSE Append(h[k-1], pair(k))
  <2>1. \A k \in 1 .. n : k \in 0 .. n /\ k # 0
    BY <1>1
  <2>2. 0 \in 0 .. n
    BY <1>1
  <2> QED  BY <1>8, <2>1, <2>2 DEF PropertiesRec
<1> DEFINE S == {k \in 0 .. n : ListsRecommended(h[k], s, 1 .. k)}
<1>11. 0 .. n \subseteq S
  <2>1. ASSUME NEW k \in 1 .. n, k - 1 \in S PROVE k \in S
    <3>1. ListsRecommended(h[k-1], s, 1 .. k-1)
      BY <2>1
    <3>2. h[k] = IF s.fields[k].tag # "property" THEN h[k-1] ELSE Append(h[k-1], pair(k))
      BY <1>10
    <3>3. ListsRecommended(h[k], s, 1 .. k)
      BY <1>1, <3>1, <3>2, RecommendsStep
    <3>4. k \in 0 .. n
      BY <1>1
    <3> QED  BY <3>3, <3>4
  <2>2. 0 \in S
    <3>1. 1 .. 0 = {} /\ 0 \in 0 .. n
      BY <1>1
    <3>2. RecommendsAt(s, {}) = {} /\ RecommendedBy(<< >>) = {} /\ << >> \in Seq(Range(<< >>))
      BY DEF RecommendsAt, RecommendedBy, Range
    <3>3. ListsRecommended(<< >>, s, {})
      BY <3>2 DEF ListsRecommended, Single
    <3> QED  BY <1>10, <3>1, <3>3
  <2> HIDE DEF S
  <2> QED  BY <1>1, <2>1, <2>2, UpTo
<1>12. n \in S
  BY <1>1, <1>11
<1> QED  BY <1>1, <1>9, <1>12

\* if recommendations are given once, those of the specification are read
LEMMA RecommendsRead ==
  ASSUME NEW s, NEW u, Fits(u, s, DOMAIN s.fields),
         NEW P, NEW i, P[i] = Ref!DocPackage(s), Single(Ref!Given(P[i], "recommends"))
  PROVE  Ref!Conjuncts(P, i, "recommends") = u.recommends
<1> DEFINE q == Ref!Properties(s)
           T == RecommendsAt(s, DOMAIN s.fields)
           G == Ref!Given(P[i], "recommends")
<1>1. P[i].props = q
  BY DEF Ref!DocPackage
<1>2. ListsRecommended(q, s, DOMAIN s.fields)
  BY PropertiesAre DEF Fits
<1> HIDE DEF q
<1>3. G = RecommendedBy(q)
  BY <1>1 DEF Ref!Given, RecommendedBy
<1>4. Single(G)
  OBVIOUS
<1> HIDE DEF G
<1>5. /\ T = {} => G = {}
      /\ Single(T)
      /\ T # {} => \E j \in G : \E k \in T : q[j].val = s.fields[k].val
  BY <1>2, <1>3, <1>4 DEF ListsRecommended
<1>6. u.recommends = RecommendsIn(s, DOMAIN s.fields)
  BY <1>5 DEF Fits
<1>7. Ref!Conjuncts(P, i, "recommends") = IF G # {} THEN q[Ref!Min(G)].val ELSE << >>
  BY <1>1 DEF Ref!Conjuncts, G
<1>8. RecommendsIn(s, DOMAIN s.fields) = IF T = {} THEN << >> ELSE s.fields[CHOOSE k \in T : TRUE].val
  BY DEF RecommendsIn
<1> HIDE DEF T
<1>9. CASE T = {}
  BY <1>5, <1>6, <1>7, <1>8, <1>9
<1>10. CASE T # {}
  <2>1. PICK j \in G, k \in T : q[j].val = s.fields[k].val
    BY <1>5, <1>10
  <2>2. (CHOOSE y \in T : TRUE) = k
    BY <1>5 DEF Single
  <2>3. Ref!Min(G) = j
    <3>1. G = {j} /\ j \in Nat
      <4>1. G = {j}
        BY <1>4 DEF Single
      <4>2. DOMAIN q = 1 .. Len(q) /\ Len(q) \in Nat
        <5>1. q \in Seq(Range(q))
          BY <1>2 DEF ListsRecommended
        <5> QED  BY <5>1
      <4>3. j \in DOMAIN q
        BY <1>3 DEF RecommendedBy
      <4> QED  BY <4>1, <4>2, <4>3
    <3>2. j <= j
      BY <3>1
    <3> QED  BY <3>1, <3>2 DEF Ref!Min
  <2> QED  BY <1>6, <1>7, <1>8, <1>10, <2>1, <2>2, <2>3
<1> QED  BY <1>9, <1>10

(***************************************************************************)
(* When all stanzas were read, what was read are the packages and the      *)
(* request of the document.                                                *)
(***************************************************************************)
LEMMA DocumentRead ==
  ASSUME NEW doc, Proper(doc), NEW q, ReadTo(q, doc, Len(doc))
  PROVE  Reads(q, Ref!DocPackages(doc), Ref!DocRequest(doc))
<1> DEFINE ps == Ref!Stanzas(doc, "package")
           rs == Ref!Stanzas(doc, "problem")
           P == Ref!DocPackages(doc)
           request == Ref!DocRequest(doc)
<1>1. ReadUpTo(q, ps, rs)
  <2>1. Listing(doc)
    BY DEF Proper
  <2>2. ps = StanzasTo(doc, "package")[Len(doc)] /\ rs = StanzasTo(doc, "problem")[Len(doc)]
    BY <2>1, StanzasAre
  <2> QED  BY <2>2 DEF ReadTo
<1>2. DOMAIN P = DOMAIN ps /\ \A i \in DOMAIN ps : P[i] = Ref!DocPackage(ps[i])
  BY DEF Ref!DocPackages
<1>3. /\ request.install = Requested(rs, "install") /\ request.remove = Requested(rs, "remove")
      /\ request.upgrade = Requested(rs, "upgrade")
  BY RequestIs
<1> HIDE DEF ps, rs, P, request
<1>4. /\ q = [units |-> q.units, install |-> q.install, upgrade |-> q.upgrade, remove |-> q.remove]
      /\ q.units \in Seq(Range(q.units)) /\ ps \in Seq(Range(ps)) /\ Len(q.units) = Len(ps)
      /\ \A i \in DOMAIN ps : Fits(q.units[i], ps[i], DOMAIN ps[i].fields)
      /\ q.install = Range(Requested(rs, "install")) \cup AllKept(q.units)
      /\ q.upgrade = Requested(rs, "upgrade") /\ q.remove = Requested(rs, "remove")
  BY <1>1 DEF ReadUpTo
<1>5. \A y, T : y \in Seq(T) => Len(y) \in Nat /\ DOMAIN y = 1 .. Len(y)
  OBVIOUS
<1>6. Len(q.units) \in Nat /\ DOMAIN q.units = 1 .. Len(q.units) /\ DOMAIN ps = 1 .. Len(q.units)
  <2>1. Len(q.units) \in Nat /\ DOMAIN q.units = 1 .. Len(q.units)
    BY <1>4, <1>5
  <2>2. DOMAIN ps = 1 .. Len(ps)
    BY <1>4, <1>5
  <2> QED  BY <1>4, <2>1, <2>2
<1>7. UnitsListed(q) /\ DOMAIN P = Units(q) /\ Units(q) = DOMAIN ps
  BY <1>2, <1>6 DEF UnitsListed, Units
<1>8. ASSUME NEW i \in Units(q)
      PROVE  /\ P[i].name = q.units[i].name /\ P[i].version = q.units[i].version
             /\ P[i].installed = q.units[i].installed /\ P[i].keep = q.units[i].keep
             /\ P[i].depends = q.units[i].depends /\ P[i].conflicts = q.units[i].conflicts
             /\ P[i].provides = q.units[i].provides /\ ListsRead(q.units[i])
             /\ Single(Ref!Given(P[i], "recommends")) => Ref!Conjuncts(P, i, "recommends") = q.units[i].recommends
  <2>1. Fits(q.units[i], ps[i], DOMAIN ps[i].fields) /\ P[i] = Ref!DocPackage(ps[i])
    BY <1>2, <1>4, <1>7
  <2> DEFINE u == q.units[i]
             s == ps[i]
             p == P[i]
  <2> HIDE DEF u, s, p
  <2>2. Fits(u, s, DOMAIN s.fields) /\ p = Ref!DocPackage(s)
    BY <2>1 DEF u, s, p
  <2>3. /\ p.name = u.name /\ p.version = u.version /\ p.installed = u.installed /\ p.keep = u.keep
        /\ p.depends = u.depends /\ p.conflicts = u.conflicts /\ p.provides = u.provides
    BY <2>2, PackageIs
  <2>4. ListsRead(u)
    BY <2>2 DEF Fits
  <2>5. Single(Ref!Given(p, "recommends")) => Ref!Conjuncts(P, i, "recommends") = u.recommends
    BY <2>2, RecommendsRead DEF p
  <2> QED  BY <2>3, <2>4, <2>5 DEF u, p
<1>9. q.install = Range(request.install) \cup UNION {HandleKeep(q.units[i]) : i \in Units(q)}
  BY <1>3, <1>4 DEF AllKept, Units
<1>10. Range(q.remove) = Range(request.remove) /\ Range(q.upgrade) = Range(request.upgrade)
  BY <1>3, <1>4
<1>11. Reads(q, P, request)
  BY <1>4, <1>7, <1>8, <1>9, <1>10 DEF Reads
<1> QED  BY <1>11 DEF P, request

-----------------------------------------------------------------------------
(* Reading, step by step *)

ReadSoFar == Proper(case.doc) => pos \in 1 .. Len(case.doc) + 1 /\ ReadTo(pr, case.doc, pos - 1)
ReadAll == Proper(case.doc) => Reads(pr, Packages, Request)

DocumentKept ==
  /\ pc = "read" => ReadSoFar
  /\ pc = "encode" \/ Encoded => ReadAll

LEMMA DocumentInit == Init => DocumentKept
<1> SUFFICES ASSUME Init PROVE DocumentKept
  OBVIOUS
<1>1. pc = "read" /\ pos = 1 /\ pr = EmptyProblem /\ ~ Encoded
  BY DEF Init, Encoded
<1> DEFINE doc == case.doc
<1>2. ASSUME Proper(doc) PROVE pos \in 1 .. Len(doc) + 1 /\ ReadTo(pr, doc, pos - 1)
  <2>1. Listing(doc) /\ Len(doc) \in Nat
    BY <1>2 DEF Proper, Listing
  <2>2. StanzasTo(doc, "package")[0] = << >> /\ StanzasTo(doc, "problem")[0] = << >>
    BY <2>1, StanzasAre
  <2>3. ReadTo(pr, doc, 0)
    BY <1>1, <2>1, <2>2, NothingRead DEF ReadTo
  <2> QED  BY <1>1, <2>1, <2>3
<1> QED  BY <1>1, <1>2 DEF DocumentKept, ReadSoFar

\* once sliced, what was read stays
LEMMA LaterKept ==
  ASSUME IInv, [Next]_vars, pc' = "encode" \/ Encoded', ~ Slice
  PROVE  (pc = "encode" \/ Encoded) /\ UNCHANGED <<case, pr, e>>
<1>1. CASE Read
  BY <1>1 DEF Read, Encoded
<1>2. CASE Encode
  BY <1>2 DEF Encode
<1>3. CASE Signal
  <2>1. CASE pc \in {"read", "encode"}
    <3>1. ~ Called /\ model = {}
      BY <2>1 DEF IInv, Phases, Unsolved, Called
    <3>2. end'.kind = "FAIL" /\ end'.signal = TRUE /\ pc' = "done"
      BY <1>3, <3>1 DEF Signal, PrintSolution, Stop
    <3> QED  BY <3>2 DEF Encoded
  <2>2. CASE pc \notin {"read", "encode"}
    <3>1. end = NoEnd /\ UNCHANGED <<case, pr, e>>
      BY <1>3 DEF IInv, Phases, Signal
    <3> QED  BY <2>2, <3>1 DEF Encoded, NoEnd
  <2> QED  BY <2>1, <2>2
<1>4. CASE \/ Start \/ FirstCall \/ Improve \/ LastCall \/ GetSolution
           \/ SolveLevel \/ StoreLevel \/ SolveOnce \/ SolveMax \/ StoreMax \/ Conclude
  <2>1. pc \notin {"read", "encode", "done"} /\ UNCHANGED <<case, pr, e>>
    BY <1>4 DEF Start, FirstCall, Improve, LastCall, GetSolution, SolveLevel, StoreLevel,
                SolveOnce, SolveMax, StoreMax, Conclude
  <2>2. Encoded
    BY <2>1 DEF IInv, Phases, Encoded, NoEnd
  <2> QED  BY <2>1, <2>2
<1>5. CASE UNCHANGED vars
  BY <1>5 DEF vars, Encoded
<1> QED  BY <1>1, <1>2, <1>3, <1>4, <1>5 DEF Next

LEMMA DocumentInv == IInv /\ DocumentKept /\ [Next]_vars => DocumentKept'
<1> SUFFICES ASSUME IInv, DocumentKept, [Next]_vars PROVE DocumentKept'
  OBVIOUS
<1>1. ASSUME pc' = "read" PROVE ReadSoFar'
  <2>1. CASE Read
    <3>1. pc = "read" /\ pos <= Len(case.doc) /\ pr' = ReadStanza(pr, case.doc[pos]) /\ pos' = pos + 1 /\ case' = case
      BY <2>1 DEF Read
    <3> SUFFICES ASSUME Proper(case.doc)
                 PROVE  pos + 1 \in 1 .. Len(case.doc) + 1 /\ ReadTo(ReadStanza(pr, case.doc[pos]), case.doc, (pos + 1) - 1)
      BY <3>1 DEF ReadSoFar
    <3>2. pos \in 1 .. Len(case.doc) + 1 /\ ReadTo(pr, case.doc, pos - 1) /\ Len(case.doc) \in Nat
      BY <3>1 DEF DocumentKept, ReadSoFar, Proper, Listing
    <3>3. pos \in 1 .. Len(case.doc)
      BY <3>1, <3>2
    <3>4. ReadTo(ReadStanza(pr, case.doc[pos]), case.doc, pos)
      BY <3>2, <3>3, ReadNext
    <3> QED  BY <3>2, <3>3, <3>4
  <2>2. CASE ~ Read
    <3>1. pc = "read" /\ UNCHANGED <<case, pos, pr>>
      BY <1>1, <2>2 DEF Next, vars, Slice, Encode, Start, FirstCall, Improve, LastCall, GetSolution, SolveLevel,
           StoreLevel, SolveOnce, SolveMax, StoreMax, Conclude, Signal, Stop, PrintSolution, Clear
    <3> QED  BY <3>1 DEF DocumentKept, ReadSoFar
  <2> QED  BY <2>1, <2>2
<1>2. ASSUME pc' = "encode" \/ Encoded' PROVE ReadAll'
  <2>1. CASE Slice
    <3>1. pc = "read" /\ pos > Len(case.doc) /\ UNCHANGED <<case, pr>>
      BY <2>1 DEF Slice
    <3> SUFFICES ASSUME Proper(case.doc) PROVE Reads(pr, Packages, Request)
      BY <3>1 DEF ReadAll, Packages, Request
    <3>2. pos \in 1 .. Len(case.doc) + 1 /\ ReadTo(pr, case.doc, pos - 1) /\ Len(case.doc) \in Nat
      BY <3>1 DEF DocumentKept, ReadSoFar, Proper, Listing
    <3>3. pos - 1 = Len(case.doc)
      BY <3>1, <3>2
    <3> QED  BY <3>2, <3>3, DocumentRead DEF Packages, Request
  <2>2. CASE ~ Slice
    <3>1. (pc = "encode" \/ Encoded) /\ UNCHANGED <<case, pr>>
      BY <1>2, <2>2, LaterKept
    <3> QED  BY <3>1 DEF DocumentKept, ReadAll, Packages, Request
  <2> QED  BY <2>1, <2>2
<1> QED  BY <1>1, <1>2 DEF DocumentKept

-----------------------------------------------------------------------------
(* From the document to the answer *)

(***************************************************************************)
(* A case without the known issues: the document is plain, its lists are   *)
(* given once, the criteria are known, and slicing is safe for the         *)
(* requests to upgrade.  m bounds the versions.                            *)
(***************************************************************************)
PlainCase(m) ==
  /\ Proper(case.doc) /\ Plain(Packages, Request, m)
  /\ \A i \in DOMAIN Packages : \A k \in DOMAIN Packages[i].depends :
       DOMAIN Packages[i].depends[k] = 1 .. Len(Packages[i].depends[k])
  /\ Len(Criteria(o)) \in Nat /\ DOMAIN Criteria(o) = 1 .. Len(Criteria(o))
  /\ \A k \in 1 .. Len(Criteria(o)) : Criteria(o)[k].word \in Words
  /\ UpgradesSafe(WholeProblem)

Cleanly == \E m \in Nat : PlainCase(m)

\* what is sliced, and what it is the slice of
LEMMA SliceOfDocument ==
  ASSUME IInv, SlicedKept, DocumentKept, Encoded, NEW m \in Nat, PlainCase(m)
  PROVE  /\ Reads(pr, Packages, Request) /\ Plain(Packages, Request, m)
         /\ e = Sliced(e.pr, e.lex) /\ e.pr = RefineUpgradeRequest(pr) /\ e.lex = Criteria(o)
         /\ Whole(e) = WholeOf(e.pr, e.lex) /\ WholeProblem = Whole(e)
         /\ UnitsListed(e.pr) /\ Units(e.pr) = DOMAIN Packages
         /\ e.needed \subseteq DOMAIN Packages
         /\ WellPosed(Whole(e), m) /\ WellPosed(e, m)
<1> DEFINE r == RefineUpgradeRequest(pr)
<1>1. Reads(pr, Packages, Request) /\ Plain(Packages, Request, m)
  BY DEF PlainCase, DocumentKept, ReadAll
<1>2. e = Sliced(r, Criteria(o))
  BY DEF SlicedKept, SlicedOf
<1>3. e.pr = r /\ e.lex = Criteria(o)
  BY <1>2 DEF Sliced
<1>4. Whole(e) = WholeOf(r, Criteria(o)) /\ WholeProblem = Whole(e)
  BY <1>3 DEF Whole, WholeOf, WholeProblem
<1>5. Wholly(Whole(e), pr, Packages, Request, m) /\ Whole(e).pr = r
  BY <1>1, <1>4, RefinedWholly
<1>6. Units(r) = DOMAIN Packages /\ UnitsListed(r)
  BY <1>5 DEF Wholly, Reads, Units, UnitsListed
<1>7. WellPosed(Whole(e), m)
  BY <1>1, <1>4, PlainPosed
<1> HIDE DEF r
<1>8. e.needed \subseteq Units(e.pr) /\ e.features = UNION {Provided(e.pr, i) : i \in e.needed}
  BY <1>2, <1>3, <1>6, SlicedClosed
<1>9. WellPosed(e, m)
  BY <1>7, <1>8, WholePosed
<1> QED  BY <1>1, <1>2, <1>3, <1>4, <1>6, <1>7, <1>8, <1>9 DEF r

LEMMA CaseUnits ==
  ASSUME IInv, SlicedKept, DocumentKept, Encoded, NEW m \in Nat, PlainCase(m)
  PROVE  /\ e.pr.units = pr.units /\ DependsListed(e) /\ InstalledKnown(e) /\ CriteriaKnown(e)
         /\ \A i \in DOMAIN Packages : ListsRead(e.pr.units[i])
<1>1. /\ Reads(pr, Packages, Request) /\ Plain(Packages, Request, m)
      /\ e.pr = RefineUpgradeRequest(pr) /\ e.lex = Criteria(o) /\ UnitsListed(e.pr)
      /\ e.needed \subseteq DOMAIN Packages /\ WholeProblem = Whole(e)
      /\ Whole(e) = WholeOf(e.pr, e.lex)
  BY SliceOfDocument
<1>2. e.pr.units = pr.units
  <2>1. Wholly(Whole(e), pr, Packages, Request, m) /\ Whole(e).pr = e.pr
    BY <1>1, RefinedWholly
  <2> QED  BY <2>1 DEF Wholly
<1>3. ASSUME NEW i \in e.needed
      PROVE  Packages[i].depends = Unit(e, i).depends /\ Unit(e, i).installed \in BOOLEAN
  BY <1>1, <1>2, <1>3, PlainUnits
<1>4. DependsListed(e) /\ InstalledKnown(e)
  BY <1>1, <1>3 DEF PlainCase, DependsListed, InstalledKnown
<1>5. CriteriaKnown(e)
  BY <1>1 DEF PlainCase, CriteriaKnown
<1>6. \A i \in DOMAIN Packages : ListsRead(e.pr.units[i])
  BY <1>1, <1>2 DEF Reads
<1> QED  BY <1>2, <1>4, <1>5, <1>6

\* the slice is finite
LEMMA CaseFinite ==
  ASSUME IInv, SlicedKept, DocumentKept, Encoded, NEW m \in Nat, PlainCase(m)
  PROVE  Finitely(e) /\ IsFiniteSet(e.features)
<1>1. UnitsListed(e.pr) /\ Units(e.pr) = DOMAIN Packages /\ e.needed \subseteq DOMAIN Packages /\ WellPosed(e, m)
  BY SliceOfDocument
<1>2. \A i \in DOMAIN Packages : ListsRead(e.pr.units[i])
  BY CaseUnits
<1>3. IsFiniteSet(e.needed)
  <2> DEFINE l == Len(e.pr.units)
  <2>1. l \in Nat /\ 1 \in Int /\ l \in Int /\ DOMAIN Packages = 1 .. l
    BY <1>1 DEF UnitsListed
  <2> HIDE DEF l
  <2>2. IsFiniteSet(1 .. l)
    BY <2>1, FS_Interval
  <2> QED  BY <1>1, <2>1, <2>2, FS_Subset
<1>4. Finitely(e)
  BY <1>1, <1>2, <1>3 DEF Finitely, Unit, ListsRead
<1>5. ASSUME NEW i \in e.needed PROVE IsFiniteSet(Provided(e.pr, i))
  <2> DEFINE q == e.pr.units[i].provides
             f == [k \in DOMAIN q |-> FeatureOf(q[k])]
  <2>1. q \in Seq(Range(q))
    BY <1>1, <1>2 DEF ListsRead
  <2>2. Provided(e.pr, i) = {f[k] : k \in DOMAIN q} /\ DOMAIN f = DOMAIN q
    BY DEF Provided, Range
  <2> HIDE DEF q
  <2>3. IsFiniteSet(DOMAIN q)
    <3> DEFINE l == Len(q)
    <3>1. l \in Nat /\ DOMAIN q = 1 .. l /\ 1 \in Int /\ l \in Int
      BY <2>1, LenProperties
    <3> HIDE DEF l
    <3> QED  BY <3>1, FS_Interval
  <2> HIDE DEF f
  <2> QED  BY <2>2, <2>3, ImageOf
<1>6. IsFiniteSet(e.features)
  <2> DEFINE f == [i \in e.needed |-> Provided(e.pr, i)]
             S == {f[i] : i \in e.needed}
  <2>1. e.features = UNION S /\ DOMAIN f = e.needed /\ \A i \in e.needed : IsFiniteSet(f[i])
    BY <1>1, <1>5 DEF WellPosed, Encodable
  <2> HIDE DEF f
  <2>2. IsFiniteSet(S) /\ \A T \in S : IsFiniteSet(T)
    BY <1>3, <2>1, ImageOf
  <2> HIDE DEF S
  <2> QED  BY <2>1, <2>2, FS_UNION
<1> QED  BY <1>4, <1>6

LEMMA CaseReadable ==
  ASSUME IInv, SlicedKept, DocumentKept, PointsKept, Encoded, NEW m \in Nat, PlainCase(m)
  PROVE  Readable(e, m) /\ IsFiniteSet(enc.vars) /\ NoneHeavy(e)
<1>1. WellPosed(e, m) /\ UnitsListed(e.pr)
  BY SliceOfDocument
<1>2. DependsListed(e) /\ InstalledKnown(e) /\ CriteriaKnown(e)
  BY CaseUnits
<1>3. Finitely(e) /\ IsFiniteSet(e.features)
  BY CaseFinite
<1>4. enc = EncodingOf(e)
  BY DEF PointsKept, PointsOfModels
<1>5. IsFiniteSet(enc.vars) /\ NoneHeavy(e) /\ Bounded(Input(e), m)
  BY <1>1, <1>2, <1>3, <1>4, EncodingFinite
<1> QED  BY <1>1, <1>2, <1>5 DEF Readable, CriteriaKnown, CriteriaListed

\* to meet the slice is to be valid in the whole document
LEMMA SliceIsValid ==
  ASSUME IInv, SlicedKept, DocumentKept, Encoded, NEW m \in Nat, PlainCase(m), NEW I, I \subseteq e.needed
  PROVE  Met(e, I) <=> Ref!Valid(Packages, Request, I)
<1>1. /\ Reads(pr, Packages, Request) /\ Plain(Packages, Request, m)
      /\ e = Sliced(e.pr, e.lex) /\ e.pr = RefineUpgradeRequest(pr)
      /\ Whole(e) = WholeOf(e.pr, e.lex) /\ WholeProblem = Whole(e)
      /\ UnitsListed(e.pr) /\ Units(e.pr) = DOMAIN Packages
      /\ e.needed \subseteq DOMAIN Packages
      /\ WellPosed(Whole(e), m) /\ WellPosed(e, m)
  BY SliceOfDocument
<1>2. Ref!Valid(Packages, Request, I) <=> Met(Whole(e), I)
  BY <1>1, ReadIsMeant
<1>3. Met(e, I) => Met(Whole(e), I)
  <2>1. UpgradesSafe(Whole(e))
    BY <1>1 DEF PlainCase
  <2> QED  BY <1>1, <2>1, SlicingSound
<1>4. Met(Whole(e), I) => Met(e, I)
  <2>1. I \cap e.needed = I /\ I \subseteq Units(e.pr)
    BY <1>1
  <2>2. Met(Whole(e), I) => Met(e, I \cap e.needed)
    BY <1>1, <2>1, SlicingKeeps
  <2> QED  BY <2>1, <2>2
<1> QED  BY <1>2, <1>3, <1>4

ExactIfClean == Encoded /\ Cleanly => Exact

LEMMA CleanExact == IInv /\ SlicedKept /\ DocumentKept /\ PointsKept /\ PointsMeet => ExactIfClean
<1> SUFFICES ASSUME IInv, SlicedKept, DocumentKept, PointsKept, PointsMeet, Encoded, NEW m \in Nat, PlainCase(m)
             PROVE  Exact
  BY DEF ExactIfClean, Cleanly
<1>1. Readable(e, m) /\ IsFiniteSet(enc.vars) /\ NoneHeavy(e)
  BY CaseReadable
<1>2. {q.units : q \in points} = {I \in SUBSET e.needed : Met(e, I)}
  BY <1>1 DEF PointsMeet
<1>3. e.needed \subseteq DOMAIN Packages
  BY SliceOfDocument
<1>4. \A I \in SUBSET e.needed : Met(e, I) <=> Ref!Valid(Packages, Request, I)
  BY SliceIsValid
<1>5. {I \in SUBSET e.needed : Met(e, I)} = {I \in Solutions : I \subseteq e.needed}
  BY <1>3, <1>4 DEF Solutions, Ref!ValidInstallations
<1> QED  BY <1>2, <1>5 DEF Exact

\* FAIL, in the words of the document
LEMMA CleanFail ==
  ASSUME IInv, SlicedKept, DocumentKept, PointsKept, PointsMeet, Cleanly, end.kind = "FAIL"
  PROVE  Solutions = {} \/ end.signal \/ killed \/ o.mode = "lp"
<1> SUFFICES ASSUME ~ end.signal, ~ killed, o.mode # "lp", NEW J \in Solutions PROVE FALSE
  OBVIOUS
<1>1. Encoded /\ points = {}
  BY DEF IInv, Phases, EndReasons, Encoded, NoEnd
<1>2. PICK m \in Nat : PlainCase(m)
  BY DEF Cleanly
<1>3. /\ Reads(pr, Packages, Request) /\ Plain(Packages, Request, m)
      /\ e = Sliced(e.pr, e.lex) /\ e.pr = RefineUpgradeRequest(pr)
      /\ Whole(e) = WholeOf(e.pr, e.lex)
      /\ UnitsListed(e.pr) /\ Units(e.pr) = DOMAIN Packages
      /\ WellPosed(Whole(e), m)
  BY <1>1, <1>2, SliceOfDocument
<1>4. J \subseteq DOMAIN Packages /\ Ref!Valid(Packages, Request, J)
  BY DEF Solutions, Ref!ValidInstallations
<1>5. Met(Whole(e), J)
  BY <1>3, <1>4, ReadIsMeant
<1>6. Met(e, J \cap e.needed)
  BY <1>3, <1>4, <1>5, SlicingKeeps
<1>7. Readable(e, m) /\ IsFiniteSet(enc.vars) /\ NoneHeavy(e)
  BY <1>1, <1>2, CaseReadable
<1>8. {q.units : q \in points} = {I \in SUBSET e.needed : Met(e, I)}
  BY <1>1, <1>2, <1>7 DEF PointsMeet
<1> QED  BY <1>1, <1>6, <1>8

(***************************************************************************)
(* From the stanzas of a plain document to the clauses: after it is read,  *)
(* sliced and encoded, the models of the hard clauses are the valid        *)
(* installations of the needed units, all and only (EncodingExact).        *)
(***************************************************************************)
THEOREM EncodingIsExact == Spec => [](Cleanly => EncodingExact)
<1>1. Init => SlicedKept
  BY DEF Init, SlicedKept, Encoded
<1>0. Init => PointsKept
  BY DEF Init, PointsKept, Encoded
<1>2. ExactIfClean /\ IInv => (Cleanly => EncodingExact)
  BY DEF ExactIfClean, EncodingExact, Exact, IInv, Phases, Encoded, NoEnd
<1> QED  BY <1>0, <1>1, <1>2, SlicedInv, DocumentInit, DocumentInv, PointsInv, CleanExact, PointsExact, PackupInvariance, PTL DEF Spec

AnswerMeant == AnswerValid /\ EndsJustified

(***************************************************************************)
(* What is printed for a plain document is a valid installation of the     *)
(* whole universe (AnswerValid), also after a signal, and a run that ends  *)
(* otherwise has its reason: FAIL is printed only if there is no valid     *)
(* installation, unless something was interrupted or the formalism is lp.  *)
(***************************************************************************)
THEOREM AnswerIsValid == Spec => [](Cleanly => AnswerMeant)
<1>1. Init => SlicedKept
  BY DEF Init, SlicedKept, Encoded
<1>0. Init => PointsKept
  BY DEF Init, PointsKept, Encoded
<1>2. IInv /\ ExactIfClean => (Cleanly => AnswerValid)
  <2> SUFFICES ASSUME IInv, ExactIfClean, Cleanly, end.kind = "answer" PROVE end.units \in Solutions
    BY DEF AnswerValid
  <2>1. Encoded
    BY DEF IInv, Phases, Encoded, NoEnd
  <2>2. PICK q \in points : end.units = q.units
    BY DEF IInv, PointPrinted
  <2> QED  BY <2>1, <2>2 DEF ExactIfClean, Exact
<1>3. IInv /\ SlicedKept /\ DocumentKept /\ PointsKept /\ PointsMeet => (Cleanly => EndsJustified)
  BY CleanFail DEF EndsJustified, IInv, EndReasons
<1>4. AnswerValid /\ EndsJustified => AnswerMeant
  BY DEF AnswerMeant
<1> QED  BY <1>0, <1>1, <1>2, <1>3, <1>4, SlicedInv, DocumentInit, DocumentInv, PointsInv, CleanExact, PointsExact, PackupInvariance, PTL DEF Spec

-----------------------------------------------------------------------------
(* The numbers of the objectives in a run *)

\* a point has a number for every objective
LEMMA PointCounts ==
  ASSUME NEW s, NEW en, NEW n \in Nat, en.weights \in [1 .. n -> Nat \ {0}],
         IsFiniteSet(DOMAIN en.soft), \A c \in DOMAIN en.soft : en.soft[c] \in Nat, NEW a
  PROVE  Point(s, en, a).vec \in [1 .. n -> Nat]
<1> DEFINE F == {d \in DOMAIN en.soft : ~ Satisfied(a, d)}
           copies == [c \in F |-> Split(en.weights, en.soft[c])]
           E(f, k) == f = [T \in SUBSET (DOMAIN copies) |->
                             IF T = {} THEN 0 ELSE f[T \ {Some(T)}] + copies[Some(T)][k]]
           iter(k) == CHOOSE f : E(f, k)
<1>1. Point(s, en, a).vec = [k \in DOMAIN en.weights |-> iter(k)[DOMAIN copies]]
  BY DEF Point, FoldSet, MapThenFoldSet, Some
<1>2. DOMAIN en.weights = 1 .. n
  OBVIOUS
<1>3. \A c \in F : copies[c] \in [1 .. n -> Nat]
  BY SplitCounts
<1>4. DOMAIN copies = F /\ IsFiniteSet(F)
  BY FS_Subset
<1> HIDE DEF copies, F
<1>5. ASSUME NEW k \in 1 .. n PROVE iter(k)[DOMAIN copies] \in Nat
  <2> DEFINE h == [c \in F |-> copies[c][k]]
  <2>1. \A c \in F : h[c] \in Nat
    BY <1>3
  <2>2. \A f : E(f, k) <=> SumFold(f, F, h)
    <3>1. \A T \in SUBSET F : T # {} => h[Some(T)] = copies[Some(T)][k]
      BY DEF Some
    <3> HIDE DEF h
    <3>2. \A f : [T \in SUBSET F |-> IF T = {} THEN 0 ELSE f[T \ {Some(T)}] + copies[Some(T)][k]]
               = [T \in SUBSET F |-> IF T = {} THEN 0 ELSE f[T \ {Some(T)}] + h[Some(T)]]
      BY <3>1
    <3> QED  BY <1>4, <3>2 DEF SumFold
  <2> HIDE DEF h
  <2>3. (\E f : SumFold(f, F, h)) /\ \A f : SumFold(f, F, h) => f[F] \in Nat
    BY <1>4, <2>1, SumFolded
  <2>4. \E f : E(f, k)
    BY <2>2, <2>3
  <2> HIDE DEF E
  <2>5. E(iter(k), k)
    BY <2>4
  <2> HIDE DEF iter
  <2> QED  BY <1>4, <2>2, <2>3, <2>5
<1> HIDE DEF iter
<1> QED  BY <1>1, <1>2, <1>5

CountedIfClean == Encoded /\ Cleanly => Counts

LEMMA CleanCounts == IInv /\ SlicedKept /\ DocumentKept /\ PointsKept => CountedIfClean
<1> SUFFICES ASSUME IInv, SlicedKept, DocumentKept, PointsKept, Encoded, NEW m \in Nat, PlainCase(m)
             PROVE  Counts
  BY DEF CountedIfClean, Cleanly
<1> DEFINE V == Space(e, m)
           W == EncodeLexicographic(e).weights
           n == Cardinality(W)
<1>1. WellPosed(e, m) /\ Finitely(e) /\ CriteriaKnown(e)
  BY SliceOfDocument, CaseUnits, CaseFinite
<1>2. Encodable(e, m) /\ Room(e, V)
  BY <1>1, SpaceRoom DEF WellPosed
<1> HIDE DEF V
<1>3. \A k \in 1 .. Len(e.lex) : CriterionFits(e, V, e.lex[k])
  BY <1>1, <1>2, CriteriaFit DEF CriteriaKnown
<1>4. enc = EncodingOf(e) /\ points = {Point(e, enc, a) : a \in ModelsOf(Order(enc.vars), enc.hard)}
  BY DEF PointsKept, PointsOfModels
<1>5. /\ IsFiniteSet(DOMAIN enc.soft) /\ \A c \in DOMAIN enc.soft : enc.soft[c] \in Nat
      /\ enc.weights = LargestFirst(W)
  BY <1>1, <1>3, <1>4, SoftCounted DEF CriteriaKnown
<1>6. IsFiniteSet(W) /\ W \subseteq Nat \ {0}
  BY <1>1, <1>3, WeightsFinite DEF CriteriaKnown
<1> HIDE DEF W
<1>7. n \in Nat /\ enc.weights \in [1 .. n -> W]
  BY <1>5, <1>6, WeightsSorted
<1> HIDE DEF n
<1>8. enc.weights \in [1 .. n -> Nat \ {0}] /\ DOMAIN enc.weights = 1 .. n
  BY <1>6, <1>7
<1>9. \A a : Point(e, enc, a).vec \in [1 .. n -> Nat]
  BY <1>5, <1>7, <1>8, PointCounts
<1>10. enc.weights \in Seq(Nat)
  <2>1. enc.weights \in [1 .. n -> Nat]
    BY <1>8
  <2>2. \A T, z, l : l \in Nat /\ z \in [1 .. l -> T] => z \in Seq(T)
    OBVIOUS
  <2> QED  BY <1>7, <2>1, <2>2
<1> QED  BY <1>4, <1>8, <1>9, <1>10 DEF Counts

LengthIfClean == Encoded /\ Cleanly => LengthKept

LEMMA CleanLength ==
  IInv /\ CountedIfClean /\ LengthIfClean /\ [Next]_vars /\ CountedIfClean' => LengthIfClean'
<1> SUFFICES ASSUME IInv, CountedIfClean, LengthIfClean, [Next]_vars, CountedIfClean', Encoded', Cleanly'
             PROVE  LengthKept'
  BY DEF LengthIfClean
<1>1. CASE pc' = "ready"
  BY <1>1 DEF LengthKept
<1>2. CASE pc' # "ready"
  <2>1. Encoded /\ UNCHANGED <<case, e, enc, points>>
    BY <1>2, EncodedKept
  <2>2. ~ Slice
    BY DEF Slice, Encoded
  <2>3. UNCHANGED <<case, pr>>
    BY <2>2, LaterKept
  <2>4. Cleanly
    BY <2>3 DEF Cleanly, PlainCase, WholeProblem, Packages, Request, o
  <2>5. CountsKept /\ LengthKept /\ CountsKept'
    BY <2>1, <2>4 DEF CountedIfClean, LengthIfClean, CountsKept
  <2> QED  BY <2>5, LengthStep
<1> QED  BY <1>1, <1>2

(***************************************************************************)
(* For a plain document the objectives have numbers, and no point is       *)
(* better than the answer in the lexicographic order of the objectives     *)
(* that were solved (LevelsBest), also if the run was cut short between    *)
(* two of them.                                                            *)
(***************************************************************************)
THEOREM LevelsAreBest == Spec => [](Cleanly => LevelsBest)
<1>1. Init => SlicedKept
  BY DEF Init, SlicedKept, Encoded
<1>2. Init => PointsKept
  BY DEF Init, PointsKept, Encoded
<1>3. Init => LengthIfClean
  BY DEF Init, LengthIfClean, Encoded
<1>4. IInv /\ CountedIfClean /\ LengthIfClean => (Cleanly => LevelsBest)
  <2> SUFFICES ASSUME IInv, CountedIfClean, LengthIfClean, Cleanly PROVE LevelsBest
    OBVIOUS
  <2>1. CASE Encoded
    BY <2>1, LevelsFromCounts DEF CountedIfClean, LengthIfClean, CountsKept
  <2>2. CASE ~ Encoded
    BY <2>2 DEF LevelsBest, IInv, Phases, Encoded, NoEnd
  <2> QED  BY <2>1, <2>2
<1> QED  BY <1>1, <1>2, <1>3, <1>4, SlicedInv, DocumentInit, DocumentInv, PointsInv, CleanCounts, CleanLength, PackupInvariance, PTL DEF Spec

-----------------------------------------------------------------------------
(* The numbers that are printed *)

\* what the scores count, in the words of the reference
LEMMA UnitsNamed ==
  ASSUME Reads(pr, Packages, Request), NEW I \in SUBSET (DOMAIN Packages)
  PROVE  /\ ReadNames(pr) = Ref!Names(Packages)
         /\ \A n : ReadUnits(pr, n) \subseteq DOMAIN Packages
         /\ \A n : IsAnyInstalled(pr, ReadUnits(pr, n)) <=> Ref!VersionsIn(Packages, Ref!Initial(Packages), n) # {}
         /\ \A n : I \cap ReadUnits(pr, n) = Ref!VersionsIn(Packages, I, n)
<1>1. /\ DOMAIN Packages = Units(pr)
      /\ \A i \in Units(pr) : Packages[i].name = pr.units[i].name /\ Packages[i].installed = pr.units[i].installed
  BY DEF Reads
<1>2. \A n, i : i \in ReadUnits(pr, n) <=> i \in DOMAIN Packages /\ Packages[i].name = n
  BY <1>1 DEF ReadUnits
<1>3. \A n, i : i \in Ref!VersionsIn(Packages, Ref!Initial(Packages), n) <=>
                  i \in ReadUnits(pr, n) /\ pr.units[i].installed
  BY <1>1, <1>2 DEF Ref!VersionsIn, Ref!Initial
<1>4. \A n, i : i \in Ref!VersionsIn(Packages, I, n) <=> i \in I /\ i \in ReadUnits(pr, n)
  BY <1>2 DEF Ref!VersionsIn
<1>5. ReadNames(pr) = Ref!Names(Packages)
  BY <1>1 DEF ReadNames, Ref!Names
<1>6. \A n : IsAnyInstalled(pr, ReadUnits(pr, n)) <=> Ref!VersionsIn(Packages, Ref!Initial(Packages), n) # {}
  BY <1>3 DEF IsAnyInstalled
<1>7. \A n : I \cap ReadUnits(pr, n) = Ref!VersionsIn(Packages, I, n)
  BY <1>4
<1> QED  BY <1>2, <1>5, <1>6, <1>7

Was(n) == Ref!VersionsIn(Packages, Ref!Initial(Packages), n)
Now(I, n) == Ref!VersionsIn(Packages, I, n)

\* the library's Cardinality is one operator
LEMMA CardinalityIs == \A S : Ref!Cardinality(S) = Cardinality(S)
<1>1. ASSUME NEW S PROVE Ref!Cardinality(S) = Cardinality(S)
  BY DEF Ref!Cardinality, Cardinality
<1> QED  BY <1>1

LEMMA MeasuresAre ==
  ASSUME NEW I
  PROVE  /\ Measure("removed", I) = Cardinality({n \in Ref!Names(Packages) : Was(n) # {} /\ Now(I, n) = {}})
         /\ Measure("new", I) = Cardinality({n \in Ref!Names(Packages) : Was(n) = {} /\ Now(I, n) # {}})
         /\ Measure("changed", I) = Cardinality({n \in Ref!Names(Packages) : Was(n) # Now(I, n)})
         /\ Measure("notuptodate", I) =
              Cardinality({n \in Ref!Names(Packages) : Now(I, n) # {} /\ Ref!Newest(Packages, n) \notin I})
BY CardinalityIs DEF Measure, Ref!Measure, Was, Now

\* the newest version is the one process_notuptodate asks for
LEMMA NewestIs ==
  ASSUME Reads(pr, Packages, Request), NEW m \in Nat, Plain(Packages, Request, m),
         NEW I \in SUBSET (DOMAIN Packages), NEW n \in ReadNames(pr)
  PROVE  I \cap NeedLatest(pr, n) = {} <=> Ref!Newest(Packages, n) \notin I
<1>1. /\ DOMAIN Packages = Units(pr)
      /\ \A i \in Units(pr) : Packages[i].name = pr.units[i].name /\ Packages[i].version = pr.units[i].version
  BY DEF Reads
<1>2. \A i \in DOMAIN Packages : Packages[i].version \in 1 .. m
  BY DEF Plain
<1>3. \A i, j \in DOMAIN Packages : Packages[i].name = Packages[j].name /\ Packages[i].version = Packages[j].version => i = j
  BY DEF Plain
<1> DEFINE S == {i \in DOMAIN Packages : Packages[i].name = n}
           Newer(i) == i \in S /\ \A j \in S : Packages[j].version <= Packages[i].version
<1>4. \A i : i \in NeedLatest(pr, n) <=> Newer(i)
  BY <1>1, <1>2 DEF NeedLatest, ReadUnits
<1>5. Ref!Newest(Packages, n) = CHOOSE i : Newer(i)
  <2>1. \A i : (i \in DOMAIN Packages /\ Packages[i].name = n
                /\ \A j \in DOMAIN Packages : Packages[j].name = n => Packages[j].version <= Packages[i].version) <=> Newer(i)
    OBVIOUS
  <2> QED  BY <2>1 DEF Ref!Newest
<1>6. S # {}
  BY <1>1 DEF ReadNames
<1>7. \E i : Newer(i)
  <2> DEFINE V == {m - Packages[i].version : i \in S}
  <2>1. V \subseteq Nat /\ V # {}
    BY <1>2, <1>6
  <2>2. PICK v \in V : \A w \in V : v <= w
    BY <2>1, LeastOf
  <2>3. PICK i \in S : v = m - Packages[i].version
    BY <2>2
  <2>4. \A j \in S : Packages[j].version \in Int /\ m - Packages[i].version <= m - Packages[j].version
    BY <1>2, <2>2, <2>3
  <2>5. Newer(i)
    BY <2>3, <2>4
  <2> QED  BY <2>5
<1>8. \A i, j : Newer(i) /\ Newer(j) => i = j
  BY <1>2, <1>3
<1>9. PICK c : Newer(c)
  BY <1>7
<1>10. Ref!Newest(Packages, n) = c
  BY <1>5, <1>8, <1>9
<1> HIDE DEF Newer
<1>11. \A i : i \in NeedLatest(pr, n) <=> i = c
  BY <1>4, <1>8, <1>9
<1> QED  BY <1>10, <1>11

\* the four criteria that count names
LEMMA ScoresAre ==
  ASSUME Reads(pr, Packages, Request), NEW m \in Nat, Plain(Packages, Request, m),
         NEW I \in SUBSET (DOMAIN Packages)
  PROVE  /\ RemovedScore(I) = Measure("removed", I) /\ NewScore(I) = Measure("new", I)
         /\ ChangedScore(I) = Measure("changed", I) /\ NotUpToDateScore(I) = Measure("notuptodate", I)
<1>1. /\ ReadNames(pr) = Ref!Names(Packages)
      /\ \A n : IsAnyInstalled(pr, ReadUnits(pr, n)) <=> Was(n) # {}
      /\ \A n : I \cap ReadUnits(pr, n) = Now(I, n)
  BY UnitsNamed DEF Was, Now
<1>6. /\ Measure("removed", I) = Cardinality({n \in Ref!Names(Packages) : Was(n) # {} /\ Now(I, n) = {}})
      /\ Measure("new", I) = Cardinality({n \in Ref!Names(Packages) : Was(n) = {} /\ Now(I, n) # {}})
      /\ Measure("changed", I) = Cardinality({n \in Ref!Names(Packages) : Was(n) # Now(I, n)})
      /\ Measure("notuptodate", I) =
           Cardinality({n \in Ref!Names(Packages) : Now(I, n) # {} /\ Ref!Newest(Packages, n) \notin I})
  BY MeasuresAre
<1>2. RemovedScore(I) = Measure("removed", I)
  <2>1. {n \in ReadNames(pr) : IsAnyInstalled(pr, ReadUnits(pr, n)) /\ I \cap ReadUnits(pr, n) = {}}
          = {n \in Ref!Names(Packages) : Was(n) # {} /\ Now(I, n) = {}}
    BY <1>1
  <2> QED  BY <1>6, <2>1, Zenon DEF RemovedScore
<1>3. NewScore(I) = Measure("new", I)
  <2>1. {n \in ReadNames(pr) : ~IsAnyInstalled(pr, ReadUnits(pr, n)) /\ I \cap ReadUnits(pr, n) # {}}
          = {n \in Ref!Names(Packages) : Was(n) = {} /\ Now(I, n) # {}}
    BY <1>1
  <2> QED  BY <1>6, <2>1, Zenon DEF NewScore
<1>4. ChangedScore(I) = Measure("changed", I)
  <2>1. ASSUME NEW n
        PROVE  (\E i \in ReadUnits(pr, n) : pr.units[i].installed # (i \in I)) <=> Was(n) # Now(I, n)
    <3>1. \A i : i \in Was(n) <=> i \in ReadUnits(pr, n) /\ pr.units[i].installed
      BY DEF Was, Ref!VersionsIn, Ref!Initial, Reads, ReadUnits
    <3>2. \A i \in ReadUnits(pr, n) : pr.units[i].installed \in BOOLEAN
      BY DEF Reads, Plain, ReadUnits
    <3>3. \A i : i \in Now(I, n) <=> i \in I /\ i \in ReadUnits(pr, n)
      BY <1>1
    <3> HIDE DEF Was, Now
    <3> QED  BY <3>1, <3>2, <3>3
  <2>2. {n \in ReadNames(pr) : \E i \in ReadUnits(pr, n) : pr.units[i].installed # (i \in I)}
          = {n \in Ref!Names(Packages) : Was(n) # Now(I, n)}
    BY <1>1, <2>1
  <2> QED  BY <1>6, <2>2, Zenon DEF ChangedScore
<1>5. NotUpToDateScore(I) = Measure("notuptodate", I)
  <2>1. ASSUME NEW n \in ReadNames(pr) PROVE I \cap NeedLatest(pr, n) = {} <=> Ref!Newest(Packages, n) \notin I
    BY NewestIs
  <2>2. {n \in ReadNames(pr) : I \cap ReadUnits(pr, n) # {} /\ I \cap NeedLatest(pr, n) = {}}
          = {n \in Ref!Names(Packages) : Now(I, n) # {} /\ Ref!Newest(Packages, n) \notin I}
    BY <1>1, <2>1
  <2> QED  BY <1>6, <2>2, Zenon DEF NotUpToDateScore
<1> QED  BY <1>2, <1>3, <1>4, <1>5


\* what a package recommends is given once, and by the names of packages
RecommendsPlain ==
  \A i \in DOMAIN Packages :
    /\ Single(Ref!Given(Packages[i], "recommends"))
    /\ \A k \in DOMAIN Ref!Conjuncts(Packages, i, "recommends") :
         \A vp \in Range(Ref!Conjuncts(Packages, i, "recommends")[k]) : vp.name \notin {"true!", "false!"}

\* the recommended conjuncts of a unit that an installation does not satisfy
Unmet(i, I) ==
  {k \in DOMAIN pr.units[i].recommends : \A vp \in Range(pr.units[i].recommends[k]) : ~AnyInstalled(vp, I)}

LEMMA InstalledIsSat ==
  ASSUME Reads(pr, Packages, Request), NEW m \in Nat, Plain(Packages, Request, m),
         NEW I \in SUBSET (DOMAIN Packages), NEW vp, Askable(vp), vp.name \notin {"true!", "false!"},
         ~ IsFeature(pr, vp.name)
  PROVE  AnyInstalled(vp, I) <=> Ref!Sat(Packages, I, vp)
<1> DEFINE w == [pr |-> pr]
<1>1. w.pr = pr
  OBVIOUS
<1> HIDE DEF w
<1>2. vp.op \in {"none", "=", "!=", ">=", ">", "<=", "<"}
  BY DEF Askable
<1>3. Ref!Sat(Packages, I, vp) <=> \E j \in I : Answers(w, j, vp)
  BY <1>1, <1>2, SatIs
<1>4. ASSUME NEW j \in I PROVE j \in NeedVersions(w.pr, vp) <=> Answers(w, j, vp)
  <2>1. j \in DOMAIN Packages
    OBVIOUS
  <2> QED  BY <1>1, <1>2, <2>1, NeedIsAnswer
<1>5. NeedVersions(w.pr, vp) = NeedPackages(pr, vp)
  BY <1>1 DEF NeedVersions
<1>6. AnyInstalled(vp, I) <=> \E j \in I : j \in NeedPackages(pr, vp)
  BY DEF AnyInstalled
<1> QED  BY <1>3, <1>4, <1>5, <1>6

LEMMA UnmetIs ==
  ASSUME Reads(pr, Packages, Request), NEW m \in Nat, Plain(Packages, Request, m),
         RecommendsPlain, ~ FeatureRecommended, NEW I \in SUBSET (DOMAIN Packages), NEW i \in I
  PROVE  /\ IsFiniteSet(Unmet(i, I))
         /\ Unmet(i, I) = {k \in DOMAIN Ref!Conjuncts(Packages, i, "recommends") :
                            ~\E vp \in Ref!Range(Ref!Conjuncts(Packages, i, "recommends")[k]) :
                              Ref!SatBy(Packages, I, vp, TRUE)}
<1> DEFINE cnf == pr.units[i].recommends
<1>1. i \in DOMAIN Packages /\ i \in Units(pr)
  BY DEF Reads
<1>2. Ref!Conjuncts(Packages, i, "recommends") = cnf /\ ListsRead(pr.units[i])
  BY <1>1 DEF Reads, RecommendsPlain
<1>3. cnf \in Seq(Range(cnf)) /\ \A k \in DOMAIN cnf : \A vp \in Range(cnf[k]) : Askable(vp)
  BY <1>2 DEF ListsRead, Recommending
<1>4. \A k \in DOMAIN cnf : \A vp \in Range(cnf[k]) : vp.name \notin {"true!", "false!"}
  BY <1>1, <1>2 DEF RecommendsPlain
<1>5. \A k \in DOMAIN cnf : \A vp \in Range(cnf[k]) : ~ IsFeature(pr, vp.name)
  BY <1>1 DEF FeatureRecommended
<1>6. IsFiniteSet(Unmet(i, I))
  <2>1. Unmet(i, I) \subseteq DOMAIN cnf
    BY DEF Unmet
  <2> HIDE DEF cnf
  <2>2. Len(cnf) \in Nat /\ DOMAIN cnf = 1 .. Len(cnf)
    BY <1>3
  <2>3. IsFiniteSet(DOMAIN cnf)
    BY <2>2, FS_Interval
  <2> QED  BY <2>1, <2>3, FS_Subset
<1> HIDE DEF cnf
<1>7. ASSUME NEW k \in DOMAIN cnf, NEW vp \in Range(cnf[k])
      PROVE  AnyInstalled(vp, I) <=> Ref!SatBy(Packages, I, vp, TRUE)
  <2>1. AnyInstalled(vp, I) <=> Ref!Sat(Packages, I, vp)
    BY <1>3, <1>4, <1>5, InstalledIsSat
  <2> QED  BY <2>1 DEF Ref!SatBy
<1>8. \A f : Ref!Range(f) = Range(f)
  BY RangeIs
<1>9. Unmet(i, I) = {k \in DOMAIN cnf : \A vp \in Range(cnf[k]) : ~AnyInstalled(vp, I)}
  BY DEF Unmet, cnf
<1>10. Unmet(i, I) = {k \in DOMAIN cnf : ~\E vp \in Range(cnf[k]) : Ref!SatBy(Packages, I, vp, TRUE)}
  BY <1>7, <1>9
<1> QED  BY <1>2, <1>6, <1>8, <1>10

\* the sum of the conjuncts of each unit is the number of all
LEMMA RecommendsScoreIs ==
  ASSUME Reads(pr, Packages, Request), NEW m \in Nat, Plain(Packages, Request, m),
         RecommendsPlain, ~ FeatureRecommended, NEW I \in SUBSET (DOMAIN Packages)
  PROVE  RecommendsScore(I) = Measure("unmet_recommends", I)
<1> DEFINE K == [i \in I |-> Unmet(i, I)]
           num(i) == Ref!Cardinality({k \in DOMAIN Ref!Conjuncts(Packages, i, "recommends") :
                            ~\E vp \in Ref!Range(Ref!Conjuncts(Packages, i, "recommends")[k]) :
                              Ref!SatBy(Packages, I, vp, TRUE)})
           E(f) == f = [T \in SUBSET I |-> IF T = {} THEN 0 ELSE num(Some(T)) + f[T \ {Some(T)}]]
<1>1. Measure("unmet_recommends", I) = (CHOOSE f : E(f))[I]
  <2> DEFINE c == [crit |-> "nunsat", prop |-> "recommends", opt |-> TRUE]
  <2>1. Ref!Measurable(Decls, c)
    BY DEF Ref!Measurable, Decls
  <2>2. Measure("unmet_recommends", I) = Ref!Measure(Packages, Decls, c, I)
    BY DEF Measure
  <2>3. Ref!Measure(Packages, Decls, c, I) = Ref!SumOver(I, num)
    BY <2>1 DEF Ref!Measure
  <2>4. Ref!SumOver(I, num) = (CHOOSE f : E(f))[I]
    BY DEF Ref!SumOver, Ref!FoldSet, Ref!MapThenFoldSet, Some
  <2> QED  BY <2>2, <2>3, <2>4
<1>2. \A i \in I : IsFiniteSet(K[i]) /\ num(i) = Cardinality(K[i])
  <2> SUFFICES ASSUME NEW i \in I PROVE IsFiniteSet(Unmet(i, I)) /\ num(i) = Cardinality(Unmet(i, I))
    OBVIOUS
  <2> QED  BY UnmetIs, CardinalityIs
<1>3. RecommendsScore(I) = Cardinality(Pairs(I, K))
  <2> DEFINE cnf(i) == pr.units[i].recommends
             Missed(i, k) == \A vp \in Range(cnf(i)[k]) : ~AnyInstalled(vp, I)
             R == {r \in UNION {{i} \X DOMAIN cnf(i) : i \in I} : Missed(r[1], r[2])}
  <2>1. RecommendsScore(I) = Cardinality(R)
    BY DEF RecommendsScore
  <2>2. \A i \in I : K[i] = {k \in DOMAIN cnf(i) : Missed(i, k)}
    BY DEF Unmet
  <2> HIDE DEF K, cnf, Missed
  <2>3. \A x : x \in R <=> \E i \in I : \E k \in DOMAIN cnf(i) : x = <<i, k>> /\ Missed(i, k)
    OBVIOUS
  <2>4. \A x : x \in Pairs(I, K) <=> \E i \in I : \E k \in DOMAIN cnf(i) : x = <<i, k>> /\ Missed(i, k)
    BY <2>2 DEF Pairs
  <2> HIDE DEF R
  <2>5. R = Pairs(I, K)
    BY <2>3, <2>4
  <2> QED  BY <2>1, <2>5
<1> HIDE DEF K, num
<1>4. \A f : E(f) <=> PairFold(f, I, K)
  <2>1. ASSUME NEW T \in SUBSET I, T # {} PROVE num(Some(T)) = Cardinality(K[Some(T)])
    <3>1. Some(T) \in I
      BY <2>1 DEF Some
    <3> QED  BY <1>2, <3>1
  <2>2. ASSUME NEW f
        PROVE  [T \in SUBSET I |-> IF T = {} THEN 0 ELSE num(Some(T)) + f[T \ {Some(T)}]]
                 = [T \in SUBSET I |-> IF T = {} THEN 0 ELSE Cardinality(K[Some(T)]) + f[T \ {Some(T)}]]
    BY <2>1
  <2> QED  BY <2>2 DEF PairFold
<1> HIDE DEF E
<1>5. IsFiniteSet(I)
  <2>1. Units(pr) = 1 .. Len(pr.units) /\ Len(pr.units) \in Nat /\ DOMAIN Packages = Units(pr)
    BY DEF Reads, UnitsListed
  <2>2. 1 \in Int /\ Len(pr.units) \in Int
    BY <2>1
  <2>3. IsFiniteSet(DOMAIN Packages) /\ I \subseteq DOMAIN Packages
    BY <2>1, <2>2, FS_Interval
  <2> QED  BY <2>3, FS_Subset
<1>6. /\ \E f : PairFold(f, I, K)
      /\ \A f : PairFold(f, I, K) => f[I] = Cardinality(Pairs(I, K))
  BY <1>2, <1>5, PairsCounted
<1>7. (CHOOSE f : E(f))[I] = Cardinality(Pairs(I, K))
  <2>1. E(CHOOSE f : E(f))
    BY <1>4, <1>6
  <2> QED  BY <1>4, <1>6, <2>1
<1> QED  BY <1>1, <1>3, <1>7

(***************************************************************************)
(* The five numbers printed with an answer are what the criteria measure   *)
(* in the whole document (PrintedTrue), also after a signal.               *)
(***************************************************************************)
THEOREM PrintedIsTrue == Spec => [](Cleanly /\ RecommendsPlain => PrintedTrue)
<1>1. Init => SlicedKept
  BY DEF Init, SlicedKept, Encoded
<1>2. IInv /\ SlicedKept /\ DocumentKept => (Cleanly /\ RecommendsPlain => (AnswerValid => PrintedTrue))
  <2> SUFFICES ASSUME IInv, SlicedKept, DocumentKept, Cleanly, RecommendsPlain, AnswerValid, end.kind = "answer",
                      NEW word \in DOMAIN end.printed \ (IF FeatureRecommended THEN {"unmet_recommends"} ELSE {})
               PROVE  end.printed[word] = Measure(word, end.units)
    BY DEF PrintedTrue
  <2>1. Encoded
    BY DEF IInv, Phases, Encoded, NoEnd
  <2>2. end.units \in SUBSET (DOMAIN Packages)
    BY DEF AnswerValid, Solutions, Ref!ValidInstallations
  <2>3. end.printed = Valuation(end.units)
    BY DEF IInv, PointPrinted
  <2>4. PICK m \in Nat : PlainCase(m)
    BY DEF Cleanly
  <2>5. Reads(pr, Packages, Request) /\ Plain(Packages, Request, m)
    BY <2>1, <2>4, SliceOfDocument
  <2> DEFINE I == end.units
  <2> HIDE DEF I
  <2>6. /\ RemovedScore(I) = Measure("removed", I) /\ NewScore(I) = Measure("new", I)
        /\ ChangedScore(I) = Measure("changed", I) /\ NotUpToDateScore(I) = Measure("notuptodate", I)
    BY <2>2, <2>5, ScoresAre DEF I
  <2>7. ~ FeatureRecommended => RecommendsScore(I) = Measure("unmet_recommends", I)
    BY <2>2, <2>5, RecommendsScoreIs DEF I
  <2>8. /\ end.printed.removed = RemovedScore(I) /\ end.printed.notuptodate = NotUpToDateScore(I)
        /\ end.printed.unmet_recommends = RecommendsScore(I) /\ end.printed.new = NewScore(I)
        /\ end.printed.changed = ChangedScore(I)
        /\ word \in {"removed", "notuptodate", "unmet_recommends", "new", "changed"}
    BY <2>3 DEF Valuation, I
  <2>9. word = "unmet_recommends" => ~ FeatureRecommended
    OBVIOUS
  <2> QED  BY <2>6, <2>7, <2>8, <2>9 DEF I
<1>3. AnswerMeant => AnswerValid
  BY DEF AnswerMeant
<1> QED  BY <1>1, <1>2, <1>3, AnswerIsValid, SlicedInv, DocumentInit, DocumentInv, PackupInvariance, PTL DEF Spec

=============================================================================
