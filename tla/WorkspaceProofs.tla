--------------------------- MODULE WorkspaceProofs ---------------------------
(***************************************************************************)
(* Proofs about Workspace, for any corpus, any sheets, any filter and any  *)
(* number of edits and failures: all eight invariants of tools_safety. A   *)
(* recording is whole, a build cites the sheets as they are and documented *)
(* rows, the checked shell is the oracle, the tally accounts for every     *)
(* case, and COMPAT.md is true of the corpus and agrees with the support   *)
(* matrix.                                                                 *)
(***************************************************************************)
EXTENDS Workspace, FoldFacts, FiniteSetTheorems, SequenceTheorems, TLAPS

-----------------------------------------------------------------------------
(* What check-specs and the macro read of a sheet.                          *)

IsText(text) == text.lines \in Seq(Seq(STRING))

AllFilled(text) ==
  \A i \in DOMAIN text.lines : Len(text.lines[i]) = 4 /\ "" \notin Range(text.lines[i])

(* What check-specs keeps of a sheet: every line that is a support row.     *)
LEMMA ParsedRows ==
  ASSUME NEW text, IsText(text)
  PROVE  /\ IsFiniteSet(DOMAIN ParseSheet(text))
         /\ \A cells \in Range(text.lines) : IsSupportRow(cells) =>
              \E i \in DOMAIN ParseSheet(text) :
                ParseSheet(text)[i].number = cells[1] /\ ParseSheet(text)[i].class = cells[3]
<1> DEFINE E == Seq(STRING)
           lines == text.lines
           S == {cells \in Range(lines) : IsSupportRow(cells)}
           rows == Keep(lines, S)
<1>1. rows \in Seq(E) /\ Range(rows) = Range(lines) \cap S
  <2>1. ListOf(lines, E)
    BY DEF ListOf, IsText
  <2> HIDE DEF E, lines, S
  <2> QED BY <2>1, KeepRange
<1>2. ParseSheet(text) = [i \in DOMAIN rows |->
         [number |-> rows[i][1], class |-> rows[i][3], corpus |-> rows[i][4]]]
  BY DEF ParseSheet
<1>3. IsFiniteSet(DOMAIN rows)
  <2> HIDE DEF rows, E
  <2>1. Len(rows) \in Nat /\ DOMAIN rows = 1 .. Len(rows)
    BY <1>1
  <2> QED BY <2>1, FS_Interval
<1>4. ASSUME NEW cells \in Range(lines), IsSupportRow(cells)
      PROVE  \E i \in DOMAIN rows : rows[i] = cells
  <2>1. cells \in Range(rows)
    BY <1>1, <1>4
  <2> HIDE DEF rows
  <2> QED BY <2>1 DEF Range
<1> HIDE DEF rows
<1> QED BY <1>2, <1>3, <1>4

(* In a sheet whose rows have four filled cells, the macro and check-specs  *)
(* see the same rows.                                                       *)
LEMMA RowIsParsed ==
  ASSUME NEW text, IsText(text), AllFilled(text),
         NEW j \in DOMAIN MacroRows(text), MacroRows(text)[j].class \in DOMAIN Milestones
  PROVE  \E i \in DOMAIN ParseSheet(text) :
           /\ ParseSheet(text)[i].number = MacroRows(text)[j].number
           /\ ParseSheet(text)[i].class = MacroRows(text)[j].class
<1> DEFINE E == Seq(STRING)
           lines == text.lines
           full(cells) == Keep(cells, Range(cells) \ {""})
           S == {cells \in Range(lines) : Len(full(cells)) >= 3 /\ full(cells)[1] \in RowNumbers}
           rows == Keep(lines, S)
<1>1. rows \in Seq(E) /\ Range(rows) = Range(lines) \cap S
  <2>1. ListOf(lines, E)
    BY DEF ListOf, IsText
  <2> HIDE DEF E, lines, S
  <2> QED BY <2>1, KeepRange
<1>2. MacroRows(text) = [i \in DOMAIN rows |->
         [number |-> full(rows[i])[1], summary |-> full(rows[i])[2], class |-> full(rows[i])[3]]]
  BY DEF MacroRows
<1>3. \A cells \in Range(lines) : cells \in E /\ Len(cells) = 4 /\ full(cells) = cells
  <2> SUFFICES ASSUME NEW cells \in Range(lines)
               PROVE  cells \in E /\ Len(cells) = 4 /\ full(cells) = cells
    OBVIOUS
  <2>1. PICK i \in DOMAIN lines : cells = lines[i]
    BY DEF Range
  <2>2. cells \in E /\ Len(cells) = 4 /\ "" \notin Range(cells)
    <3>1. lines \in Seq(E)
      BY DEF IsText
    <3>2. cells \in E
      <4> HIDE DEF E, lines
      <4>1. lines \in Seq(E) /\ i \in DOMAIN lines
        BY <2>1, <3>1
      <4>2. lines[i] \in E
        BY <4>1
      <4> QED BY <2>1, <4>2
    <3> QED BY <2>1, <3>2 DEF AllFilled
  <2>3. Range(cells) \subseteq Range(cells) \ {""}
    BY <2>2
  <2>4. ListOf(cells, STRING)
    BY <2>2 DEF ListOf
  <2>5. full(cells) = cells
    <3> DEFINE W == Range(cells) \ {""}
    <3>1. Range(cells) \subseteq W
      BY <2>3
    <3> HIDE DEF W
    <3>2. Keep(cells, W) = cells
      BY <2>4, <3>1, KeepAll
    <3> QED BY <3>2 DEF W
  <2> QED BY <2>2, <2>5
<1> DEFINE line == rows[j]
<1>4. line \in Range(rows)
  <2>1. j \in DOMAIN rows
    BY <1>2
  <2> HIDE DEF rows
  <2> QED BY <2>1 DEF Range
<1>5. line \in Range(lines) /\ line \in S
  <2> HIDE DEF line, S
  <2> QED BY <1>1, <1>4
<1>6. full(line) = line /\ Len(line) = 4 /\ line[1] \in RowNumbers
  <2>1. full(line)[1] \in RowNumbers
    <3> HIDE DEF line, full
    <3> QED BY <1>5
  <2> HIDE DEF full, line, rows, lines
  <2> QED BY <1>3, <1>5, <2>1
<1>7. MacroRows(text)[j].number = line[1] /\ MacroRows(text)[j].class = line[3]
  <2>1. j \in DOMAIN rows
    BY <1>2
  <2> HIDE DEF rows, full
  <2>2. MacroRows(text)[j] =
          [number |-> full(line)[1], summary |-> full(line)[2], class |-> full(line)[3]]
    BY <1>2, <2>1
  <2> HIDE DEF line
  <2> QED BY <1>6, <2>2
<1> HIDE DEF full, line, rows, S
<1>8. line[3] \in DOMAIN Milestones
  BY <1>7
<1>9. IsSupportRow(line)
  <2>1. Len(line) >= 4
    BY <1>6
  <2> QED BY <1>6, <1>8, <2>1, Zenon DEF IsSupportRow
<1>10. \E i \in DOMAIN ParseSheet(text) :
         ParseSheet(text)[i].number = line[1] /\ ParseSheet(text)[i].class = line[3]
  BY <1>5, <1>9, ParsedRows
<1> QED BY <1>7, <1>10

(* A call site that resolves reads a row of its number and class.           *)
LEMMA SiteHasRow ==
  ASSUME NEW site, Resolves(sheets, site), IsText(sheets[site.sheet])
  PROVE  LET rows == MacroRows(sheets[site.sheet])
         IN  \E j \in DOMAIN rows :
               rows[j].number = site.number /\ rows[j].class \in WantClass(site.form)
<1> DEFINE rows == MacroRows(sheets[site.sheet])
           there == {i \in DOMAIN rows : rows[i].number = site.number}
<1>1. PICK row \in RowAt(sheets, site) : row.class \in WantClass(site.form)
  BY DEF Resolves
<1>2. there # {} /\ row = rows[CHOOSE i \in there : \A j \in there : i <= j]
  BY <1>1 DEF RowAt
<1>3. there \subseteq Nat
  <2> DEFINE E == Seq(STRING)
             lines == sheets[site.sheet].lines
             full(cells) == Keep(cells, Range(cells) \ {""})
             S == {cells \in Range(lines) : Len(full(cells)) >= 3 /\ full(cells)[1] \in RowNumbers}
             kept == Keep(lines, S)
  <2>1. kept \in Seq(E)
    <3>1. ListOf(lines, E)
      BY DEF ListOf, IsText
    <3> HIDE DEF E, lines, S
    <3> QED BY <3>1, KeepRange
  <2>2. DOMAIN rows = DOMAIN kept
    BY DEF MacroRows
  <2>3. DOMAIN kept \subseteq Nat
    <3> HIDE DEF kept, E
    <3> QED BY <2>1
  <2> QED BY <2>2, <2>3
<1>4. \E i \in there : \A j \in there : i <= j
  <2> HIDE DEF there
  <2> QED BY <1>2, <1>3, LeastNumber
<1>5. (CHOOSE i \in there : \A j \in there : i <= j) \in there
  <2> HIDE DEF there
  <2> QED BY <1>4
<1> QED BY <1>1, <1>2, <1>5

-----------------------------------------------------------------------------
(* The tally.                                                               *)

IsVerdict(v) ==
  v.kind \in VerdictKinds /\ (v.kind = "deferred_honored" => v.from.plan \in Plans)

(* The cases of T that got a verdict, and that were deferred to a plan.     *)
Of(verdicts, T, kind) == {c \in T : verdicts[c].kind = kind}
OfPlan(verdicts, T, plan) ==
  {c \in T : verdicts[c].kind = "deferred_honored" /\ verdicts[c].from.plan = plan}

Counts(verdicts, T) ==
  [expected_pass    |-> Cardinality(Of(verdicts, T, "expected_pass")),
   regression       |-> Cardinality(Of(verdicts, T, "regression")),
   expected_fail    |-> Cardinality(Of(verdicts, T, "expected_fail")),
   wontfix_honored  |-> Cardinality(Of(verdicts, T, "wontfix_honored")),
   deferred_honored |-> [p \in Plans |-> Cardinality(OfPlan(verdicts, T, p))],
   reclassify       |-> Cardinality(Of(verdicts, T, "reclassify"))]

(* One more element, one more to count or not.                              *)
LEMMA OneMore ==
  ASSUME NEW T, IsFiniteSet(T), NEW x \in T, NEW A \in SUBSET T
  PROVE  /\ Cardinality(A) \in Nat /\ Cardinality(A \ {x}) \in Nat
         /\ Cardinality(A) = IF x \in A THEN Cardinality(A \ {x}) + 1 ELSE Cardinality(A \ {x})
<1>1. IsFiniteSet(A)
  BY FS_Subset
<1>2. IsFiniteSet(A \ {x}) /\ Cardinality(A \ {x}) = IF x \in A THEN Cardinality(A) - 1 ELSE Cardinality(A)
  BY <1>1, FS_RemoveElement
<1>3. Cardinality(A) \in Nat /\ Cardinality(A \ {x}) \in Nat
  BY <1>1, <1>2, FS_CardinalityType
<1> QED BY <1>2, <1>3

LEMMA OneMoreOf ==
  ASSUME NEW v, NEW T, IsFiniteSet(T), NEW x \in T, NEW k
  PROVE  /\ Cardinality(Of(v, T, k)) \in Nat /\ Cardinality(Of(v, T \ {x}, k)) \in Nat
         /\ v[x].kind = k => Cardinality(Of(v, T, k)) = Cardinality(Of(v, T \ {x}, k)) + 1
         /\ v[x].kind # k => Cardinality(Of(v, T, k)) = Cardinality(Of(v, T \ {x}, k))
<1>1. Of(v, T, k) \in SUBSET T /\ Of(v, T \ {x}, k) = Of(v, T, k) \ {x}
  BY DEF Of
<1>2. x \in Of(v, T, k) <=> v[x].kind = k
  BY DEF Of
<1> DEFINE A == Of(v, T, k)
<1>3. A \in SUBSET T /\ Of(v, T \ {x}, k) = A \ {x} /\ (x \in A <=> v[x].kind = k)
  BY <1>1, <1>2
<1> HIDE DEF A
<1>4. /\ Cardinality(A) \in Nat /\ Cardinality(A \ {x}) \in Nat
      /\ Cardinality(A) = IF x \in A THEN Cardinality(A \ {x}) + 1 ELSE Cardinality(A \ {x})
  BY <1>3, OneMore
<1> QED BY <1>3, <1>4 DEF A

LEMMA OneMoreOfPlan ==
  ASSUME NEW v, NEW T, IsFiniteSet(T), NEW x \in T, NEW p
  PROVE  /\ Cardinality(OfPlan(v, T, p)) \in Nat
         /\ (v[x].kind = "deferred_honored" /\ v[x].from.plan = p) =>
              Cardinality(OfPlan(v, T, p)) = Cardinality(OfPlan(v, T \ {x}, p)) + 1
         /\ ~(v[x].kind = "deferred_honored" /\ v[x].from.plan = p) =>
              Cardinality(OfPlan(v, T, p)) = Cardinality(OfPlan(v, T \ {x}, p))
<1>1. OfPlan(v, T, p) \in SUBSET T /\ OfPlan(v, T \ {x}, p) = OfPlan(v, T, p) \ {x}
  BY DEF OfPlan
<1>2. x \in OfPlan(v, T, p) <=> v[x].kind = "deferred_honored" /\ v[x].from.plan = p
  BY DEF OfPlan
<1> DEFINE A == OfPlan(v, T, p)
           B == v[x].kind = "deferred_honored" /\ v[x].from.plan = p
<1>3. A \in SUBSET T /\ OfPlan(v, T \ {x}, p) = A \ {x} /\ (x \in A <=> B)
  BY <1>1, <1>2
<1> HIDE DEF A, B
<1>4. /\ Cardinality(A) \in Nat
      /\ Cardinality(A) = IF x \in A THEN Cardinality(A \ {x}) + 1 ELSE Cardinality(A \ {x})
  BY <1>3, OneMore
<1>5. /\ Cardinality(A) \in Nat
      /\ B => Cardinality(A) = Cardinality(OfPlan(v, T \ {x}, p)) + 1
      /\ ~B => Cardinality(A) = Cardinality(OfPlan(v, T \ {x}, p))
  BY <1>3, <1>4
<1> QED BY <1>5 DEF A, B

(* One field more.                                                          *)
LEMMA Bumped ==
  ASSUME NEW a, NEW b, NEW c, NEW d, NEW e, NEW f, NEW r,
         r = [expected_pass |-> a, regression |-> b, expected_fail |-> c,
              wontfix_honored |-> d, deferred_honored |-> e, reclassify |-> f]
  PROVE  /\ [r EXCEPT !["expected_pass"] = @ + 1] = [r EXCEPT !.expected_pass = a + 1]
         /\ [r EXCEPT !["regression"] = @ + 1] = [r EXCEPT !.regression = b + 1]
         /\ [r EXCEPT !["expected_fail"] = @ + 1] = [r EXCEPT !.expected_fail = c + 1]
         /\ [r EXCEPT !["wontfix_honored"] = @ + 1] = [r EXCEPT !.wontfix_honored = d + 1]
         /\ [r EXCEPT !["reclassify"] = @ + 1] = [r EXCEPT !.reclassify = f + 1]
OBVIOUS

(* Recording a verdict counts its case.                                     *)
LEMMA RecordCounts ==
  ASSUME NEW v, NEW T, IsFiniteSet(T), NEW x \in T, IsVerdict(v[x])
  PROVE  RecordVerdict(v[x], Counts(v, T \ {x})) = Counts(v, T)
<1> DEFINE U == T \ {x}
           plans(W) == [p \in Plans |-> Cardinality(OfPlan(v, W, p))]
           n(W, j) == Cardinality(Of(v, W, j))
           rec(W) == [expected_pass |-> n(W, "expected_pass"), regression |-> n(W, "regression"),
                      expected_fail |-> n(W, "expected_fail"),
                      wontfix_honored |-> n(W, "wontfix_honored"),
                      deferred_honored |-> plans(W), reclassify |-> n(W, "reclassify")]
<1>1. \A k : /\ v[x].kind = k => Cardinality(Of(v, T, k)) = Cardinality(Of(v, U, k)) + 1
             /\ v[x].kind # k => Cardinality(Of(v, T, k)) = Cardinality(Of(v, U, k))
  BY OneMoreOf
<1>2. \A p : /\ (v[x].kind = "deferred_honored" /\ v[x].from.plan = p) =>
                  Cardinality(OfPlan(v, T, p)) = Cardinality(OfPlan(v, U, p)) + 1
             /\ ~(v[x].kind = "deferred_honored" /\ v[x].from.plan = p) =>
                  Cardinality(OfPlan(v, T, p)) = Cardinality(OfPlan(v, U, p))
  BY OneMoreOfPlan
<1>0. SUFFICES RecordVerdict(v[x], rec(U)) = rec(T)
  BY DEF Counts
<1> HIDE DEF U
<1>3. CASE v[x].kind = "deferred_honored"
  <2> DEFINE p == v[x].from.plan
  <2>1. p \in Plans
    BY <1>3 DEF IsVerdict
  <2>2. RecordVerdict(v[x], rec(U)) =
          [rec(U) EXCEPT !.deferred_honored[p] = @ + 1]
    BY <1>3 DEF RecordVerdict
  <2>3. plans(T) = [plans(U) EXCEPT ![p] = @ + 1]
    <3> HIDE DEF p
    <3>1. Cardinality(OfPlan(v, T, p)) = Cardinality(OfPlan(v, U, p)) + 1
      BY <1>2, <1>3 DEF p
    <3>2. \A q \in Plans : q # p => Cardinality(OfPlan(v, T, q)) = Cardinality(OfPlan(v, U, q))
      BY <1>2 DEF p
    <3> QED BY <2>1, <3>1, <3>2
  <2>4. \A k \in VerdictKinds : k # "deferred_honored" => Cardinality(Of(v, T, k)) = Cardinality(Of(v, U, k))
    BY <1>1, <1>3
  <2> HIDE DEF p, plans, n
  <2>5. [rec(U) EXCEPT !.deferred_honored[p] = @ + 1] = rec(T)
    BY <2>3, <2>4 DEF VerdictKinds, n
  <2> QED BY <2>2, <2>5
<1>4. CASE v[x].kind # "deferred_honored"
  <2> DEFINE k == v[x].kind
  <2>1. RecordVerdict(v[x], rec(U)) = [rec(U) EXCEPT ![k] = @ + 1]
    BY <1>4 DEF RecordVerdict
  <2>2. plans(T) = plans(U)
    BY <1>2, <1>4
  <2>3. n(T, k) = n(U, k) + 1 /\ \A j : j # k => n(T, j) = n(U, j)
    BY <1>1
  <2>4. k \in VerdictKinds \ {"deferred_honored"}
    BY <1>4 DEF IsVerdict
  <2> HIDE DEF k, n, plans
  <2>5. CASE k = "expected_pass"
    BY <2>1, <2>2, <2>3, <2>5
  <2>6. CASE k = "regression"
    BY <2>1, <2>2, <2>3, <2>6
  <2>7. CASE k = "expected_fail"
    BY <2>1, <2>2, <2>3, <2>7
  <2>8. CASE k = "wontfix_honored"
    BY <2>1, <2>2, <2>3, <2>8
  <2>9. CASE k = "reclassify"
    BY <2>1, <2>2, <2>3, <2>9
  <2> QED BY <2>4, <2>5, <2>6, <2>7, <2>8, <2>9 DEF VerdictKinds
<1> QED BY <1>3, <1>4

(* A tally counts each case under its verdict, in whatever order they come. *)
LEMMA TallyCounts ==
  ASSUME NEW v, IsFiniteSet(DOMAIN v), \A c \in DOMAIN v : IsVerdict(v[c])
  PROVE  Tally(v) = Counts(v, DOMAIN v)
<1> DEFINE S == DOMAIN v
           one(T) == CHOOSE x \in T : TRUE
           rule(g) == g = [T \in SUBSET S |->
                             IF T = {} THEN NewTally
                             ELSE RecordVerdict(v[one(T)], g[T \ {one(T)}])]
           count == [T \in SUBSET S |-> Counts(v, T)]
<1>1. \A T \in SUBSET S : T # {} =>
        one(T) \in T /\ RecordVerdict(v[one(T)], count[T \ {one(T)}]) = count[T]
  <2> SUFFICES ASSUME NEW T \in SUBSET S, T # {}
               PROVE  one(T) \in T /\ RecordVerdict(v[one(T)], count[T \ {one(T)}]) = count[T]
    OBVIOUS
  <2>1. one(T) \in T
    OBVIOUS
  <2>2. IsFiniteSet(T) /\ IsVerdict(v[one(T)])
    BY <2>1, FS_Subset
  <2>3. T \ {one(T)} \in SUBSET S
    OBVIOUS
  <2> HIDE DEF one
  <2>4. RecordVerdict(v[one(T)], Counts(v, T \ {one(T)})) = Counts(v, T)
    BY <2>1, <2>2, RecordCounts
  <2> QED BY <2>1, <2>3, <2>4
<1>2. count[{}] = NewTally
  <2>1. \A k : Of(v, {}, k) = {} /\ OfPlan(v, {}, k) = {}
    BY DEF Of, OfPlan
  <2>2. Cardinality({}) = 0
    BY FS_EmptySet
  <2> QED BY <2>1, <2>2 DEF Counts, NewTally
<1>3. rule(count)
  <2>1. \A T \in SUBSET S : count[T] = IF T = {} THEN NewTally
                            ELSE RecordVerdict(v[one(T)], count[T \ {one(T)}])
    <3> HIDE DEF count, one
    <3> QED BY <1>1, <1>2
  <2>2. count = [T \in SUBSET S |-> count[T]]
    OBVIOUS
  <2> HIDE DEF count, one
  <2> QED BY <2>1, <2>2
<1>4. PICK g : rule(g) /\ Tally(v) = g[S]
  <2>1. \E g : rule(g)
    BY <1>3
  <2> HIDE DEF count
  <2> QED BY <2>1 DEF Tally, FoldFunction, FoldFunctionOnSet, MapThenFoldSet
<1>5. g[S] = count[S]
  <2>1. g[{}] = count[{}]
    BY <1>2, <1>4
  <2>2. \A T \in SUBSET S : T # {} =>
          \E x \in T : g[T \ {x}] = count[T \ {x}] => g[T] = count[T]
    <3> SUFFICES ASSUME NEW T \in SUBSET S, T # {}
                 PROVE  \E x \in T : g[T \ {x}] = count[T \ {x}] => g[T] = count[T]
      OBVIOUS
    <3>1. g[T] = RecordVerdict(v[one(T)], g[T \ {one(T)}])
      <4> HIDE DEF one
      <4> QED BY <1>4
    <3> HIDE DEF one, count
    <3> QED BY <1>1, <3>1
  <2> HIDE DEF count, rule
  <2> QED BY <2>1, <2>2, SetFoldsAgree
<1> QED BY <1>4, <1>5

(* The counts of the plans add up.                                          *)
LEMMA PlansAddUp ==
  ASSUME NEW v, NEW S, IsFiniteSet(S), \A c \in S : IsVerdict(v[c])
  PROVE  FoldFunction(LAMBDA n, m : n + m, 0, Counts(v, S).deferred_honored)
           = Cardinality(Of(v, S, "deferred_honored"))
<1> DEFINE f == [p \in Plans |-> Cardinality(OfPlan(v, S, p))]
           one(T) == CHOOSE x \in T : TRUE
           rule(g) == g = [T \in SUBSET DOMAIN f |->
                             IF T = {} THEN 0 ELSE f[one(T)] + g[T \ {one(T)}]]
           within(T) == {c \in Of(v, S, "deferred_honored") : v[c].from.plan \in T}
           count == [T \in SUBSET Plans |-> Cardinality(within(T))]
<1>1. \A T \in SUBSET Plans : T # {} =>
        one(T) \in T /\ f[one(T)] + count[T \ {one(T)}] = count[T]
  <2> SUFFICES ASSUME NEW T \in SUBSET Plans, T # {}
               PROVE  one(T) \in T /\ f[one(T)] + count[T \ {one(T)}] = count[T]
    OBVIOUS
  <2>1. one(T) \in T
    OBVIOUS
  <2> DEFINE x == one(T)
             A == OfPlan(v, S, x)
             B == within(T \ {x})
  <2>2. A \cup B = within(T) /\ A \cap B = {} /\ A \subseteq S /\ B \subseteq S
    <3> HIDE DEF one
    <3> QED BY <2>1 DEF Of, OfPlan
  <2>3. IsFiniteSet(A) /\ IsFiniteSet(B)
    BY <2>2, FS_Subset
  <2> HIDE DEF A, B, within
  <2>4. Cardinality(A \cup B) = Cardinality(A) + Cardinality(B)
    <3>1. Cardinality(A \cup B) = Cardinality(A) + Cardinality(B) - Cardinality(A \cap B)
      BY <2>3, FS_Union
    <3>2. Cardinality(A \cap B) = 0 /\ Cardinality(A) \in Nat /\ Cardinality(B) \in Nat
      BY <2>2, <2>3, FS_EmptySet, FS_CardinalityType
    <3> QED BY <3>1, <3>2
  <2>5. f[x] = Cardinality(A) /\ count[T \ {x}] = Cardinality(B) /\ count[T] = Cardinality(A \cup B)
    <3>1. x \in Plans /\ T \ {x} \in SUBSET Plans
      BY <2>1
    <3> QED BY <2>2, <3>1 DEF A, B
  <2> QED BY <2>1, <2>4, <2>5
<1>2. count[{}] = 0
  <2>1. within({}) = {}
    OBVIOUS
  <2> QED BY <2>1, FS_EmptySet
<1>0. DOMAIN f = Plans
  OBVIOUS
<1> HIDE DEF f, count
<1>3. rule(count)
  <2>1. \A T \in SUBSET Plans : count[T] = IF T = {} THEN 0
                            ELSE f[one(T)] + count[T \ {one(T)}]
    <3> HIDE DEF one
    <3> QED BY <1>1, <1>2
  <2>2. count = [T \in SUBSET Plans |-> count[T]]
    BY DEF count
  <2> HIDE DEF one
  <2> QED BY <1>0, <2>1, <2>2
<1>4. PICK g : rule(g) /\ FoldFunction(LAMBDA n, m : n + m, 0, f) = g[DOMAIN f]
  <2>1. \E g : rule(g)
    BY <1>3
  <2> QED BY <2>1 DEF FoldFunction, FoldFunctionOnSet, MapThenFoldSet
<1>5. g[Plans] = count[Plans]
  <2>1. g[{}] = count[{}]
    BY <1>2, <1>4, <1>0
  <2>2. \A T \in SUBSET Plans : T # {} =>
          \E x \in T : g[T \ {x}] = count[T \ {x}] => g[T] = count[T]
    <3> SUFFICES ASSUME NEW T \in SUBSET Plans, T # {}
                 PROVE  \E x \in T : g[T \ {x}] = count[T \ {x}] => g[T] = count[T]
      OBVIOUS
    <3>1. g[T] = f[one(T)] + g[T \ {one(T)}]
      <4> HIDE DEF one
      <4> QED BY <1>4, <1>0
    <3> HIDE DEF one
    <3> QED BY <1>1, <3>1
  <2> HIDE DEF rule
  <2> QED BY <2>1, <2>2, SetFoldsAgree, PlansFinite
<1>6. within(Plans) = Of(v, S, "deferred_honored")
  BY DEF Of, IsVerdict
<1>7. count[Plans] = Cardinality(Of(v, S, "deferred_honored"))
  BY <1>6 DEF count
<1> QED BY <1>4, <1>5, <1>7, <1>0 DEF f, Counts

LEMMA Apart ==
  ASSUME NEW A, NEW B, IsFiniteSet(A), IsFiniteSet(B), A \cap B = {}
  PROVE  /\ IsFiniteSet(A \cup B) /\ Cardinality(A) \in Nat /\ Cardinality(B) \in Nat
         /\ Cardinality(A \cup B) = Cardinality(A) + Cardinality(B)
<1>1. IsFiniteSet(A \cup B)
      /\ Cardinality(A \cup B) = Cardinality(A) + Cardinality(B) - Cardinality(A \cap B)
  BY FS_Union
<1>2. Cardinality(A \cap B) = 0 /\ Cardinality(A) \in Nat /\ Cardinality(B) \in Nat
  BY FS_EmptySet, FS_CardinalityType
<1> QED BY <1>1, <1>2

(* Every case is counted once.                                              *)
LEMMA TotalIsAll ==
  ASSUME NEW v, NEW S, IsFiniteSet(S), \A c \in S : IsVerdict(v[c])
  PROVE  /\ \A k : Cardinality(Of(v, S, k)) \in Nat
         /\ Total(Counts(v, S)) = Cardinality(S)
         /\ Cardinality(S) =
              Cardinality(Of(v, S, "expected_pass")) + Cardinality(Of(v, S, "regression"))
                + Cardinality(Of(v, S, "expected_fail")) + Cardinality(Of(v, S, "wontfix_honored"))
                + Cardinality(Of(v, S, "deferred_honored")) + Cardinality(Of(v, S, "reclassify"))
<1> DEFINE A == Of(v, S, "expected_pass")
           B == Of(v, S, "regression")
           C == Of(v, S, "expected_fail")
           D == Of(v, S, "wontfix_honored")
           E == Of(v, S, "deferred_honored")
           F == Of(v, S, "reclassify")
           AB == A \cup B
           ABC == AB \cup C
           ABCD == ABC \cup D
           ABCDE == ABCD \cup E
<1>1. \A k : IsFiniteSet(Of(v, S, k))
  <2> SUFFICES ASSUME NEW k PROVE IsFiniteSet(Of(v, S, k))
    OBVIOUS
  <2>1. Of(v, S, k) \subseteq S
    BY DEF Of
  <2> QED BY <2>1, FS_Subset
<1>2. \A k : Cardinality(Of(v, S, k)) \in Nat
  BY <1>1, FS_CardinalityType
<1>3. /\ A \cap B = {} /\ AB \cap C = {} /\ ABC \cap D = {} /\ ABCD \cap E = {} /\ ABCDE \cap F = {}
      /\ S = ABCDE \cup F
  BY DEF Of, IsVerdict, VerdictKinds
<1>4. IsFiniteSet(A) /\ IsFiniteSet(B) /\ IsFiniteSet(C) /\ IsFiniteSet(D) /\ IsFiniteSet(E) /\ IsFiniteSet(F)
  BY <1>1
<1> HIDE DEF A, B, C, D, E, F
<1>5. IsFiniteSet(AB) /\ Cardinality(AB) = Cardinality(A) + Cardinality(B)
  BY <1>3, <1>4, Apart
<1> HIDE DEF AB
<1>6. IsFiniteSet(ABC) /\ Cardinality(ABC) = Cardinality(AB) + Cardinality(C)
  BY <1>3, <1>4, <1>5, Apart
<1> HIDE DEF ABC
<1>7. IsFiniteSet(ABCD) /\ Cardinality(ABCD) = Cardinality(ABC) + Cardinality(D)
  BY <1>3, <1>4, <1>6, Apart
<1> HIDE DEF ABCD
<1>8. IsFiniteSet(ABCDE) /\ Cardinality(ABCDE) = Cardinality(ABCD) + Cardinality(E)
  BY <1>3, <1>4, <1>7, Apart
<1> HIDE DEF ABCDE
<1>9. Cardinality(S) = Cardinality(ABCDE) + Cardinality(F)
  BY <1>3, <1>4, <1>8, Apart
<1> DEFINE a == Cardinality(A)
           b == Cardinality(B)
           c == Cardinality(C)
           d == Cardinality(D)
           e == Cardinality(E)
           f == Cardinality(F)
<1>10. Cardinality(S) = a + b + c + d + e + f
  BY <1>5, <1>6, <1>7, <1>8, <1>9
<1>11. Total(Counts(v, S)) = a + b + c + d + e + f
  <2> DEFINE t == Counts(v, S)
  <2>1. /\ t.expected_pass = a /\ t.regression = b /\ t.expected_fail = c
        /\ t.wontfix_honored = d /\ t.reclassify = f
    BY DEF Counts, A, B, C, D, F
  <2>2. FoldFunction(LAMBDA n, m : n + m, 0, t.deferred_honored) = e
    BY PlansAddUp DEF E
  <2>3. a \in Nat /\ b \in Nat /\ c \in Nat /\ d \in Nat /\ e \in Nat /\ f \in Nat
    BY <1>2 DEF A, B, C, D, E, F
  <2> HIDE DEF t, a, b, c, d, e, f
  <2>4. Total(t) = a + b + c + d + e + f
    BY <2>1, <2>2, <2>3 DEF Total
  <2> QED BY <2>4 DEF t
<1> QED BY <1>2, <1>10, <1>11 DEF A, B, C, D, E, F

(* What a tally says of its cases.                                          *)
LEMMA TallySays ==
  ASSUME NEW v, IsFiniteSet(DOMAIN v), \A c \in DOMAIN v : IsVerdict(v[c]),
         NEW t, t = Tally(v)
  PROVE  /\ Total(t) = Cardinality(DOMAIN v)
         /\ Numerator(t) = Cardinality(Of(v, DOMAIN v, "expected_pass"))
         /\ Numerator(t) <= Denominator(t) /\ Denominator(t) <= Total(t)
         /\ HasCiFailures(t) <=> \E c \in DOMAIN v : v[c].kind = "regression"
         /\ Numerator(t) = Denominator(t) =>
              \A c \in DOMAIN v : v[c].kind \in {"expected_pass", "wontfix_honored"}
<1> DEFINE S == DOMAIN v
           n(k) == Cardinality(Of(v, S, k))
<1>1. t = Counts(v, S)
  BY TallyCounts
<1>2. /\ \A k : n(k) \in Nat
      /\ Total(t) = Cardinality(S)
      /\ Cardinality(S) = n("expected_pass") + n("regression") + n("expected_fail")
                            + n("wontfix_honored") + n("deferred_honored") + n("reclassify")
  BY <1>1, TotalIsAll
<1>3. /\ t.expected_pass = n("expected_pass") /\ t.regression = n("regression")
      /\ t.wontfix_honored = n("wontfix_honored")
  BY <1>1 DEF Counts
<1>4. \A k : n(k) = 0 <=> \A c \in S : v[c].kind # k
  <2> SUFFICES ASSUME NEW k PROVE n(k) = 0 <=> \A c \in S : v[c].kind # k
    OBVIOUS
  <2>1. Of(v, S, k) \subseteq S
    BY DEF Of
  <2>2. IsFiniteSet(Of(v, S, k))
    BY <2>1, FS_Subset
  <2>3. n(k) = 0 <=> Of(v, S, k) = {}
    BY <2>2, FS_EmptySet
  <2> QED BY <2>3 DEF Of
<1> DEFINE rest == n("regression") + n("expected_fail") + n("deferred_honored") + n("reclassify")
<1> HIDE DEF n
<1>5. /\ Numerator(t) = n("expected_pass") /\ Denominator(t) = n("expected_pass") + rest
      /\ Denominator(t) <= Total(t) /\ rest \in Nat
  BY <1>2, <1>3 DEF Numerator, Denominator
<1>6. Numerator(t) <= Denominator(t)
  BY <1>2, <1>5
<1>7. HasCiFailures(t) <=> \E c \in S : v[c].kind = "regression"
  BY <1>2, <1>3, <1>4 DEF HasCiFailures
<1>8. ASSUME Numerator(t) = Denominator(t), NEW c \in S
      PROVE  v[c].kind \in {"expected_pass", "wontfix_honored"}
  <2>1. rest = 0
    <3> HIDE DEF rest
    <3> QED BY <1>2, <1>5, <1>8
  <2>2. n("regression") = 0 /\ n("expected_fail") = 0 /\ n("deferred_honored") = 0 /\ n("reclassify") = 0
    <3>1. /\ n("regression") \in Nat /\ n("expected_fail") \in Nat
          /\ n("deferred_honored") \in Nat /\ n("reclassify") \in Nat
      BY <1>2
    <3>2. n("regression") + n("expected_fail") + n("deferred_honored") + n("reclassify") = 0
      BY <2>1
    <3> QED BY <3>1, <3>2, SMT
  <2>3. v[c].kind \notin {"regression", "expected_fail", "deferred_honored", "reclassify"}
    BY <1>4, <2>2
  <2> QED BY <2>3 DEF IsVerdict, VerdictKinds
<1> QED BY <1>2, <1>5, <1>6, <1>7, <1>8 DEF n

(* Only a deferred case has a plan.                                         *)
LEMMA StatusFacts ==
  ASSUME NEW status \in StatusTexts
  PROVE  /\ status = Pass <=> status.kind = "pass"
         /\ \A p \in Plans : status.plan = p <=> status = [kind |-> "deferred", plan |-> p]
<1>1. /\ status = [kind |-> status.kind, plan |-> status.plan]
      /\ status.plan \in Plans \cup {NoPlan}
      /\ status.kind # "deferred" => status.plan = NoPlan
  BY DEF StatusTexts
<1>2. status = Pass <=> status.kind = "pass"
  BY <1>1 DEF Pass
<1>3. ASSUME NEW p \in Plans
      PROVE  status.plan = p <=> status = [kind |-> "deferred", plan |-> p]
  <2>1. p # NoPlan
    BY PlansAssumption
  <2>2. status.plan = p => status.kind = "deferred"
    BY <1>1, <2>1
  <2> QED BY <1>1, <2>2
<1> QED BY <1>2, <1>3

(* What a status that parses and an outcome make of a case.                 *)
LEMMA Classified ==
  ASSUME NEW status \in StatusTexts, StatusParses(status), NEW outcome
  PROVE  /\ IsVerdict(Classify(status, outcome)) /\ Classify(status, outcome).from = status
         /\ Classify(status, outcome).kind = "expected_pass" <=>
              outcome = "match" /\ status.kind = "pass"
         /\ Classify(status, outcome).kind = "regression" <=>
              outcome # "match" /\ status.kind = "pass"
<1> DEFINE v == Classify(status, outcome)
<1>1. /\ status.kind \in {"pass", "fail", "wontfix", "deferred"}
      /\ status.kind = "deferred" => status.plan \in Plans
  BY DEF StatusTexts, StatusParses
<1>2. v.from = status
      /\ v.kind = IF outcome = "match"
                  THEN IF status.kind = "pass" THEN "expected_pass" ELSE "reclassify"
                  ELSE CASE status.kind = "pass"     -> "regression"
                         [] status.kind = "fail"     -> "expected_fail"
                         [] status.kind = "wontfix"  -> "wontfix_honored"
                         [] status.kind = "deferred" -> "deferred_honored"
  BY DEF Classify
<1> HIDE DEF v
<1>3. CASE outcome = "match"
  BY <1>1, <1>2, <1>3 DEF IsVerdict, VerdictKinds, v
<1>4. CASE outcome # "match"
  <2>1. CASE status.kind = "pass"
    BY <1>2, <1>4, <2>1 DEF IsVerdict, VerdictKinds, v
  <2>2. CASE status.kind = "fail"
    BY <1>2, <1>4, <2>2 DEF IsVerdict, VerdictKinds, v
  <2>3. CASE status.kind = "wontfix"
    BY <1>2, <1>4, <2>3 DEF IsVerdict, VerdictKinds, v
  <2>4. CASE status.kind = "deferred"
    BY <1>1, <1>2, <1>4, <2>4 DEF IsVerdict, VerdictKinds, v
  <2> QED BY <1>1, <2>1, <2>2, <2>3, <2>4
<1> QED BY <1>3, <1>4

-----------------------------------------------------------------------------

USE WorkspaceAssumption, PlansAssumption
    DEF Idle, corpusVars, codeVars, pinVars

-----------------------------------------------------------------------------
(* Types of the variables the theorems speak of.                            *)

IsSidecars(b) == b = [stdout |-> b.stdout, stderr |-> b.stderr, exit |-> b.exit, fs |-> b.fs]

IsRecording(r) ==
  /\ r = [case |-> r.case, next |-> r.next, result |-> r.result]
  /\ r.case \in Cases /\ r.next \in 1 .. 3 /\ IsResult(r.result)

CorpusShape ==
  /\ file \in [Cases -> CaseType]
  /\ DOMAIN beside = Cases /\ \A c \in Cases : IsSidecars(beside[c])
  /\ DOMAIN recorded = Cases
  /\ recording = NoRecording \/ IsRecording(recording)

PinShape ==
  /\ IsReference(reference)
  /\ DOMAIN flake = {"nixpkgs-reference"}
  /\ devshell \in Revs \cup {NoDevshell}

Shape ==
  /\ CorpusShape
  /\ sheets \in [SheetIds -> SheetTexts] /\ sites \subseteq CallSites
  /\ PinShape

(* A running recording is not mistaken for none.                            *)
LEMMA Running == ASSUME NEW r, IsRecording(r) PROVE r # NoRecording
BY DEF NoRecording, IsRecording

LEMMA BareType == IsSidecars(Bare) /\ DOMAIN Bare = {"stdout", "stderr", "exit", "fs"}
BY DEF Bare, IsSidecars

LEMMA Recordable ==
  ASSUME NEW b, IsResult(b)
  PROVE  IsResult([b EXCEPT !.exit = RecordedExit(@)])
<1>1. RecordedExit(b.exit) # NoFile
  BY DEF IsResult, RecordedExit, NoFile
<1> QED BY <1>1 DEF IsResult

LEMMA Order ==
  /\ DOMAIN WriteOrder = 1 .. 3 /\ Len(WriteOrder) = 3
  /\ WriteOrder[1] = "stdout" /\ WriteOrder[2] = "stderr" /\ WriteOrder[3] = "exit"
BY DEF WriteOrder

LEMMA SetSidecar ==
  ASSUME NEW b, NEW c \in Cases, DOMAIN b = Cases, IsSidecars(b[c]),
         NEW k \in {"stdout", "stderr", "exit", "fs"}, NEW v,
         NEW q, q = [b EXCEPT ![c][k] = v]
  PROVE  /\ DOMAIN q = Cases /\ IsSidecars(q[c])
         /\ \A d \in Cases : d # c => q[d] = b[d]
         /\ (k = "stdout") => (q[c].stdout = v)
         /\ (k # "stdout") => (q[c].stdout = b[c].stdout)
         /\ (k = "stderr") => (q[c].stderr = v)
         /\ (k # "stderr") => (q[c].stderr = b[c].stderr)
         /\ (k = "exit") => (q[c].exit = v)
         /\ (k # "exit") => (q[c].exit = b[c].exit)
<1>1. CASE k = "stdout"
  BY <1>1 DEF IsSidecars
<1>2. CASE k = "stderr"
  BY <1>2 DEF IsSidecars
<1>3. CASE k = "exit"
  BY <1>3 DEF IsSidecars
<1>4. CASE k = "fs"
  BY <1>4 DEF IsSidecars
<1> QED BY <1>1, <1>2, <1>3, <1>4

-----------------------------------------------------------------------------
(* The actions that leave the corpus alone, and those that leave the pin.   *)

LEMMA CorpusStays ==
  ASSUME Shape, UNCHANGED corpusVars PROVE CorpusShape'
BY DEF Shape, CorpusShape

LEMMA PinStays ==
  ASSUME Shape, UNCHANGED pinVars PROVE PinShape'
BY DEF Shape, PinShape

(* The parts of the checkout an action may change.                          *)
CorpusStep == \E c \in Cases : EditCase(c) \/ RecordBegin(c) \/ \E kind \in DOMAIN Bare : EditFixture(c, kind)
RecordStep == RecordWrite \/ RecordFails
PinStep    == EditReference \/ BumpFlake \/ EnterDevshell \/ LeaveDevshell
CodeStep   == (\E s \in Scripts : ChangeShell(s)) \/ (\E s \in SheetIds : EditSheet(s)) \/ EditSites \/ Build
CompatStep == \E filter \in CompatFilters : CompatUpdate(filter) \/ CompatUpdateFails(filter)

LEMMA Parts == Next => CorpusStep \/ RecordStep \/ PinStep \/ CodeStep \/ CompatStep
BY DEF Next, CorpusStep, RecordStep, PinStep, CodeStep, CompatStep

LEMMA Frames ==
  /\ CorpusStep \/ RecordStep => UNCHANGED <<codeVars, pinVars>>
  /\ PinStep => UNCHANGED <<corpusVars, codeVars>>
  /\ CodeStep => UNCHANGED <<corpusVars, pinVars>>
  /\ CompatStep => UNCHANGED <<corpusVars, codeVars, pinVars>>
<1>1. CorpusStep \/ RecordStep => UNCHANGED <<codeVars, pinVars>>
  BY DEF CorpusStep, RecordStep, EditCase, RecordBegin, EditFixture, RecordWrite, RecordFails
<1>2. PinStep => UNCHANGED <<corpusVars, codeVars>>
  BY DEF PinStep, Edit, EditReference, BumpFlake, EnterDevshell, LeaveDevshell
<1>3. CodeStep => UNCHANGED <<corpusVars, pinVars>>
  BY DEF CodeStep, Edit, ChangeShell, EditSheet, EditSites, Build
<1>4. CompatStep => UNCHANGED <<corpusVars, codeVars, pinVars>>
  BY DEF CompatStep, CompatUpdate, CompatUpdateFails
<1> QED BY <1>1, <1>2, <1>3, <1>4

(* What bash yields for a case that is recorded.                            *)
LEMMA BashYields ==
  ASSUME Shape, NEW c \in Cases, MayRecord(reference, devshell), Loads(file, beside, c)
  PROVE  LET bash == BashResult[file[c].script][Ships[devshell].bash]
         IN  IsResult([bash EXCEPT !.exit = RecordedExit(@)])
<1>1. devshell \in Revs
  BY DEF MayRecord, Shape, PinShape
<1>2. file[c].script \in Scripts
  BY DEF Loads, Shape, CorpusShape, CaseType
<1> QED BY <1>1, <1>2, Recordable

LEMMA CorpusSteps == Shape /\ (CorpusStep \/ RecordStep) => CorpusShape'
<1> SUFFICES ASSUME Shape, CorpusStep \/ RecordStep PROVE CorpusShape'
  OBVIOUS
<1>1. CorpusShape
  BY DEF Shape
<1>2. ASSUME NEW c \in Cases, EditCase(c) PROVE CorpusShape'
  <2>1. PICK text \in CaseTexts : file' = [file EXCEPT ![c] = text]
    BY <1>2 DEF EditCase
  <2>2. UNCHANGED <<beside, recorded, recording>>
    BY <1>2 DEF EditCase, Edit
  <2> QED BY <1>1, <2>1, <2>2 DEF CorpusShape
<1>3. ASSUME NEW c \in Cases, NEW kind \in DOMAIN Bare, EditFixture(c, kind) PROVE CorpusShape'
  <2> DEFINE v == IF kind = "fs" /\ beside[c][kind] = NoFile THEN "directory" ELSE NoFile
  <2>1. beside' = [beside EXCEPT ![c][kind] = v]
    BY <1>3 DEF EditFixture
  <2>2. UNCHANGED <<file, recording>> /\ DOMAIN recorded' = DOMAIN recorded
    BY <1>3 DEF EditFixture, Edit
  <2> HIDE DEF v
  <2>3. DOMAIN beside' = Cases /\ \A d \in Cases : IsSidecars(beside'[d])
    <3>1. kind \in {"stdout", "stderr", "exit", "fs"}
      BY BareType
    <3>2. /\ DOMAIN beside' = Cases /\ IsSidecars(beside'[c])
          /\ \A d \in Cases : d # c => beside'[d] = beside[d]
      BY <1>1, <2>1, <3>1, SetSidecar DEF CorpusShape
    <3> QED BY <1>1, <3>2 DEF CorpusShape
  <2> QED BY <1>1, <2>2, <2>3 DEF CorpusShape
<1>4. ASSUME NEW c \in Cases, RecordBegin(c) PROVE CorpusShape'
  <2> DEFINE bash == BashResult[file[c].script][Ships[devshell].bash]
             r == [bash EXCEPT !.exit = RecordedExit(@)]
  <2>1. /\ recording' = [case |-> c, next |-> 1, result |-> r]
        /\ UNCHANGED <<file, beside>> /\ DOMAIN recorded' = DOMAIN recorded
    BY <1>4 DEF RecordBegin
  <2>2. IsResult(r)
    BY <1>4, BashYields DEF RecordBegin
  <2> HIDE DEF r
  <2>3. IsRecording(recording')
    BY <2>1, <2>2 DEF IsRecording
  <2> QED BY <1>1, <2>1, <2>3 DEF CorpusShape
<1>5. ASSUME RecordStep PROVE CorpusShape'
  <2> DEFINE c == recording.case
             stream == WriteOrder[recording.next]
  <2>1. IsRecording(recording)
    BY <1>1, <1>5 DEF RecordStep, RecordWrite, RecordFails, CorpusShape
  <2>2. c \in Cases /\ recording.next \in 1 .. 3 /\ stream \in {"stdout", "stderr", "exit", "fs"}
    <3>1. c \in Cases /\ recording.next \in {1, 2, 3}
      BY <2>1 DEF IsRecording
    <3> QED BY <3>1, Order
  <2>3. \E v : beside' = [beside EXCEPT ![c][stream] = v]
    BY <1>5 DEF RecordStep, RecordWrite, RecordFails
  <2>4. DOMAIN beside' = Cases /\ \A d \in Cases : IsSidecars(beside'[d])
    <3>1. PICK v : beside' = [beside EXCEPT ![c][stream] = v]
      BY <2>3
    <3> HIDE DEF c, stream
    <3>2. /\ DOMAIN beside' = Cases /\ IsSidecars(beside'[c])
          /\ \A d \in Cases : d # c => beside'[d] = beside[d]
      BY <1>1, <2>2, <3>1, SetSidecar DEF CorpusShape
    <3> QED BY <1>1, <3>2 DEF CorpusShape
  <2>5. file' = file /\ DOMAIN recorded' = DOMAIN recorded
    BY <1>5 DEF RecordStep, RecordWrite, RecordFails
  <2>6. recording' = NoRecording \/ IsRecording(recording')
    <3>1. recording' = NoRecording
          \/ (recording.next < 3 /\ recording' = [recording EXCEPT !.next = @ + 1])
      BY <1>5, Order DEF RecordStep, RecordWrite, RecordFails
    <3> QED BY <2>1, <3>1 DEF IsRecording
  <2> QED BY <1>1, <2>4, <2>5, <2>6 DEF CorpusShape
<1> QED BY <1>2, <1>3, <1>4, <1>5 DEF CorpusStep

LEMMA PinSteps == Shape /\ PinStep => PinShape'
<1> SUFFICES ASSUME Shape, PinStep PROVE PinShape'
  OBVIOUS
<1>1. IsReference(reference')
  BY DEF PinStep, EditReference, BumpFlake, EnterDevshell, LeaveDevshell, Shape, PinShape
<1>2. DOMAIN flake' = {"nixpkgs-reference"}
  BY DEF PinStep, EditReference, BumpFlake, EnterDevshell, LeaveDevshell, Shape, PinShape
<1>3. devshell' \in Revs \cup {NoDevshell}
  BY DEF PinStep, EditReference, BumpFlake, EnterDevshell, LeaveDevshell, Shape, PinShape
<1> QED BY <1>1, <1>2, <1>3 DEF PinShape

LEMMA CodeSteps == Shape /\ CodeStep => sheets' \in [SheetIds -> SheetTexts] /\ sites' \subseteq CallSites
BY DEF CodeStep, ChangeShell, EditSheet, EditSites, Build, Shape

LEMMA ShapeHolds == Spec => []Shape
<1>1. Init => Shape
  <2> SUFFICES ASSUME Init PROVE Shape
    OBVIOUS
  <2>1. CorpusShape
    BY BareType DEF Init, CorpusShape
  <2>2. PinShape
    BY DEF Init, PinShape, IsReference, Pinned
  <2> QED BY <2>1, <2>2 DEF Init, Shape
<1>2. Shape /\ [Next]_vars => Shape'
  <2> SUFFICES ASSUME Shape, [Next]_vars PROVE Shape'
    OBVIOUS
  <2>1. CASE CorpusStep \/ RecordStep
    <3>1. UNCHANGED <<codeVars, pinVars>> /\ CorpusShape'
      BY <2>1, Frames, CorpusSteps
    <3> QED BY <3>1, PinStays DEF Shape
  <2>2. CASE PinStep
    BY <2>2, Frames, PinSteps, CorpusStays DEF Shape
  <2>3. CASE CodeStep
    <3>1. UNCHANGED <<corpusVars, pinVars>>
      BY <2>3, Frames
    <3>2. CorpusShape' /\ PinShape'
      BY <3>1, CorpusStays, PinStays
    <3> QED BY <2>3, <3>2, CodeSteps DEF Shape
  <2>4. CASE CompatStep \/ UNCHANGED vars
    <3>1. UNCHANGED <<corpusVars, codeVars, pinVars>>
      BY <2>4, Frames DEF vars
    <3>2. CorpusShape' /\ PinShape'
      BY <3>1, CorpusStays, PinStays
    <3> QED BY <3>1, <3>2 DEF Shape
  <2> QED BY <2>1, <2>2, <2>3, <2>4, Parts
<1> QED BY <1>1, <1>2, PTL DEF Spec

-----------------------------------------------------------------------------
(* Recordings.                                                              *)

LEMMA ReadsBack ==
  ASSUME NEW value, NEW content, value # NoFile
  PROVE  /\ ReadBytes(WriteOrRemove("stdout", value, content)) = value
         /\ ReadBytes(WriteOrRemove("stderr", value, content)) = value
         /\ ReadExit(WriteOrRemove("exit", value, content)) = value
BY DEF ReadBytes, ReadExit, WriteOrRemove, Default, NoFile

(* What has been written so far is what bash did; a case being recorded     *)
(* counts as not recorded.                                                  *)
WholeInv ==
  /\ RecordingIsWhole
  /\ ~Idle =>
       /\ recorded[recording.case] = NoResult
       /\ recording.next >= 2 =>
            ReadBytes(beside[recording.case].stdout) = recording.result.stdout
       /\ recording.next >= 3 =>
            ReadBytes(beside[recording.case].stderr) = recording.result.stderr

LEMMA FixtureEdits ==
  ASSUME Shape, WholeInv, NEW c \in Cases, NEW kind \in DOMAIN Bare, EditFixture(c, kind)
  PROVE  WholeInv'
<1> DEFINE v == IF kind = "fs" /\ beside[c][kind] = NoFile THEN "directory" ELSE NoFile
<1>1. beside' = [beside EXCEPT ![c][kind] = v]
  BY DEF EditFixture
<1> HIDE DEF v
<1>2. /\ kind \in {"stdout", "stderr", "exit", "fs"}
      /\ DOMAIN beside = Cases /\ IsSidecars(beside[c]) /\ DOMAIN recorded = Cases
  BY BareType DEF Shape, CorpusShape
<1>3. /\ \A d \in Cases : d # c => beside'[d] = beside[d]
      /\ kind = "fs" => /\ beside'[c].stdout = beside[c].stdout
                        /\ beside'[c].stderr = beside[c].stderr
                        /\ beside'[c].exit = beside[c].exit
  BY <1>1, <1>2, SetSidecar
<1>4. /\ \A d \in Cases : d # c => recorded'[d] = recorded[d]
      /\ recorded'[c] = IF kind = "fs" THEN recorded[c] ELSE NoResult
  BY <1>2 DEF EditFixture
<1>5. \A d \in Cases : recorded'[d] # NoResult =>
        recorded'[d] = recorded[d] /\ Expected(beside', d) = Expected(beside, d)
  BY <1>3, <1>4 DEF Expected
<1>6. recording' = NoRecording
  BY DEF EditFixture, Edit
<1> QED BY <1>5, <1>6 DEF WholeInv, RecordingIsWhole

LEMMA RecordingBegins ==
  ASSUME Shape, WholeInv, NEW c \in Cases, RecordBegin(c) PROVE WholeInv'
<1>1. /\ recording'.case = c /\ recording'.next = 1
      /\ recorded' = [recorded EXCEPT ![c] = NoResult] /\ beside' = beside
  BY DEF RecordBegin
<1>2. \A d \in Cases : recorded'[d] # NoResult => d # c /\ recorded'[d] = recorded[d]
  BY <1>1 DEF Shape, CorpusShape
<1>3. recorded'[c] = NoResult
  BY <1>1 DEF Shape, CorpusShape
<1>4. RecordingIsWhole'
  BY <1>1, <1>2 DEF WholeInv, RecordingIsWhole, Expected
<1> QED BY <1>1, <1>3, <1>4 DEF WholeInv

LEMMA RecordingGoesOn ==
  ASSUME Shape, WholeInv, RecordStep PROVE WholeInv'
<1> DEFINE c == recording.case
           r == recording.result
           stream == WriteOrder[recording.next]
<1>1. ~Idle /\ IsRecording(recording)
  BY DEF RecordStep, RecordWrite, RecordFails, Shape, CorpusShape
<1>2. /\ c \in Cases /\ recording.next \in {1, 2, 3}
      /\ stream \in {"stdout", "stderr", "exit", "fs"}
  <2>1. c \in Cases /\ recording.next \in {1, 2, 3}
    BY <1>1 DEF IsRecording
  <2> QED BY <2>1, Order
<1>3. /\ DOMAIN beside = Cases /\ IsSidecars(beside[c]) /\ DOMAIN recorded = Cases
      /\ recorded[c] = NoResult
  BY <1>1, <1>2 DEF Shape, CorpusShape, WholeInv
<1>4. \A d \in Cases \ {c} : beside'[d] = beside[d]
  <2>1. \E v : beside' = [beside EXCEPT ![c][stream] = v]
    BY DEF RecordStep, RecordWrite, RecordFails
  <2>2. PICK v : beside' = [beside EXCEPT ![c][stream] = v]
    BY <2>1
  <2> HIDE DEF c, stream
  <2> QED BY <1>2, <1>3, <2>2, SetSidecar
<1>5. ASSUME recorded' = recorded, recording' = NoRecording PROVE WholeInv'
  <2>1. \A d \in Cases : recorded'[d] # NoResult =>
          recorded'[d] = recorded[d] /\ Expected(beside', d) = Expected(beside, d)
    BY <1>3, <1>4, <1>5 DEF Expected
  <2> QED BY <1>5, <2>1 DEF WholeInv, RecordingIsWhole
<1>6. CASE RecordFails
  BY <1>5, <1>6 DEF RecordFails
<1>7. CASE RecordWrite
  <2> DEFINE v == WriteOrRemove(stream, r[stream], beside[c][stream])
  <2>1. beside' = [beside EXCEPT ![c][stream] = v]
    BY <1>7 DEF RecordWrite
  <2>2. /\ recording.next < 3 =>
             recorded' = recorded /\ recording' = [recording EXCEPT !.next = @ + 1]
        /\ recording.next = 3 =>
             recorded' = [recorded EXCEPT ![c] = r] /\ recording' = NoRecording
    <3>1. \/ /\ recording.next < Len(WriteOrder)
             /\ recorded' = recorded /\ recording' = [recording EXCEPT !.next = @ + 1]
          \/ /\ ~(recording.next < Len(WriteOrder))
             /\ recorded' = [recorded EXCEPT ![c] = r] /\ recording' = NoRecording
      BY <1>7 DEF RecordWrite
    <3> QED BY <1>2, <3>1, Order
  <2>3. /\ r.stdout # NoFile /\ r.stderr # NoFile /\ r.exit # NoFile
        /\ r = [stdout |-> r.stdout, stderr |-> r.stderr, exit |-> r.exit]
    BY <1>1 DEF IsRecording, IsResult
  <2>4. /\ (stream = "stdout") => (beside'[c].stdout = v)
        /\ (stream # "stdout") => (beside'[c].stdout = beside[c].stdout)
        /\ (stream = "stderr") => (beside'[c].stderr = v)
        /\ (stream # "stderr") => (beside'[c].stderr = beside[c].stderr)
        /\ (stream = "exit") => (beside'[c].exit = v)
        /\ (stream # "exit") => (beside'[c].exit = beside[c].exit)
    <3> HIDE DEF v
    <3>1. CASE stream = "stdout"
      BY <1>2, <1>3, <2>1, <3>1 DEF IsSidecars
    <3>2. CASE stream = "stderr"
      BY <1>2, <1>3, <2>1, <3>2 DEF IsSidecars
    <3>3. CASE stream = "exit"
      BY <1>2, <1>3, <2>1, <3>3 DEF IsSidecars
    <3> QED BY <1>2, <3>1, <3>2, <3>3, Order
  <2>5. /\ recording.next = 1 => ReadBytes(beside'[c].stdout) = r.stdout
        /\ recording.next = 2 => ReadBytes(beside'[c].stderr) = r.stderr
                                 /\ beside'[c].stdout = beside[c].stdout
        /\ recording.next = 3 => ReadExit(beside'[c].exit) = r.exit
                                 /\ beside'[c].stdout = beside[c].stdout
                                 /\ beside'[c].stderr = beside[c].stderr
    BY <1>2, <2>3, <2>4, Order, ReadsBack
  <2>6. /\ recording.next >= 2 => ReadBytes(beside[c].stdout) = r.stdout
        /\ recording.next >= 3 => ReadBytes(beside[c].stderr) = r.stderr
    BY <1>1 DEF WholeInv
  <2>7. CASE recording.next = 3
    <3>1. Expected(beside', c) = r
      BY <2>3, <2>5, <2>6, <2>7 DEF Expected
    <3>2. \A d \in Cases \ {c} :
            recorded'[d] = recorded[d] /\ Expected(beside', d) = Expected(beside, d)
      BY <1>3, <1>4, <2>2, <2>7 DEF Expected
    <3>3. recorded'[c] = r /\ recording' = NoRecording
      BY <1>2, <1>3, <2>2, <2>7
    <3> QED BY <3>1, <3>2, <3>3 DEF WholeInv, RecordingIsWhole
  <2>8. CASE recording.next < 3
    <3>1. recorded' = recorded /\ recording'.case = c /\ recording'.result = r
          /\ recording'.next = recording.next + 1
      BY <1>1, <2>2, <2>8 DEF IsRecording
    <3>2. RecordingIsWhole'
      <4>1. \A d \in Cases : recorded'[d] # NoResult => Expected(beside', d) = Expected(beside, d)
        BY <1>3, <1>4, <3>1 DEF Expected
      <4> QED BY <3>1, <4>1 DEF WholeInv, RecordingIsWhole
    <3>3. recorded'[c] = NoResult
      BY <1>3, <3>1
    <3>4. /\ recording'.next >= 2 => ReadBytes(beside'[c].stdout) = r.stdout
          /\ recording'.next >= 3 => ReadBytes(beside'[c].stderr) = r.stderr
      BY <1>2, <2>5, <2>6, <2>8, <3>1
    <3> QED BY <3>1, <3>2, <3>3, <3>4 DEF WholeInv
  <2> QED BY <1>2, <2>7, <2>8
<1> QED BY <1>6, <1>7 DEF RecordStep

(* `spec record`: a recording that completes leaves exactly what bash did,  *)
(* whatever fixtures, failed recordings and torn files it found.            *)
THEOREM RecordingsAreWhole == Spec => []RecordingIsWhole
<1>1. Init => WholeInv
  BY DEF Init, WholeInv, RecordingIsWhole
<1>2. Shape /\ WholeInv /\ [Next]_vars => WholeInv'
  <2> SUFFICES ASSUME Shape, WholeInv, [Next]_vars PROVE WholeInv'
    OBVIOUS
  <2>1. ASSUME UNCHANGED <<beside, recorded, recording>> PROVE WholeInv'
    BY <2>1 DEF WholeInv, RecordingIsWhole, Expected
  <2>2. CASE PinStep \/ CodeStep \/ CompatStep \/ UNCHANGED vars
    BY <2>1, <2>2, Frames DEF vars
  <2>3. ASSUME NEW c \in Cases, EditCase(c) PROVE WholeInv'
    BY <2>1, <2>3 DEF EditCase, Edit
  <2> QED BY <2>2, <2>3, Parts, FixtureEdits, RecordingBegins, RecordingGoesOn DEF CorpusStep
<1>3. WholeInv => RecordingIsWhole
  BY DEF WholeInv
<1> QED BY <1>1, <1>2, <1>3, ShapeHolds, PTL DEF Spec

-----------------------------------------------------------------------------
(* Refusals.                                                                *)

(* A call site reads nothing but its sheet.                                 *)
LEMMA SiteReadsItsSheet ==
  ASSUME NEW a, NEW b, NEW site, a[site.sheet] = b[site.sheet]
  PROVE  (Resolves(a, site) <=> Resolves(b, site)) /\ Expand(a, site) = Expand(b, site)
<1>1. RowAt(a, site) = RowAt(b, site)
  BY DEF RowAt
<1> QED BY <1>1 DEF Resolves, Expand

(* A build that is not stale depends on every sheet it cites, so an edit of *)
(* one of them makes it stale.                                              *)
BuildInv ==
  /\ BinaryCitesSheets
  /\ ~Stale => binary.inputs = {"source"} \cup UNION {DependsOn(site) : site \in sites}

LEMMA SourceChanges ==
  ASSUME touched' = touched \cup {"source"}, binary' = binary,
         "source" \in binary.inputs
  PROVE  Stale'
BY DEF Stale

LEMMA SheetEdits ==
  ASSUME Shape, BuildInv, NEW s \in SheetIds, EditSheet(s) PROVE BuildInv'
<1>1. /\ touched' = touched \cup {s} /\ binary' = binary /\ sites' = sites
      /\ \A t \in SheetIds : t # s => sheets'[t] = sheets[t]
  BY DEF EditSheet, Shape
<1>2. CASE Stale'
  BY <1>2 DEF BuildInv, BinaryCitesSheets
<1>3. CASE ~Stale'
  <2>1. ~Stale /\ s \notin binary.inputs
    BY <1>1, <1>3 DEF Stale
  <2>2. binary.inputs = {"source"} \cup UNION {DependsOn(site) : site \in sites}
    BY <2>1 DEF BuildInv
  <2>3. \A site \in sites : sheets'[site.sheet] = sheets[site.sheet]
    <3> SUFFICES ASSUME NEW site \in sites PROVE sheets'[site.sheet] = sheets[site.sheet]
      OBVIOUS
    <3>1. site.sheet \in SheetIds
      BY DEF Shape
    <3>2. DependsOn(site) \subseteq binary.inputs
      BY <2>2
    <3>3. site.sheet # s
      BY <2>1, <3>2 DEF DependsOn
    <3> QED BY <1>1, <3>1, <3>3
  <2>4. \A site \in sites : (Resolves(sheets', site) <=> Resolves(sheets, site))
                             /\ Expand(sheets', site) = Expand(sheets, site)
    BY <2>3, SiteReadsItsSheet
  <2>5. {Expand(sheets', site) : site \in sites} = {Expand(sheets, site) : site \in sites}
    BY <2>4
  <2>6. /\ \A site \in sites : Resolves(sheets, site)
        /\ binary.refusals = {Expand(sheets, site) : site \in sites}
    BY <2>1 DEF BuildInv, BinaryCitesSheets
  <2> QED BY <1>1, <2>2, <2>4, <2>5, <2>6 DEF BuildInv, BinaryCitesSheets
<1> QED BY <1>2, <1>3

LEMMA Builds == ASSUME BuildInv, Build PROVE BuildInv'
<1>1. UNCHANGED <<sheets, sites>>
  BY DEF Build
<1>2. CASE Stale /\ Compiles
  <2>1. /\ binary'.refusals = {Expand(sheets, site) : site \in sites}
        /\ binary'.inputs = {"source"} \cup UNION {DependsOn(site) : site \in sites}
    BY <1>2 DEF Build, Compile
  <2>2. \A site \in sites : Resolves(sheets, site)
    BY <1>2 DEF Compiles
  <2> QED BY <1>1, <2>1, <2>2 DEF BuildInv, BinaryCitesSheets
<1>3. CASE ~(Stale /\ Compiles)
  BY <1>1, <1>3 DEF Build, Compile, BuildInv, BinaryCitesSheets, Stale
<1> QED BY <1>2, <1>3

(* refuse!: after a successful build each refusal of the binary says what   *)
(* its sheet says now, sheets edited since an earlier build included.       *)
THEOREM BuildsCiteSheets == Spec => []BinaryCitesSheets
<1> DEFINE SourceInv == "source" \in binary.inputs
<1>1. Init => BuildInv /\ SourceInv
  BY DEF Init, BuildInv, BinaryCitesSheets, Stale
<1>2. Shape /\ BuildInv /\ SourceInv /\ [Next]_vars => BuildInv' /\ SourceInv'
  <2> SUFFICES ASSUME Shape, BuildInv, SourceInv, [Next]_vars PROVE BuildInv' /\ SourceInv'
    OBVIOUS
  <2>1. ASSUME UNCHANGED codeVars PROVE BuildInv' /\ SourceInv'
    BY <2>1 DEF BuildInv, BinaryCitesSheets, Stale
  <2>2. CASE CorpusStep \/ RecordStep \/ PinStep \/ CompatStep \/ UNCHANGED vars
    BY <2>1, <2>2, Frames DEF vars
  <2>3. CASE (\E s \in Scripts : ChangeShell(s)) \/ EditSites
    <3>1. touched' = touched \cup {"source"} /\ binary' = binary
      BY <2>3 DEF ChangeShell, EditSites
    <3>2. Stale'
      BY <3>1, SourceChanges
    <3> QED BY <3>1, <3>2 DEF BuildInv, BinaryCitesSheets
  <2>4. ASSUME NEW s \in SheetIds, EditSheet(s) PROVE BuildInv' /\ SourceInv'
    BY <2>4, SheetEdits DEF EditSheet
  <2>5. CASE Build
    BY <2>5, Builds DEF Build, Compile
  <2> QED BY <2>2, <2>3, <2>4, <2>5, Parts DEF CodeStep
<1>3. BuildInv => BinaryCitesSheets
  BY DEF BuildInv
<1> QED BY <1>1, <1>2, <1>3, ShapeHolds, PTL DEF Spec

-----------------------------------------------------------------------------
(* The pin.                                                                 *)

(* `spec versions`: what it accepts in a shell built from flake.nix is the  *)
(* revision REFERENCE.md names, with its versions.                          *)
THEOREM CheckedShellIsOracle == Spec => []PinIsTheOracle
<1>1. Shape => PinIsTheOracle
  <2> SUFFICES ASSUME Shape, VersionsOk, devshell = flake["nixpkgs-reference"]
               PROVE  reference = Pinned(devshell) /\ MayRecord(reference, devshell)
    BY DEF PinIsTheOracle
  <2>1. /\ reference = [bash |-> reference.bash, coreutils |-> reference.coreutils,
                        nixpkgs_rev |-> reference.nixpkgs_rev,
                        nixpkgs_input |-> reference.nixpkgs_input]
        /\ reference.nixpkgs_input = "nixpkgs-reference"
    BY DEF Shape, PinShape, IsReference
  <2>2. /\ reference.nixpkgs_rev = devshell
        /\ reference.bash = Ships[devshell].bash
        /\ reference.coreutils = Ships[devshell].coreutils
    BY <2>1 DEF VersionsOk, VersionsAgree, FlakeRev, VerifyPin
  <2> QED BY <2>1, <2>2 DEF VersionsOk, VersionsAgree, MayRecord, Pinned
<1> QED BY <1>1, ShapeHolds, PTL

-----------------------------------------------------------------------------
(* The support matrix and COMPAT.md.                                        *)

LEMMA RowsOfSheetFinite ==
  ASSUME NEW s, IsFiniteSet(DOMAIN ParseSheet(sheets[s]))
  PROVE  LET rows == ParseSheet(sheets[s])
         IN  IsFiniteSet({[sheet |-> s, at |-> i, corpus |-> rows[i].corpus] :
                            i \in {j \in DOMAIN rows : rows[j].class = "support"}})
<1> DEFINE rows == ParseSheet(sheets[s])
           S == {j \in DOMAIN rows : rows[j].class = "support"}
           T == {[sheet |-> s, at |-> i, corpus |-> rows[i].corpus] : i \in S}
           f == [i \in S |-> [sheet |-> s, at |-> i, corpus |-> rows[i].corpus]]
<1>1. IsFiniteSet(S)
  BY FS_Subset
<1>2. f \in Surjection(S, T)
  BY DEF Surjection
<1> QED BY <1>1, <1>2, FS_Surjection

LEMMA RowsFinite == Shape => IsFiniteSet(SupportRows(sheets))
<1> SUFFICES ASSUME Shape PROVE IsFiniteSet(SupportRows(sheets))
  OBVIOUS
<1> DEFINE rowsOf(s) == LET rows == ParseSheet(sheets[s])
                        IN  {[sheet |-> s, at |-> i, corpus |-> rows[i].corpus] :
                               i \in {j \in DOMAIN rows : rows[j].class = "support"}}
           S == {t \in DOMAIN sheets : sheets[t].there}
           T == {rowsOf(s) : s \in S}
           f == [s \in S |-> rowsOf(s)]
<1>1. \A s \in S : IsFiniteSet(rowsOf(s))
  <2> SUFFICES ASSUME NEW s \in S PROVE IsFiniteSet(rowsOf(s))
    OBVIOUS
  <2>1. sheets[s] \in SheetTexts
    BY DEF Shape
  <2>2. IsFiniteSet(DOMAIN ParseSheet(sheets[s]))
    BY <2>1, ParsedRows, SheetsAssumption DEF IsText
  <2> QED BY <2>2, RowsOfSheetFinite
<1>2. SupportRows(sheets) = UNION T
  BY DEF SupportRows
<1> HIDE DEF rowsOf
<1>3. IsFiniteSet(S)
  BY FS_Subset DEF Shape
<1>4. f \in Surjection(S, T)
  BY DEF Surjection
<1>5. IsFiniteSet(T)
  BY <1>3, <1>4, FS_Surjection
<1>6. IsFiniteSet(UNION T)
  BY <1>1, <1>5, FS_UNION
<1> QED BY <1>2, <1>6

(* What `compat` reports when it does not give up.                          *)
LEMMA Reported ==
  ASSUME Shape, NEW filter, ~Aborts(filter)
  PROVE  LET v == Verdicts(filter)
         IN  /\ DOMAIN v = Selected(filter) /\ Selected(filter) \subseteq CorpusCases(file)
             /\ IsFiniteSet(Selected(filter)) /\ \A c \in DOMAIN v : IsVerdict(v[c])
             /\ \A c \in Selected(filter) :
                  /\ Loads(file, beside, c) /\ ~RunFails(ShellOn(c))
                  /\ v[c] = CaseVerdict(file, beside, c, ShellOn(c)) /\ v[c].from = file[c].status
                  /\ v[c].kind = "expected_pass" <=>
                       Outcome(beside, c, ShellOn(c)) = "match" /\ file[c].status.kind = "pass"
                  /\ v[c].kind = "regression" <=>
                       Outcome(beside, c, ShellOn(c)) # "match" /\ file[c].status.kind = "pass"
             /\ Report(filter).verdicts = v /\ Report(filter).tally = Tally(v)
             /\ Report(filter).exit = "1" <=> HasCiFailures(Tally(v))
             /\ Report(filter).exit = "0" <=> ~HasCiFailures(Tally(v))
<1> DEFINE v == Verdicts(filter)
<1>1. DOMAIN v = Selected(filter) /\ Selected(filter) \subseteq CorpusCases(file)
      /\ CorpusCases(file) \subseteq Cases
  BY DEF Verdicts, Selected, Considered, CorpusCases
<1>2. IsFiniteSet(Selected(filter))
  BY <1>1, FS_Subset
<1>3. ASSUME NEW c \in Selected(filter)
      PROVE  /\ Loads(file, beside, c) /\ ~RunFails(ShellOn(c))
             /\ v[c] = CaseVerdict(file, beside, c, ShellOn(c)) /\ v[c].from = file[c].status
             /\ IsVerdict(v[c])
             /\ v[c].kind = "expected_pass" <=>
                  Outcome(beside, c, ShellOn(c)) = "match" /\ file[c].status.kind = "pass"
             /\ v[c].kind = "regression" <=>
                  Outcome(beside, c, ShellOn(c)) # "match" /\ file[c].status.kind = "pass"
  <2>1. Loads(file, beside, c) /\ ~RunFails(ShellOn(c))
    BY DEF Aborts, Selected
  <2>2. v[c] = Classify(file[c].status, Outcome(beside, c, ShellOn(c)))
        /\ v[c] = CaseVerdict(file, beside, c, ShellOn(c))
    BY DEF Verdicts, CaseVerdict
  <2>3. file[c].status \in StatusTexts /\ StatusParses(file[c].status)
    <3>1. c \in Cases
      BY <1>1
    <3> QED BY <2>1, <3>1 DEF Shape, CorpusShape, CaseType, TextType, Loads
  <2> HIDE DEF v
  <2> DEFINE status == file[c].status
             outcome == Outcome(beside, c, ShellOn(c))
  <2>4. v[c] = Classify(status, outcome) /\ status \in StatusTexts /\ StatusParses(status)
    BY <2>2, <2>3
  <2> HIDE DEF status, outcome
  <2>5. /\ IsVerdict(v[c]) /\ v[c].from = status
        /\ v[c].kind = "expected_pass" <=> outcome = "match" /\ status.kind = "pass"
        /\ v[c].kind = "regression" <=> outcome # "match" /\ status.kind = "pass"
    BY <2>4, Classified
  <2> QED BY <2>1, <2>2, <2>5 DEF status, outcome
<1>4. /\ Report(filter).verdicts = v /\ Report(filter).tally = Tally(v)
      /\ Report(filter).exit = IF HasCiFailures(Tally(v)) THEN "1" ELSE "0"
  BY DEF Report
<1> HIDE DEF v
<1> QED BY <1>1, <1>2, <1>3, <1>4 DEF v

(* verdict.rs: the tally counts every case that was run once, under the     *)
(* verdict it got, whatever the corpus and the filter; compat exits with 1  *)
(* exactly when a case regressed; and a pass rate of 100 % hides no case    *)
(* that fails, is deferred or misdeclared.                                  *)
THEOREM TallyAccounts == Spec => []ReportAccounts
<1>1. Shape => ReportAccounts
  <2> SUFFICES ASSUME Shape, NEW filter \in CompatFilters, ~Aborts(filter)
               PROVE  LET report   == Report(filter)
                          verdicts == report.verdicts
                          tally    == report.tally
                      IN  /\ Total(tally) = Cardinality(DOMAIN verdicts)
                          /\ report.exit = "1" <=>
                               \E c \in DOMAIN verdicts : verdicts[c].kind = "regression"
                          /\ Numerator(tally) = Denominator(tally) =>
                               \A c \in DOMAIN verdicts :
                                 verdicts[c].kind \in {"expected_pass", "wontfix_honored"}
    BY DEF ReportAccounts
  <2> DEFINE v == Verdicts(filter)
             t == Tally(v)
  <2>1. /\ IsFiniteSet(DOMAIN v) /\ \A c \in DOMAIN v : IsVerdict(v[c])
        /\ Report(filter).verdicts = v /\ Report(filter).tally = t
        /\ Report(filter).exit = "1" <=> HasCiFailures(t)
    BY Reported
  <2> HIDE DEF v
  <2>2. /\ Total(t) = Cardinality(DOMAIN v)
        /\ HasCiFailures(t) <=> \E c \in DOMAIN v : v[c].kind = "regression"
        /\ Numerator(t) = Denominator(t) =>
             \A c \in DOMAIN v : v[c].kind \in {"expected_pass", "wontfix_honored"}
    BY <2>1, TallySays
  <2> QED BY <2>1, <2>2
<1> QED BY <1>1, ShapeHolds, PTL

(* What `pc` says of COMPAT.md.                                             *)
LEMMA GreenCompat ==
  ASSUME Shape, PcOk
  PROVE  /\ \A c \in CorpusCases(file) :
              /\ Loads(file, beside, c) /\ ~RunFails(ShellOn(c))
              /\ file[c].status.kind = "pass" => Outcome(beside, c, ShellOn(c)) = "match"
         /\ compatMd.state = "whole"
         /\ compatMd.body.total = Cardinality(CorpusCases(file))
         /\ compatMd.body.implemented = {c \in CorpusCases(file) : file[c].status.kind = "pass"}
         /\ compatMd.body.passing = Cardinality(compatMd.body.implemented)
         /\ \A p \in Plans : compatMd.body.inProgress[p] =
              {c \in CorpusCases(file) : file[c].status = [kind |-> "deferred", plan |-> p]}
<1> DEFINE rep == Report(Everything)
           v == Verdicts(Everything)
           D == [c \in DOMAIN rep.verdicts |-> rep.verdicts[c].from]
<1>1. Considered(Everything) = CorpusCases(file) /\ Selected(Everything) = CorpusCases(file)
  BY DEF Considered, Selected, Everything
<1>2. ~Aborts(Everything) /\ rep.exit = "0" /\ compatMd.state = "whole"
      /\ compatMd.body = Render(rep)
  BY DEF PcOk, CheckReadme
<1>3. /\ DOMAIN v = CorpusCases(file) /\ IsFiniteSet(DOMAIN v)
      /\ \A c \in DOMAIN v :
           /\ IsVerdict(v[c]) /\ Loads(file, beside, c) /\ ~RunFails(ShellOn(c))
           /\ v[c].from = file[c].status
           /\ v[c].kind = "expected_pass" <=>
                Outcome(beside, c, ShellOn(c)) = "match" /\ file[c].status.kind = "pass"
           /\ v[c].kind = "regression" <=>
                Outcome(beside, c, ShellOn(c)) # "match" /\ file[c].status.kind = "pass"
      /\ rep.verdicts = v /\ rep.tally = Tally(v) /\ ~HasCiFailures(Tally(v))
  BY <1>1, <1>2, Reported
<1>4. /\ Numerator(rep.tally) = Cardinality(Of(v, DOMAIN v, "expected_pass"))
      /\ \A c \in DOMAIN v : v[c].kind # "regression"
  <2> HIDE DEF rep, v
  <2> QED BY <1>3, TallySays
<1>5. DOMAIN D = CorpusCases(file) /\ \A c \in CorpusCases(file) : D[c] = file[c].status
  BY <1>3
<1>6. /\ Render(rep).total = Cardinality(DOMAIN D)
      /\ Render(rep).passing = Numerator(rep.tally)
      /\ Render(rep).implemented = {c \in DOMAIN D : D[c].kind = "pass"}
      /\ Render(rep).inProgress =
           [p \in Plans |-> {c \in DOMAIN D : D[c] = [kind |-> "deferred", plan |-> p]}]
  <2> HIDE DEF rep
  <2> QED BY DEF Render
<1> HIDE DEF D, rep, v
<1>7. Of(v, DOMAIN v, "expected_pass") = {c \in CorpusCases(file) : file[c].status.kind = "pass"}
  BY <1>3, <1>4 DEF Of
<1>8. \A c \in CorpusCases(file) :
        file[c].status.kind = "pass" => Outcome(beside, c, ShellOn(c)) = "match"
  BY <1>3, <1>4
<1>9. Render(rep).implemented = {c \in CorpusCases(file) : file[c].status.kind = "pass"}
  BY <1>5, <1>6
<1>10. Render(rep).inProgress = [p \in Plans |->
         {c \in CorpusCases(file) : file[c].status = [kind |-> "deferred", plan |-> p]}]
  BY <1>5, <1>6
<1>11. compatMd.body.total = Cardinality(CorpusCases(file)) /\ compatMd.state = "whole"
  BY <1>2, <1>5, <1>6
<1>12. compatMd.body.implemented = {c \in CorpusCases(file) : file[c].status.kind = "pass"}
  BY <1>2, <1>9
<1>13. compatMd.body.passing = Cardinality(compatMd.body.implemented)
  BY <1>2, <1>4, <1>6, <1>7, <1>12
<1>14. \A p \in Plans : compatMd.body.inProgress[p] =
         {c \in CorpusCases(file) : file[c].status = [kind |-> "deferred", plan |-> p]}
  BY <1>2, <1>10
<1>15. \A c \in CorpusCases(file) : Loads(file, beside, c) /\ ~RunFails(ShellOn(c))
  BY <1>3
<1> QED BY <1>8, <1>11, <1>12, <1>13, <1>14, <1>15

(* compat.rs: when `pc` has passed and nothing it looks at has changed,     *)
(* COMPAT.md is true of the corpus, however many cases and plans it has.    *)
THEOREM GreenMeansTrue == Spec => []GreenCorpusIsTrue
<1>1. Shape => GreenCorpusIsTrue
  <2> SUFFICES ASSUME Shape, PcOk
      PROVE  /\ compatMd.state = "whole"
             /\ \A c \in compatMd.body.implemented :
                  /\ RunOne(file, beside, c, ShellOn(c)) = 0
                  /\ Outcome(beside, c, ShellOn(c)) = "match"
             /\ \A c \in CorpusCases(file) :
                  /\ file[c].status = Pass <=> c \in compatMd.body.implemented
                  /\ \A p \in Plans : file[c].status.plan = p <=> c \in compatMd.body.inProgress[p]
             /\ compatMd.body.passing = Cardinality(compatMd.body.implemented)
             /\ compatMd.body.total = Cardinality(CorpusCases(file))
    BY DEF GreenCorpusIsTrue
  <2> DEFINE C == CorpusCases(file)
  <2>1. \A c \in C :
          /\ Loads(file, beside, c) /\ ~RunFails(ShellOn(c))
          /\ file[c].status.kind = "pass" => Outcome(beside, c, ShellOn(c)) = "match"
    BY GreenCompat
  <2>2. compatMd.body.implemented = {c \in C : file[c].status.kind = "pass"}
    BY GreenCompat
  <2>3. \A p \in Plans : compatMd.body.inProgress[p] =
          {c \in C : file[c].status = [kind |-> "deferred", plan |-> p]}
    BY GreenCompat
  <2>4. \A c \in C : file[c].status \in StatusTexts /\ StatusParses(file[c].status)
    <3>1. C \subseteq Cases
      BY DEF CorpusCases
    <3> QED BY <2>1, <3>1 DEF Shape, CorpusShape, CaseType, TextType, Loads
  <2>5. /\ compatMd.state = "whole"
        /\ compatMd.body.passing = Cardinality(compatMd.body.implemented)
        /\ compatMd.body.total = Cardinality(C)
    BY GreenCompat
  <2> HIDE DEF C
  <2>6. ASSUME NEW c \in compatMd.body.implemented
        PROVE  /\ RunOne(file, beside, c, ShellOn(c)) = 0
               /\ Outcome(beside, c, ShellOn(c)) = "match"
    <3>1. c \in C /\ file[c].status.kind = "pass"
      BY <2>2, <2>6
    <3>2. Outcome(beside, c, ShellOn(c)) = "match"
      BY <2>1, <3>1
    <3>3. CaseVerdict(file, beside, c, ShellOn(c)).kind = "expected_pass"
      BY <2>4, <3>1, <3>2, Classified DEF CaseVerdict
    <3> QED BY <2>1, <3>1, <3>2, <3>3 DEF RunOne, IsCiFailure
  <2>7. ASSUME NEW c \in C
        PROVE  /\ file[c].status = Pass <=> c \in compatMd.body.implemented
               /\ \A p \in Plans : file[c].status.plan = p <=> c \in compatMd.body.inProgress[p]
    <3>1. /\ file[c].status = Pass <=> file[c].status.kind = "pass"
          /\ \A p \in Plans : file[c].status.plan = p <=>
                               file[c].status = [kind |-> "deferred", plan |-> p]
      BY <2>4, StatusFacts
    <3>2. file[c].status = Pass <=> c \in compatMd.body.implemented
      BY <2>2, <3>1
    <3>3. ASSUME NEW p \in Plans
          PROVE  file[c].status.plan = p <=> c \in compatMd.body.inProgress[p]
      <4>1. c \in compatMd.body.inProgress[p] <=> file[c].status = [kind |-> "deferred", plan |-> p]
        BY <2>3
      <4> QED BY <3>1, <4>1
    <3> QED BY <3>2, <3>3
  <2> QED BY <2>5, <2>6, <2>7 DEF C
<1> QED BY <1>1, ShapeHolds, PTL

LEMMA MatrixMatches == Shape => MatrixMatchesCompat
<1> DEFINE rows == SupportRows(sheets)
           C == CorpusCases(file)
           listed == compatMd.body.implemented \cup UNION {compatMd.body.inProgress[p] : p \in Plans}
<1> SUFFICES ASSUME Shape, CheckSpecsOk, PcOk, \A row \in rows : row.corpus \in Cases
             PROVE  /\ {row.corpus : row \in rows} = listed
                    /\ Cardinality(rows) = compatMd.body.total
                    /\ LintOk(TRUE) =>
                         \A c \in Cases : beside[c] # Bare => c \in listed /\ beside[c].exit # ""
  BY DEF MatrixMatchesCompat
<1>1. /\ \A c \in C : Loads(file, beside, c)
      /\ compatMd.body.total = Cardinality(C)
      /\ compatMd.body.implemented = {c \in C : file[c].status.kind = "pass"}
      /\ \A p \in Plans : compatMd.body.inProgress[p] =
           {c \in C : file[c].status = [kind |-> "deferred", plan |-> p]}
  BY GreenCompat
<1>2. /\ \A row \in rows : SupportRowResolves(row)
      /\ \A c \in C : OwnedOnce(c)
  BY DEF CheckSpecsOk
<1>3. C \subseteq Cases /\ IsFiniteSet(C)
  BY FS_Subset DEF CorpusCases
<1>4. \A row \in rows : row.corpus \in C /\ file[row.corpus].status.kind \in {"pass", "deferred"}
  BY <1>2 DEF SupportRowResolves, Loads, CorpusCases
<1>5. \A c \in C : \E row \in rows : /\ row.corpus = c
                                     /\ \A other \in rows : other.corpus = c => other = row
  <2> SUFFICES ASSUME NEW c \in C
               PROVE  \E row \in rows : /\ row.corpus = c
                                        /\ \A other \in rows : other.corpus = c => other = row
    OBVIOUS
  <2> DEFINE own == {row \in rows : row.corpus = c}
  <2>1. IsFiniteSet(own)
    BY RowsFinite, FS_Subset
  <2>2. Cardinality(own) = 1
    BY <1>2 DEF OwnedOnce
  <2>3. PICK x : own = {x}
    BY <2>1, <2>2, FS_Singleton
  <2> QED BY <2>3
<1>6. \A c \in C : c \in listed
  <2> SUFFICES ASSUME NEW c \in C PROVE c \in listed
    OBVIOUS
  <2>1. file[c].status.kind \in {"pass", "deferred"}
    BY <1>4, <1>5
  <2>2. CASE file[c].status.kind = "pass"
    BY <1>1, <2>2
  <2>3. CASE file[c].status.kind = "deferred"
    <3>1. file[c].status \in StatusTexts
      BY <1>3 DEF Shape, CorpusShape, CaseType, TextType
    <3>2. file[c].status.plan \in Plans
      BY <1>1, <2>3, <3>1 DEF Loads, StatusParses, StatusTexts
    <3>3. file[c].status = [kind |-> "deferred", plan |-> file[c].status.plan]
      BY <2>3, <3>1 DEF StatusTexts
    <3> QED BY <1>1, <3>2, <3>3
  <2> QED BY <2>1, <2>2, <2>3
<1>7. listed \subseteq C
  <2>1. \A p \in Plans : compatMd.body.inProgress[p] \subseteq C
    BY <1>1
  <2>2. compatMd.body.implemented \subseteq C
    BY <1>1
  <2> QED BY <2>1, <2>2
<1>8. {row.corpus : row \in rows} = listed
  BY <1>4, <1>5, <1>6, <1>7
<1>9. Cardinality(rows) = Cardinality(C)
  <2> DEFINE f == [row \in rows |-> row.corpus]
  <2> HIDE DEF rows, C
  <2>1. f \in [rows -> C]
    BY <1>4
  <2>2. f \in Surjection(rows, C)
    BY <1>5, <2>1 DEF Surjection
  <2>3. f \in Injection(rows, C)
    <3> SUFFICES ASSUME NEW x \in rows, NEW y \in rows, f[x] = f[y] PROVE x = y
      BY <2>1 DEF Injection, IsInjective
    <3>1. x.corpus = y.corpus /\ x.corpus \in C
      BY <1>4
    <3> QED BY <1>5, <3>1
  <2>4. IsFiniteSet(rows)
    BY RowsFinite DEF rows
  <2> QED BY <2>2, <2>3, <2>4, FS_Surjection
<1>10. ASSUME LintOk(TRUE), NEW c \in Cases, beside[c] # Bare
       PROVE  c \in listed /\ beside[c].exit # ""
  <2>1. c \in C
    BY <1>10 DEF LintOk, Orphans, Fixtures
  <2>2. ReadExit(beside[c].exit) \in ExitCodes
    BY <1>1, <2>1 DEF Loads
  <2>3. beside[c].exit # ""
    BY <2>2 DEF ReadExit, ExitCodes, NoFile
  <2> QED BY <1>6, <2>1, <2>3
<1> QED BY <1>1, <1>8, <1>9, <1>10

(* check-specs and `pc` together: the support rows of the sheets and the    *)
(* entries of COMPAT.md are the same cases, one row for each, for any       *)
(* number of sheets and cases.                                              *)
THEOREM MatrixIsCompat == Spec => []MatrixMatchesCompat
BY MatrixMatches, ShapeHolds, PTL

-----------------------------------------------------------------------------
(* The documents the refusals cite.                                         *)

(* core/spec.rs: when the crate builds and check-specs passes, each defer   *)
(* refusal of the binary has its row number, or a longer one that ends in   *)
(* it, in section 6 of the sheet it cites, for any sheets and call sites.   *)
THEOREM RefusalsHaveWorkarounds == Spec => []RefusalsAreDocumented
<1>1. Shape /\ BinaryCitesSheets => RefusalsAreDocumented
  <2> SUFFICES ASSUME Shape, BinaryCitesSheets, ~Stale, CheckSpecsOk,
                      NEW r \in binary.refusals, r.kind = "defer",
                      AllFilled(sheets[r.sheet])
               PROVE  \E word \in sheets[r.sheet].cited : EndsIn(word, r.number)
    BY DEF RefusalsAreDocumented, AllFilled
  <2>1. PICK site \in sites : r = Expand(sheets, site) /\ Resolves(sheets, site)
    <3>1. binary.refusals = {Expand(sheets, site) : site \in sites}
      BY DEF BinaryCitesSheets
    <3>2. PICK site \in sites : r = Expand(sheets, site)
      BY <3>1
    <3>3. Resolves(sheets, site)
      BY DEF BinaryCitesSheets
    <3> QED BY <3>2, <3>3
  <2> DEFINE text == sheets[r.sheet]
  <2>2. r.sheet = site.sheet /\ r.number = site.number /\ site.form = "defer"
    BY <2>1 DEF Expand
  <2>3. site.sheet \in SheetIds /\ text.there /\ IsText(text)
    <3>1. site.sheet \in SheetIds
      BY WorkspaceAssumption DEF Shape
    <3>2. text \in SheetTexts
      BY <2>2, <3>1 DEF Shape
    <3> QED BY <2>1, <2>2, <3>1, <3>2, SheetsAssumption DEF Resolves, IsText
  <2>4. PICK j \in DOMAIN MacroRows(text) :
          /\ MacroRows(text)[j].number = site.number
          /\ MacroRows(text)[j].class \in DOMAIN Milestones
    BY <2>1, <2>2, <2>3, SiteHasRow DEF WantClass
  <2> HIDE DEF text
  <2>5. PICK i \in DOMAIN ParseSheet(text) :
          /\ ParseSheet(text)[i].number = site.number
          /\ ParseSheet(text)[i].class \in DOMAIN Milestones
    <3>1. AllFilled(text)
      BY DEF text
    <3>2. \E i \in DOMAIN ParseSheet(text) :
            /\ ParseSheet(text)[i].number = MacroRows(text)[j].number
            /\ ParseSheet(text)[i].class = MacroRows(text)[j].class
      BY <2>3, <2>4, <3>1, RowIsParsed
    <3> QED BY <2>4, <3>2
  <2>6. SheetStructureOk(text)
    BY <2>2, <2>3 DEF CheckSpecsOk, text
  <2>7. MentionsRow(text.cited, r.number)
    BY <2>2, <2>5, <2>6 DEF SheetStructureOk
  <2> QED BY <2>7 DEF MentionsRow, text
<1> QED BY <1>1, ShapeHolds, BuildsCiteSheets, PTL

-----------------------------------------------------------------------------
(* What the other variables hold.                                           *)

BinaryType == "source" \in binary.inputs /\ \A r \in binary.refusals : r.sheet \in binary.inputs

CompatType ==
  /\ compatMd.body.implemented \subseteq Cases
  /\ compatMd.body.passing <= compatMd.body.of /\ compatMd.body.of <= compatMd.body.total

Bounded == edits \in 0 .. MaxEdits /\ failures \in 0 .. MaxFailures

LEMMA BinarySteps == BinaryType /\ Build => BinaryType'
<1> SUFFICES ASSUME BinaryType, Build PROVE BinaryType'
  OBVIOUS
<1>1. CASE Stale /\ Compiles
  <2>1. /\ binary'.refusals = {Expand(sheets, site) : site \in sites}
        /\ binary'.inputs = {"source"} \cup UNION {DependsOn(site) : site \in sites}
    BY <1>1 DEF Build, Compile
  <2>2. ASSUME NEW site \in sites PROVE Expand(sheets, site).sheet \in binary'.inputs
    BY <2>1 DEF Expand, DependsOn
  <2> QED BY <2>1, <2>2 DEF BinaryType
<1>2. CASE ~(Stale /\ Compiles)
  BY <1>2 DEF Build, Compile, BinaryType
<1> QED BY <1>1, <1>2

LEMMA CompatSteps ==
  ASSUME Shape, NEW filter, CompatUpdate(filter) PROVE CompatType'
<1> DEFINE rep == Report(filter)
           v == Verdicts(filter)
           t == Tally(v)
           D == [c \in DOMAIN rep.verdicts |-> rep.verdicts[c].from]
<1>1. ~Aborts(filter) /\ compatMd' = [state |-> "whole", body |-> Render(rep)]
  BY DEF CompatUpdate
<1>2. /\ DOMAIN v \subseteq CorpusCases(file) /\ IsFiniteSet(DOMAIN v)
      /\ \A c \in DOMAIN v : IsVerdict(v[c])
      /\ rep.verdicts = v /\ rep.tally = t
  BY <1>1, Reported
<1>3. /\ Render(rep).total = Cardinality(DOMAIN D)
      /\ Render(rep).passing = Numerator(rep.tally)
      /\ Render(rep).of = Denominator(rep.tally)
      /\ Render(rep).implemented = {c \in DOMAIN D : D[c].kind = "pass"}
  <2> HIDE DEF rep
  <2> QED BY DEF Render
<1>4. DOMAIN D = DOMAIN v
  BY <1>2
<1> HIDE DEF v, rep, D
<1>5. /\ Total(t) = Cardinality(DOMAIN v)
      /\ Numerator(t) <= Denominator(t) /\ Denominator(t) <= Total(t)
  BY <1>2, TallySays
<1>6. CorpusCases(file) \subseteq Cases
  BY DEF CorpusCases
<1> HIDE DEF t
<1>7. /\ Render(rep).implemented \subseteq Cases
      /\ Render(rep).passing <= Render(rep).of /\ Render(rep).of <= Render(rep).total
  BY <1>2, <1>3, <1>4, <1>5, <1>6
<1> QED BY <1>1, <1>7 DEF CompatType

LEMMA BoundSteps == Bounded /\ [Next]_vars => Bounded'
<1> SUFFICES ASSUME Bounded, [Next]_vars PROVE Bounded'
  OBVIOUS
<1>1. \/ UNCHANGED <<edits, failures>>
      \/ edits < MaxEdits /\ edits' = edits + 1 /\ failures' = failures
      \/ failures < MaxFailures /\ failures' = failures + 1 /\ edits' = edits
  <2>1. CASE CorpusStep
    BY <2>1 DEF CorpusStep, EditCase, EditFixture, RecordBegin, Edit
  <2>2. CASE RecordStep
    BY <2>2 DEF RecordStep, RecordWrite, RecordFails
  <2>3. CASE PinStep
    BY <2>3 DEF PinStep, EditReference, BumpFlake, EnterDevshell, LeaveDevshell, Edit
  <2>4. CASE CodeStep
    BY <2>4 DEF CodeStep, ChangeShell, EditSheet, EditSites, Build, Edit
  <2>5. CASE CompatStep
    BY <2>5 DEF CompatStep, CompatUpdate, CompatUpdateFails
  <2>6. CASE UNCHANGED vars
    BY <2>6 DEF vars
  <2> QED BY <2>1, <2>2, <2>3, <2>4, <2>5, <2>6, Parts
<1> QED BY <1>1, BoundsAssumption DEF Bounded

(* The type invariant, and with it: each refusal of the binary comes from a *)
(* file the binary depends on, and COMPAT.md never claims more passes than  *)
(* it counts, nor counts more than there is.                                *)
THEOREM WorkspaceTypes == Spec => []TypeOK
<1> DEFINE Inv == BinaryType /\ CompatType /\ Bounded
<1>1. Init => Inv
  <2> SUFFICES ASSUME Init PROVE Inv
    OBVIOUS
  <2>1. BinaryType /\ CompatType
    BY DEF Init, BinaryType, CompatType, NoBody
  <2>2. Bounded
    BY BoundsAssumption DEF Init, Bounded
  <2> QED BY <2>1, <2>2
<1>2. Shape /\ Inv /\ [Next]_vars => Inv'
  <2> SUFFICES ASSUME Shape, Inv, [Next]_vars PROVE BinaryType' /\ CompatType'
    BY BoundSteps
  <2>1. CASE Build
    BY <2>1, BinarySteps DEF Build, CompatType
  <2>2. CASE CompatStep
    <3>1. BinaryType'
      BY <2>2, Frames DEF BinaryType
    <3>2. CASE \E filter \in CompatFilters : CompatUpdate(filter)
      BY <3>1, <3>2, CompatSteps
    <3>3. CASE \E filter \in CompatFilters : CompatUpdateFails(filter)
      BY <3>1, <3>3 DEF CompatUpdateFails, CompatType, NoBody
    <3> QED BY <2>2, <3>2, <3>3 DEF CompatStep
  <2>3. CASE CorpusStep \/ RecordStep \/ PinStep \/ UNCHANGED vars
    <3>1. UNCHANGED <<binary, compatMd>>
      <4>1. CASE CorpusStep
        BY <4>1 DEF CorpusStep, EditCase, EditFixture, RecordBegin, Edit
      <4>2. CASE RecordStep
        BY <4>2 DEF RecordStep, RecordWrite, RecordFails
      <4>3. CASE PinStep
        BY <4>3 DEF PinStep, EditReference, BumpFlake, EnterDevshell, LeaveDevshell, Edit
      <4>4. CASE UNCHANGED vars
        BY <4>4 DEF vars
      <4> QED BY <2>3, <4>1, <4>2, <4>3, <4>4
    <3> QED BY <3>1 DEF BinaryType, CompatType
  <2>4. CASE (\E s \in Scripts : ChangeShell(s)) \/ (\E s \in SheetIds : EditSheet(s)) \/ EditSites
    <3>1. UNCHANGED <<binary, compatMd>>
      BY <2>4 DEF ChangeShell, EditSheet, EditSites, Edit
    <3> QED BY <3>1 DEF BinaryType, CompatType
  <2> QED BY <2>1, <2>2, <2>3, <2>4, Parts DEF CodeStep
<1>3. Shape /\ Inv => TypeOK
  <2> SUFFICES ASSUME Shape, Inv PROVE TypeOK
    OBVIOUS
  <2>1. \A c \in Cases : file[c].status \in StatusTexts
    BY DEF Shape, CorpusShape, CaseType, TextType
  <2>2. \A c \in Cases : DOMAIN beside[c] = Streams \cup {"fs"}
    <3>1. \A b : IsSidecars(b) => DOMAIN b = {"stdout", "stderr", "exit", "fs"}
      BY DEF IsSidecars
    <3>2. \A c \in Cases : IsSidecars(beside[c])
      BY DEF Shape, CorpusShape
    <3> QED BY <3>1, <3>2 DEF Streams
  <2>3. recording.case \in Cases \cup {NoFile} /\ recording.next \in DOMAIN WriteOrder
    BY Order DEF Shape, CorpusShape, IsRecording, NoRecording
  <2> QED BY <2>1, <2>2, <2>3 DEF BinaryType, CompatType, Bounded, TypeOK
<1> QED BY <1>1, <1>2, <1>3, ShapeHolds, PTL DEF Spec
=============================================================================
