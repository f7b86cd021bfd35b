------------------------------ MODULE FoldFacts ------------------------------
(***************************************************************************)
(* Induction and recursion in a form first-order provers can use. The      *)
(* induction theorems of the library quantify over predicates; here the    *)
(* predicate is a set, and the recursion step a function, so that every    *)
(* lemma is about values only. They rest on one fact of the library, that  *)
(* the finite subsets of a set are well-founded by strict inclusion.       *)
(*                                                                         *)
(* The second half unfolds the folds of the community modules.             *)
(***************************************************************************)
EXTENDS Lists, Integers, FiniteSetTheorems, SequenceTheorems, WellFoundedInduction, TLAPS

-----------------------------------------------------------------------------
(* Induction over subsets of a finite set, and over the numbers.            *)

(* A non-empty set of subsets of a finite set has an element with no proper *)
(* subset among them.                                                       *)
LEMMA SmallestSubset ==
  ASSUME NEW S, IsFiniteSet(S), NEW Q, Q \subseteq SUBSET S, Q # {}
  PROVE  \E T \in Q : \A U \in Q : U \subseteq T => U = T
<1> DEFINE R == StrictSubsetOrdering(S)
<1>1. IsWellFoundedOn(R, FiniteSubsetsOf(S))
  BY FS_StrictSubsetOrderingWellFounded
<1>2. FiniteSubsetsOf(S) = SUBSET S
  BY FS_FiniteSubsetsOfFinite
<1>3. PICK T \in Q : \A U \in Q : <<U, T>> \notin R
  <2> HIDE DEF R
  <2> QED BY <1>1, <1>2, WFMin, Zenon
<1>4. ASSUME NEW U \in Q, U \subseteq T PROVE U = T
  BY <1>3, <1>4 DEF StrictSubsetOrdering
<1> QED BY <1>4

(* What holds of a subset when it holds of every smaller one holds of all.  *)
LEMMA SubsetsInductive ==
  ASSUME NEW S, IsFiniteSet(S), NEW Q,
         \A T \in SUBSET S : (\A U \in SUBSET T : U # T => U \in Q) => T \in Q
  PROVE  \A T \in SUBSET S : T \in Q
<1> DEFINE Bad == {T \in SUBSET S : T \notin Q}
<1> SUFFICES ASSUME Bad # {} PROVE FALSE
  OBVIOUS
<1>1. PICK T \in Bad : \A U \in Bad : U \subseteq T => U = T
  <2>1. Bad \subseteq SUBSET S
    OBVIOUS
  <2> HIDE DEF Bad
  <2> QED BY <2>1, SmallestSubset
<1>2. \A U \in SUBSET T : U # T => U \in Q
  BY <1>1
<1> QED BY <1>2

(* A set that has 0 and the successor of each number it has, has them all.  *)
LEMMA NumbersInductive ==
  ASSUME NEW Q, 0 \in Q, \A n \in Nat : n \in Q => n + 1 \in Q
  PROVE  \A n \in Nat : n \in Q
<1> SUFFICES ASSUME NEW n \in Nat PROVE n \in Q
  OBVIOUS
<1> DEFINE First == {k \in 0 .. n : k \notin Q}
           Below == {0 .. (k - 1) : k \in First}
<1> SUFFICES ASSUME First # {} PROVE FALSE
  OBVIOUS
<1>1. IsFiniteSet(0 .. n)
  BY FS_Interval
<1>2. Below \subseteq SUBSET (0 .. n) /\ Below # {}
  OBVIOUS
<1>3. PICK T \in Below : \A U \in Below : U \subseteq T => U = T
  <2> HIDE DEF Below, First
  <2> DEFINE N == 0 .. n
  <2>1. IsFiniteSet(N) /\ Below \subseteq SUBSET N /\ Below # {}
    BY <1>1, <1>2
  <2> HIDE DEF N
  <2> QED BY <2>1, SmallestSubset
<1>4. PICK k \in First : T = 0 .. (k - 1)
  BY <1>3
<1>5. k # 0 /\ k - 1 \in 0 .. n /\ k \in Nat
  BY <1>4
<1>6. k - 1 \notin Q
  BY <1>4, <1>5
<1>7. 0 .. (k - 1 - 1) \in Below
  BY <1>5, <1>6
<1>8. (0 .. (k - 1 - 1)) \subseteq T /\ k - 1 \in T /\ k - 1 \notin 0 .. (k - 1 - 1)
  BY <1>4, <1>5
<1> QED BY <1>3, <1>7, <1>8

-----------------------------------------------------------------------------
(* Recursion over the subsets of a finite set, as MapThenFoldSet does it.   *)

(* f follows the rule on the subsets of V.                                  *)
Follows(f, V, base, step, pick) ==
  f = [T \in SUBSET V |-> IF T = {} THEN base ELSE step[<<pick[T], f[T \ {pick[T]}]>>]]

(* Two functions that follow the same rule agree where both are defined.    *)
LEMMA RecursionUnique ==
  ASSUME NEW S, IsFiniteSet(S), NEW base, NEW step, NEW pick,
         \A T \in SUBSET S : T # {} => pick[T] \in T,
         NEW V \in SUBSET S, NEW W \in SUBSET S, NEW f, NEW g,
         Follows(f, V, base, step, pick), Follows(g, W, base, step, pick)
  PROVE  \A T \in SUBSET V : T \subseteq W => f[T] = g[T]
<1> USE DEF Follows
<1> DEFINE Q == {T \in SUBSET S : T \subseteq V /\ T \subseteq W => f[T] = g[T]}
<1>1. ASSUME NEW T \in SUBSET S, \A U \in SUBSET T : U # T => U \in Q
      PROVE  T \in Q
  <2> SUFFICES ASSUME T \subseteq V, T \subseteq W PROVE f[T] = g[T]
    OBVIOUS
  <2>1. CASE T = {}
    <3>1. f[T] = base
      BY <2>1
    <3>2. g[T] = base
      BY <2>1
    <3> QED BY <3>1, <3>2
  <2>2. CASE T # {}
    <3> DEFINE U == T \ {pick[T]}
    <3>1. U \in SUBSET T /\ U # T
      BY <2>2
    <3>2. f[U] = g[U]
      BY <3>1, <1>1
    <3>3. f[T] = step[<<pick[T], f[U]>>]
      BY <2>2
    <3>4. g[T] = step[<<pick[T], g[U]>>]
      BY <2>2
    <3> QED BY <3>2, <3>3, <3>4
  <2> QED BY <2>1, <2>2
<1>2. \A T \in SUBSET S : T \in Q
  <2> HIDE DEF Q
  <2> QED BY <1>1, SubsetsInductive
<1> QED BY <1>2

(* There is one: the value at V is computed from the functions of its       *)
(* proper subsets, which agree.                                             *)
LEMMA RecursionExists ==
  ASSUME NEW S, IsFiniteSet(S), NEW base, NEW step, NEW pick,
         \A T \in SUBSET S : T # {} => pick[T] \in T
  PROVE  \E f : Follows(f, S, base, step, pick)
<1> DEFINE Rec(f, V) == Follows(f, V, base, step, pick)
           Q == {V \in SUBSET S : \E f : Rec(f, V)}
           F(V) == CHOOSE f : Rec(f, V)
<1>1. ASSUME NEW V \in SUBSET S, \A U \in SUBSET V : U # V => U \in Q
      PROVE  V \in Q
  <2> DEFINE last == V \ {pick[V]}
             g == [T \in SUBSET V |->
                     IF T = {} THEN base
                     ELSE IF T = V THEN step[<<pick[V], F(last)[last]>>] ELSE F(T)[T]]
  <2>1. ASSUME NEW T \in SUBSET V, T # V PROVE Rec(F(T), T)
    <3>1. \E f : Rec(f, T)
      BY <1>1, <2>1
    <3> HIDE DEF Rec
    <3> QED BY <3>1
  <2>2. ASSUME NEW T \in SUBSET V, T # V PROVE g[T] = F(T)[T]
    <3>1. CASE T = {}
      <4>1. F(T)[T] = base
        BY <2>1, <2>2, <3>1 DEF Follows
      <4> QED BY <3>1, <4>1
    <3> QED BY <2>2, <3>1
  <2>3. ASSUME NEW T \in SUBSET V, T # {}
        PROVE  g[T] = step[<<pick[T], g[T \ {pick[T]}]>>]
    <3> DEFINE U == T \ {pick[T]}
    <3>1. U \in SUBSET V /\ U # T /\ U # V /\ U \subseteq T
      BY <2>3
    <3>2. g[U] = F(U)[U]
      BY <2>2, <3>1
    <3>3. CASE T = V
      BY <2>3, <3>2, <3>3
    <3>4. CASE T # V
      <4>1. g[T] = F(T)[T]
        BY <2>2, <3>4
      <4>2. Rec(F(T), T) /\ Rec(F(U), U)
        BY <2>1, <3>1, <3>4
      <4>3. F(T)[T] = step[<<pick[T], F(T)[U]>>]
        <5> HIDE DEF F
        <5> QED BY <2>3, <4>2 DEF Follows
      <4>4. F(T)[U] = F(U)[U]
        <5>1. T \in SUBSET S /\ U \in SUBSET S
          BY <3>1
        <5>2. ASSUME NEW a, NEW b, Rec(a, T), Rec(b, U) PROVE a[U] = b[U]
          <6> HIDE DEF U
          <6>1. \A W \in SUBSET T : W \subseteq U => a[W] = b[W]
            BY <5>1, <5>2, RecursionUnique
          <6> QED BY <6>1, <3>1
        <5> HIDE DEF F, U, Rec
        <5> QED BY <4>2, <5>2
      <4> HIDE DEF F, g, U
      <4> QED BY <4>1, <4>3, <4>4, <3>2 DEF U
    <3> QED BY <3>3, <3>4
  <2>4. Rec(g, V)
    <3>1. {} \in SUBSET V => g[{}] = base
      OBVIOUS
    <3>2. g = [T \in SUBSET V |-> g[T]]
      OBVIOUS
    <3>3. \A T \in SUBSET V :
            g[T] = IF T = {} THEN base ELSE step[<<pick[T], g[T \ {pick[T]}]>>]
      <4> HIDE DEF g
      <4> QED BY <2>3, <3>1
    <3> HIDE DEF g
    <3> QED BY <3>2, <3>3 DEF Follows
  <2> QED BY <2>4
<1>2. \A V \in SUBSET S : V \in Q
  <2> HIDE DEF Q
  <2> QED BY <1>1, SubsetsInductive
<1> QED BY <1>2

(* step[<<x, v>>] is of type Val when v is.                                 *)
Keeps(step, S, Val) == \A x \in S, v \in Val : step[<<x, v>>] \in Val

(* Its values are of the type that base has and the rule keeps.             *)
LEMMA RecursionType ==
  ASSUME NEW S, IsFiniteSet(S), NEW base, NEW step, NEW pick,
         \A T \in SUBSET S : T # {} => pick[T] \in T,
         NEW f, Follows(f, S, base, step, pick),
         NEW Val, base \in Val, Keeps(step, S, Val)
  PROVE  \A T \in SUBSET S : f[T] \in Val
<1> DEFINE Q == {T \in SUBSET S : f[T] \in Val}
<1>1. ASSUME NEW T \in SUBSET S, \A U \in SUBSET T : U # T => U \in Q
      PROVE  T \in Q
  <2>1. CASE T = {}
    BY <2>1 DEF Follows
  <2>2. CASE T # {}
    <3>1. T \ {pick[T]} \in Q /\ pick[T] \in S
      BY <1>1, <2>2
    <3>2. f[T] = step[<<pick[T], f[T \ {pick[T]}]>>]
      BY <2>2 DEF Follows
    <3> QED BY <3>1, <3>2 DEF Keeps
  <2> QED BY <2>1, <2>2
<1>2. \A T \in SUBSET S : T \in Q
  <2> HIDE DEF Q
  <2> QED BY <1>1, SubsetsInductive
<1> QED BY <1>2 DEF Follows

-----------------------------------------------------------------------------
(* FoldLeft, from left to right over a sequence.                            *)

(* FoldLeft of an operation given as a function.                            *)
Fold(step, base, s) == FoldLeft(LAMBDA v, x : step[<<v, x>>], base, s)

(* it gives the value of a fold over the elements of s whose places are in T. *)
FoldsOver(it, step, base, s) ==
  it = [T \in SUBSET DOMAIN s |->
          IF T = {} THEN base ELSE step[<<it[T \ {Max(T)}], s[Max(T)]>>]]

FoldedBy(it, Val, step, base, s) ==
  /\ \A T \in SUBSET DOMAIN s : it[T] \in Val
  /\ FoldsOver(it, step, base, s)
  /\ Fold(step, base, s) = it[DOMAIN s]

LEMMA GreatestNumber ==
  ASSUME NEW n \in Nat, NEW T \in SUBSET (1 .. n), T # {}
  PROVE  Max(T) \in T /\ \A k \in T : k <= Max(T)
<1> DEFINE Above == {k \in 0 .. n : \A j \in T : j <= k}
           Caps == {0 .. k : k \in Above}
<1>1. IsFiniteSet(0 .. n) /\ Caps \subseteq SUBSET (0 .. n) /\ n \in Above
  <2>1. IsFiniteSet(0 .. n)
    BY FS_Interval
  <2>2. n \in Above
    OBVIOUS
  <2> QED BY <2>1, <2>2
<1>2. PICK C \in Caps : \A U \in Caps : U \subseteq C => U = C
  <2> HIDE DEF Caps
  <2> DEFINE N == 0 .. n
  <2>1. IsFiniteSet(N) /\ Caps \subseteq SUBSET N /\ Caps # {}
    BY <1>1 DEF Caps
  <2> HIDE DEF N
  <2> QED BY <2>1, SmallestSubset
<1>3. PICK k \in Above : C = 0 .. k
  BY <1>2
<1>4. ASSUME k \notin T PROVE FALSE
  <2>1. k # 0
    <3>1. PICK j \in T : TRUE
      OBVIOUS
    <3> QED BY <3>1
  <2>2. k - 1 \in Above
    BY <1>3, <1>4, <2>1
  <2>3. 0 .. (k - 1) \in Caps /\ (0 .. (k - 1)) \subseteq C /\ k \in C
        /\ k \notin 0 .. (k - 1)
    BY <1>3, <2>1, <2>2
  <2> QED BY <1>2, <2>3
<1>5. \E x \in T : \A y \in T : x >= y
  BY <1>3, <1>4
<1> QED BY <1>5 DEF Max

IsSeq(s)          == Len(s) \in Nat /\ DOMAIN s = 1 .. Len(s)
ListOf(s, E)      == s \in Seq(E)
StepOf(f, Val, E) == f \in [Val \X E -> Val]

AgreeOnLast(s, a, b) ==
  \A T \in SUBSET DOMAIN s :
    T # {} /\ a[T \ {Max(T)}] = b[T \ {Max(T)}] => a[T] = b[T]

(* Two functions agree on the places of a sequence when they do on none and *)
(* agreeing on all places but the last they agree on all.                   *)
LEMMA FoldsAgree ==
  ASSUME NEW s, IsSeq(s), NEW a, NEW b, a[{}] = b[{}], AgreeOnLast(s, a, b)
  PROVE  \A T \in SUBSET DOMAIN s : a[T] = b[T]
<1> DEFINE S == DOMAIN s
           Q == {T \in SUBSET S : a[T] = b[T]}
<1>1. Len(s) \in Nat /\ S = 1 .. Len(s)
  BY DEF IsSeq
<1>2. IsFiniteSet(S)
  BY <1>1, FS_Interval
<1>3. ASSUME NEW T \in SUBSET S, \A U \in SUBSET T : U # T => U \in Q
      PROVE  T \in Q
  <2>1. CASE T # {}
    <3>1. Max(T) \in T
      BY <1>1, <2>1, GreatestNumber
    <3>2. T \ {Max(T)} \in Q
      BY <1>3, <3>1
    <3> QED BY <2>1, <3>2 DEF AgreeOnLast
  <2> QED BY <2>1
<1>4. \A T \in SUBSET S : T \in Q
  <2> HIDE DEF Q, S
  <2> QED BY <1>2, <1>3, SubsetsInductive
<1> QED BY <1>4

LEMMA FoldRule ==
  ASSUME NEW Val, NEW E, NEW s, ListOf(s, E), NEW base \in Val,
         NEW step, StepOf(step, Val, E)
  PROVE  \E it : FoldedBy(it, Val, step, base, s)
<1> DEFINE S == DOMAIN s
           pick == [T \in SUBSET S |-> Max(T)]
           rule == [p \in S \X Val |-> step[<<p[2], s[p[1]]>>]]
<1>1. Len(s) \in Nat /\ S = 1 .. Len(s) /\ \A i \in S : s[i] \in E
  BY DEF ListOf
<1>2. IsFiniteSet(S)
  BY <1>1, FS_Interval
<1>3. \A T \in SUBSET S : T # {} => pick[T] \in T
  BY <1>1, GreatestNumber
<1>4. \A x \in S, v \in Val : rule[<<x, v>>] \in Val
  BY <1>1 DEF StepOf
<1>5. PICK it : Follows(it, S, base, rule, pick)
  <2> HIDE DEF S, pick, rule
  <2> QED BY <1>2, <1>3, RecursionExists
<1>6. \A T \in SUBSET S : it[T] \in Val
  <2> HIDE DEF S, pick, rule
  <2>1. Keeps(rule, S, Val)
    BY <1>4 DEF Keeps
  <2> QED BY <1>2, <1>3, <1>5, <2>1, RecursionType
<1>7. \A T \in SUBSET S :
        it[T] = IF T = {} THEN base ELSE step[<<it[T \ {Max(T)}], s[Max(T)]>>]
  <2> SUFFICES ASSUME NEW T \in SUBSET S
               PROVE  it[T] = IF T = {} THEN base
                              ELSE step[<<it[T \ {Max(T)}], s[Max(T)]>>]
    OBVIOUS
  <2>1. it[T] = IF T = {} THEN base ELSE rule[<<pick[T], it[T \ {pick[T]}]>>]
    <3> HIDE DEF pick, rule
    <3> QED BY <1>5 DEF Follows
  <2>2. pick[T] = Max(T)
    OBVIOUS
  <2>3. CASE T # {}
    <3>1. Max(T) \in S /\ it[T \ {Max(T)}] \in Val
      BY <1>3, <1>6, <2>2, <2>3
    <3> DEFINE m == Max(T)
               v == it[T \ {m}]
    <3>2. rule[<<m, v>>] = step[<<v, s[m]>>]
      <4> HIDE DEF m, v
      <4> QED BY <3>1 DEF m, v
    <3> HIDE DEF pick, rule
    <3> QED BY <2>1, <2>2, <2>3, <3>2
  <2>4. CASE T = {}
    BY <2>1, <2>4
  <2> QED BY <2>3, <2>4
<1>8. FoldsOver(it, step, base, s)
  <2>1. it = [T \in SUBSET S |-> it[T]]
    BY <1>5 DEF Follows
  <2> HIDE DEF pick, rule
  <2> QED BY <2>1, <1>7 DEF FoldsOver
<1>9. PICK g : FoldsOver(g, step, base, s) /\ Fold(step, base, s) = g[DOMAIN s]
  <2>1. \E g : g = [T \in SUBSET DOMAIN s |->
                IF T = {} THEN base ELSE step[<<g[T \ {Max(T)}], s[Max(T)]>>]]
    BY <1>8 DEF FoldsOver
  <2> HIDE DEF S, pick, rule
  <2> QED BY <2>1 DEF Fold, FoldLeft, MapThenFoldSet, FoldsOver
<1>10. it[DOMAIN s] = g[DOMAIN s]
  <2>1. it[{}] = g[{}]
    BY <1>8, <1>9 DEF FoldsOver
  <2>2. ASSUME NEW T \in SUBSET DOMAIN s, T # {}, it[T \ {Max(T)}] = g[T \ {Max(T)}]
        PROVE  it[T] = g[T]
    BY <1>8, <1>9, <2>2 DEF FoldsOver
  <2>3. AgreeOnLast(s, it, g) /\ IsSeq(s)
    BY <1>1, <2>2 DEF AgreeOnLast, IsSeq
  <2> HIDE DEF S, pick, rule
  <2>4. \A T \in SUBSET DOMAIN s : it[T] = g[T]
    BY <2>1, <2>3, FoldsAgree
  <2> QED BY <2>4
<1> QED BY <1>6, <1>8, <1>9, <1>10 DEF FoldedBy

(* A fold over no element, over one more, and what it is always one of.      *)
LEMMA FoldEmpty == ASSUME NEW base, NEW step PROVE Fold(step, base, <<>>) = base
<1> DEFINE S == DOMAIN <<>>
<1>1. S = {}
  OBVIOUS
<1>2. \E g : g = [T \in SUBSET S |->
                IF T = {} THEN base ELSE step[<<g[T \ {Max(T)}], <<>>[Max(T)]>>]]
  <2>1. [T \in SUBSET S |-> base] = [T \in SUBSET S |->
           IF T = {} THEN base
           ELSE step[<<[U \in SUBSET S |-> base][T \ {Max(T)}], <<>>[Max(T)]>>]]
    BY <1>1
  <2> QED BY <2>1
<1>3. \E g : /\ g = [T \in SUBSET S |->
                IF T = {} THEN base ELSE step[<<g[T \ {Max(T)}], <<>>[Max(T)]>>]]
             /\ Fold(step, base, <<>>) = g[S]
  BY <1>2 DEF Fold, FoldLeft, MapThenFoldSet
<1> QED BY <1>1, <1>3

LEMMA FoldAppend ==
  ASSUME NEW Val, NEW E, NEW s, ListOf(s, E), NEW x \in E, NEW base \in Val,
         NEW step, StepOf(step, Val, E)
  PROVE  /\ Fold(step, base, Append(s, x)) = step[<<Fold(step, base, s), x>>]
         /\ Fold(step, base, s) \in Val
<1> DEFINE q == Append(s, x)
           n == Len(s)
<1>1. /\ n \in Nat /\ DOMAIN s = 1 .. n /\ q \in Seq(E)
      /\ DOMAIN q = 1 .. (n + 1) /\ q[n + 1] = x /\ \A i \in 1 .. n : q[i] = s[i]
  BY DEF ListOf
<1>2. PICK a : FoldedBy(a, Val, step, base, s)
  BY FoldRule
<1>3. PICK b : FoldedBy(b, Val, step, base, q)
  <2>1. ListOf(q, E)
    BY <1>1 DEF ListOf
  <2> HIDE DEF q
  <2> QED BY <2>1, FoldRule
<1> HIDE DEF q
<1> USE DEF FoldedBy
<1>4. \A T \in SUBSET DOMAIN s : a[T] = b[T]
  <2>1. a[{}] = b[{}]
    BY <1>2, <1>3 DEF FoldsOver
  <2>2. ASSUME NEW T \in SUBSET DOMAIN s, T # {}, a[T \ {Max(T)}] = b[T \ {Max(T)}]
        PROVE  a[T] = b[T]
    <3>1. Max(T) \in T /\ T \in SUBSET DOMAIN q
      <4>1. T \in SUBSET (1 .. n) /\ n \in Nat
        BY <1>1
      <4>2. Max(T) \in T
        BY <2>2, <4>1, GreatestNumber
      <4> QED BY <1>1, <4>1, <4>2
    <3>2. s[Max(T)] = q[Max(T)]
      BY <1>1, <3>1
    <3>3. /\ a[T] = step[<<a[T \ {Max(T)}], s[Max(T)]>>]
          /\ b[T] = step[<<b[T \ {Max(T)}], q[Max(T)]>>]
      BY <1>2, <1>3, <2>2, <3>1 DEF FoldsOver
    <3> QED BY <2>2, <3>2, <3>3
  <2>3. AgreeOnLast(s, a, b) /\ IsSeq(s)
    BY <1>1, <2>2 DEF AgreeOnLast, IsSeq
  <2> QED BY <2>1, <2>3, FoldsAgree
<1>5. Max(1 .. (n + 1)) = n + 1
  <2>1. n + 1 \in Nat /\ (1 .. (n + 1)) \in SUBSET (1 .. (n + 1)) /\ n + 1 \in 1 .. (n + 1)
    BY <1>1
  <2>2. Max(1 .. (n + 1)) \in 1 .. (n + 1) /\ \A k \in 1 .. (n + 1) : k <= Max(1 .. (n + 1))
    BY <2>1, GreatestNumber
  <2> QED BY <1>1, <2>1, <2>2
<1>6. (1 .. (n + 1)) \ {n + 1} = 1 .. n /\ 1 .. (n + 1) # {}
  BY <1>1
<1>7. b[1 .. (n + 1)] = step[<<b[1 .. n], x>>]
  <2> DEFINE T == 1 .. (n + 1)
  <2>1. b[T] = step[<<b[T \ {Max(T)}], q[Max(T)]>>]
    <3>1. T \in SUBSET DOMAIN q /\ T # {}
      BY <1>1, <1>6
    <3> HIDE DEF T
    <3> QED BY <1>3, <3>1 DEF FoldsOver
  <2> QED BY <1>1, <1>5, <1>6, <2>1
<1>8. b[1 .. n] = Fold(step, base, s) /\ a[1 .. n] \in Val
  <2>1. DOMAIN s \in SUBSET DOMAIN s
    OBVIOUS
  <2> QED BY <1>1, <1>2, <1>4, <2>1
<1> QED BY <1>1, <1>2, <1>3, <1>7, <1>8 DEF q

-----------------------------------------------------------------------------
(* Keep.                                                                    *)

KeepStep(E, S) == [p \in Seq(E) \X E |-> IF p[2] \in S THEN Append(p[1], p[2]) ELSE p[1]]

LEMMA KeepStepType == ASSUME NEW E, NEW S PROVE StepOf(KeepStep(E, S), Seq(E), E)
BY DEF StepOf, KeepStep

LEMMA KeepIsFold ==
  ASSUME NEW E, NEW S, NEW s, ListOf(s, E)
  PROVE  Keep(s, S) = Fold(KeepStep(E, S), <<>>, s)
<1> DEFINE step == KeepStep(E, S)
<1>1. <<>> \in Seq(E) /\ StepOf(step, Seq(E), E)
  BY KeepStepType
<1>2. PICK a : FoldedBy(a, Seq(E), step, <<>>, s)
  <2> HIDE DEF step
  <2> DEFINE Val == Seq(E)
             none == <<>>
  <2>1. none \in Val /\ StepOf(step, Val, E)
    BY <1>1
  <2> HIDE DEF Val, none
  <2>2. \E a : FoldedBy(a, Val, step, none, s)
    BY <2>1, FoldRule
  <2> QED BY <2>2 DEF Val, none
<1>3. Len(s) \in Nat /\ DOMAIN s = 1 .. Len(s) /\ \A i \in DOMAIN s : s[i] \in E
  BY DEF ListOf
<1>4. ASSUME NEW T \in SUBSET DOMAIN s, T # {}
      PROVE  a[T] = IF s[Max(T)] \in S THEN Append(a[T \ {Max(T)}], s[Max(T)])
                    ELSE a[T \ {Max(T)}]
  <2>1. Max(T) \in DOMAIN s
    BY <1>3, <1>4, GreatestNumber
  <2>2. a[T] = step[<<a[T \ {Max(T)}], s[Max(T)]>>]
    <3> HIDE DEF step
    <3> QED BY <1>2, <1>4 DEF FoldedBy, FoldsOver
  <2>3. a[T \ {Max(T)}] \in Seq(E) /\ s[Max(T)] \in E
    BY <1>2, <1>3, <2>1 DEF FoldedBy
  <2> QED BY <2>2, <2>3 DEF KeepStep
<1>5. a = [T \in SUBSET DOMAIN s |->
             IF T = {} THEN <<>>
             ELSE IF s[Max(T)] \in S THEN Append(a[T \ {Max(T)}], s[Max(T)])
                  ELSE a[T \ {Max(T)}]]
  <2>1. a[{}] = <<>> /\ a = [T \in SUBSET DOMAIN s |-> a[T]]
    BY <1>2 DEF FoldedBy, FoldsOver
  <2> HIDE DEF step
  <2> QED BY <1>4, <2>1
<1>6. PICK b : /\ b = [T \in SUBSET DOMAIN s |->
                       IF T = {} THEN <<>>
                       ELSE IF s[Max(T)] \in S THEN Append(b[T \ {Max(T)}], s[Max(T)])
                            ELSE b[T \ {Max(T)}]]
               /\ Keep(s, S) = b[DOMAIN s]
  <2> HIDE DEF step
  <2>1. \E b : b = [T \in SUBSET DOMAIN s |->
                       IF T = {} THEN <<>>
                       ELSE IF s[Max(T)] \in S THEN Append(b[T \ {Max(T)}], s[Max(T)])
                            ELSE b[T \ {Max(T)}]]
    BY <1>5
  <2> QED BY <2>1 DEF Keep, FoldLeft, MapThenFoldSet
<1>7. a[{}] = b[{}] /\ AgreeOnLast(s, a, b) /\ IsSeq(s)
  BY <1>3, <1>5, <1>6 DEF AgreeOnLast, IsSeq
<1>8. \A T \in SUBSET DOMAIN s : a[T] = b[T]
  BY <1>7, FoldsAgree
<1> QED BY <1>2, <1>6, <1>8 DEF FoldedBy

LEMMA KeepAppend ==
  ASSUME NEW E, NEW S, NEW s, ListOf(s, E), NEW x \in E
  PROVE  /\ Keep(s, S) \in Seq(E)
         /\ Keep(Append(s, x), S) = IF x \in S THEN Append(Keep(s, S), x) ELSE Keep(s, S)
<1> DEFINE step == KeepStep(E, S)
           Val == Seq(E)
           none == <<>>
           q == Append(s, x)
<1>1. none \in Val /\ StepOf(step, Val, E) /\ ListOf(q, E)
  BY KeepStepType DEF ListOf
<1>2. Keep(s, S) = Fold(step, none, s) /\ Keep(q, S) = Fold(step, none, q)
  <2> HIDE DEF q
  <2> QED BY <1>1, KeepIsFold
<1>3. Fold(step, none, q) = step[<<Fold(step, none, s), x>>] /\ Fold(step, none, s) \in Val
  <2> HIDE DEF step, Val, none
  <2> QED BY <1>1, FoldAppend
<1>4. ASSUME NEW v \in Val
      PROVE  step[<<v, x>>] = IF x \in S THEN Append(v, x) ELSE v
  BY DEF KeepStep
<1> HIDE DEF step, Val
<1> QED BY <1>2, <1>3, <1>4 DEF Val

LEMMA KeepEmpty == ASSUME NEW S PROVE Keep(<<>>, S) = <<>>
<1> DEFINE s == <<>>
           E == {}
           step == KeepStep(E, S)
<1>1. ListOf(s, E)
  BY DEF ListOf
<1>2. Keep(s, S) = Fold(step, <<>>, s)
  <2> HIDE DEF s, E
  <2> QED BY <1>1, KeepIsFold
<1> HIDE DEF step
<1> QED BY <1>2, FoldEmpty

-----------------------------------------------------------------------------
(* The first n elements of a sequence.                                      *)

Upto(s, n) == SubSeq(s, 1, n)

LEMMA UptoFacts ==
  ASSUME NEW E, NEW s, ListOf(s, E), NEW n \in 0 .. Len(s)
  PROVE  /\ Len(s) \in Nat
         /\ ListOf(Upto(s, n), E) /\ Len(Upto(s, n)) = n
         /\ Upto(s, 0) = <<>> /\ Upto(s, Len(s)) = s
         /\ \A i \in 1 .. n : Upto(s, n)[i] = s[i]
<1>1. Len(s) \in Nat /\ \A i \in 1 .. Len(s) : s[i] \in E
  BY DEF ListOf
<1>2. /\ SubSeq(s, 1, n) \in Seq(E) /\ Len(SubSeq(s, 1, n)) = n
      /\ \A i \in 1 .. n : SubSeq(s, 1, n)[i] = s[i]
  <2>1. \A i \in 1 .. n : s[i] \in E
    BY <1>1
  <2>2. /\ SubSeq(s, 1, n) \in Seq(E)
        /\ Len(SubSeq(s, 1, n)) = IF 1 <= n THEN n - 1 + 1 ELSE 0
        /\ \A i \in 1 .. n - 1 + 1 : SubSeq(s, 1, n)[i] = s[1 + i - 1]
    BY <1>1, <2>1, SubSeqProperties
  <2> QED BY <1>1, <2>2
<1>3. SubSeq(s, 1, 0) = <<>>
  BY SubSeqEmpty
<1>4. SubSeq(s, 1, Len(s)) = s
  BY SubSeqFull DEF ListOf
<1> QED BY <1>1, <1>2, <1>3, <1>4 DEF Upto, ListOf

LEMMA UptoGrows ==
  ASSUME NEW E, NEW s, ListOf(s, E), NEW n \in 0 .. Len(s), n < Len(s)
  PROVE  s[n + 1] \in E /\ Upto(s, n + 1) = Append(Upto(s, n), s[n + 1])
<1>1. Len(s) \in Nat /\ s \in Seq(E)
  BY DEF ListOf
<1>2. n + 1 \in 1 .. Len(s) /\ n + 1 - 1 = n /\ n + 1 \in 0 .. Len(s)
  BY <1>1
<1>3. s[n + 1] \in E
  BY <1>1, <1>2
<1>4. /\ Upto(s, n + 1) \in Seq(E) /\ Len(Upto(s, n + 1)) = n + 1
      /\ \A i \in 1 .. n + 1 : Upto(s, n + 1)[i] = s[i]
  BY <1>2, UptoFacts DEF ListOf
<1>5. /\ Upto(s, n) \in Seq(E) /\ Len(Upto(s, n)) = n
      /\ \A i \in 1 .. n : Upto(s, n)[i] = s[i]
  BY UptoFacts DEF ListOf
<1> DEFINE a == Upto(s, n + 1)
           u == Upto(s, n)
           b == Append(u, s[n + 1])
<1> HIDE DEF a, u
<1>6. /\ b \in Seq(E) /\ Len(b) = n + 1 /\ b[n + 1] = s[n + 1]
      /\ \A i \in 1 .. n : b[i] = u[i]
  BY <1>3, <1>5, AppendProperties DEF u
<1> HIDE DEF b
<1>7. \A i \in 1 .. n + 1 : a[i] = b[i]
  BY <1>4, <1>5, <1>6 DEF a, u
<1>8. a = b
  BY <1>4, <1>6, <1>7, SeqEqual DEF a
<1> QED BY <1>3, <1>8 DEF a, b, u

(* One more element, one more step.                                         *)
LEMMA FoldUpto ==
  ASSUME NEW Val, NEW E, NEW s, ListOf(s, E), NEW base \in Val,
         NEW step, StepOf(step, Val, E), NEW n \in 0 .. Len(s)
  PROVE  /\ Fold(step, base, Upto(s, n)) \in Val
         /\ n = 0 => Fold(step, base, Upto(s, n)) = base
         /\ n < Len(s) => Fold(step, base, Upto(s, n + 1))
                            = step[<<Fold(step, base, Upto(s, n)), s[n + 1]>>]
<1>1. ListOf(Upto(s, n), E) /\ Upto(s, 0) = <<>> /\ Len(s) \in Nat
  BY UptoFacts
<1>2. CASE n < Len(s)
  <2>1. s[n + 1] \in E /\ Upto(s, n + 1) = Append(Upto(s, n), s[n + 1])
    BY <1>2, UptoGrows
  <2> DEFINE u == Upto(s, n)
             x == s[n + 1]
  <2>2. ListOf(u, E) /\ x \in E
    BY <1>1, <2>1
  <2> HIDE DEF u, x
  <2>3. /\ Fold(step, base, Append(u, x)) = step[<<Fold(step, base, u), x>>]
        /\ Fold(step, base, u) \in Val
    BY <2>2, FoldAppend
  <2>4. n = 0 => Fold(step, base, u) = base
    BY <1>1, FoldEmpty DEF u
  <2> QED BY <2>1, <2>3, <2>4 DEF u, x
<1>3. CASE n = Len(s)
  <2>1. CASE n = 0
    BY <1>1, <1>3, <2>1, FoldEmpty
  <2>2. CASE n # 0
    <3> DEFINE m == n - 1
               u == Upto(s, m)
               x == s[n]
    <3>1. m \in 0 .. Len(s) /\ m < Len(s) /\ m + 1 = n
      BY <1>1, <1>3, <2>2
    <3>2. ListOf(u, E) /\ x \in E /\ Upto(s, n) = Append(u, x)
      <4> HIDE DEF m
      <4> QED BY <3>1, UptoFacts, UptoGrows
    <3> HIDE DEF m, u, x
    <3>3. /\ Fold(step, base, Append(u, x)) = step[<<Fold(step, base, u), x>>]
          /\ Fold(step, base, u) \in Val
      BY <3>2, FoldAppend
    <3>4. step[<<Fold(step, base, u), x>>] \in Val
      BY <3>2, <3>3 DEF StepOf
    <3> QED BY <1>3, <2>2, <3>2, <3>3, <3>4
  <2> QED BY <2>1, <2>2
<1> QED BY <1>1, <1>2, <1>3

(* A fold with what it has after each element.                           *)
RunningFold(m, step, base, s, Val) ==
  /\ m[0] = base /\ m[Len(s)] = Fold(step, base, s)
  /\ \A i \in 0 .. Len(s) :
       m[i] \in Val /\ (i < Len(s) => m[i + 1] = step[<<m[i], s[i + 1]>>])

(* Every fold over a list has its running values.                           *)
LEMMA FoldCounts ==
  ASSUME NEW Val, NEW E, NEW s, ListOf(s, E), NEW base \in Val,
         NEW step, StepOf(step, Val, E)
  PROVE  \E m : RunningFold(m, step, base, s, Val)
<1>0. ASSUME NEW n \in 0 .. Len(s)
      PROVE  Fold(step, base, Upto(s, n)) \in Val
  BY Zenon, FoldUpto
<1>8. ASSUME NEW n \in 0 .. Len(s), n < Len(s)
       PROVE  Fold(step, base, Upto(s, n + 1))
                = step[<<Fold(step, base, Upto(s, n)), s[n + 1]>>]
  BY <1>8, FoldUpto
<1> DEFINE m == [i \in 0 .. Len(s) |-> Fold(step, base, Upto(s, i))]
<1>1. Len(s) \in Nat
  BY DEF ListOf
<1>2. ASSUME NEW i \in 0 .. Len(s)
      PROVE  m[i] \in Val /\ (i < Len(s) => m[i + 1] = step[<<m[i], s[i + 1]>>])
  <2>1. /\ Fold(step, base, Upto(s, i)) \in Val
        /\ i < Len(s) => Fold(step, base, Upto(s, i + 1))
                            = step[<<Fold(step, base, Upto(s, i)), s[i + 1]>>]
    BY <1>0, <1>8
  <2>2. i < Len(s) => i + 1 \in 0 .. Len(s)
    BY <1>1
  <2> QED BY <2>1, <2>2
<1>3. 0 \in 0 .. Len(s) /\ Len(s) \in 0 .. Len(s)
  BY <1>1
<1>4. Upto(s, Len(s)) = s /\ Upto(s, 0) = <<>>
  BY <1>3, UptoFacts
<1>5. Fold(step, base, <<>>) = base
  BY FoldEmpty
<1>6. m[0] = base /\ m[Len(s)] = Fold(step, base, s)
  BY <1>3, <1>4, <1>5
<1> HIDE DEF m
<1>7. RunningFold(m, step, base, s, Val)
  BY <1>2, <1>6 DEF RunningFold
<1> QED BY <1>7

(* A value that every element leaves alone is the value of the whole.       *)
LEMMA FoldFixed ==
  ASSUME NEW Val, NEW E, NEW s, ListOf(s, E), NEW base \in Val,
         NEW step, StepOf(step, Val, E), NEW n \in 0 .. Len(s),
         \A x \in E : step[<<Fold(step, base, Upto(s, n)), x>>]
                        = Fold(step, base, Upto(s, n))
  PROVE  Fold(step, base, s) = Fold(step, base, Upto(s, n))
<1> DEFINE F(m) == Fold(step, base, Upto(s, m))
           Fits(m) == m \in 0 .. Len(s) => F(m) = F(n)
           Q == {d \in Nat : Fits(n + d)}
<1>1. Len(s) \in Nat /\ n \in Nat /\ Upto(s, Len(s)) = s
  BY UptoFacts
<1>2. 0 \in Q
  BY <1>1
<1>3. ASSUME NEW d \in Nat, d \in Q PROVE d + 1 \in Q
  <2> DEFINE m == n + d
  <2>1. SUFFICES ASSUME m + 1 \in 0 .. Len(s) PROVE F(m + 1) = F(n)
    BY <1>1
  <2>2. m \in 0 .. Len(s) /\ m < Len(s) /\ F(m) = F(n)
    BY <1>1, <1>3, <2>1
  <2> HIDE DEF m
  <2>3. F(m + 1) = step[<<F(m), s[m + 1]>>]
    <3>1. m \in 0 .. Len(s) /\ m < Len(s)
      BY <2>2
    <3> HIDE DEF F, Q
    <3>2. Fold(step, base, Upto(s, m + 1)) = step[<<Fold(step, base, Upto(s, m)), s[m + 1]>>]
      BY <3>1, FoldUpto
    <3> QED BY <3>2 DEF F
  <2>4. s[m + 1] \in E
    BY <2>2, UptoGrows
  <2> QED BY <2>2, <2>3, <2>4
<1>4. \A d \in Nat : d \in Q
  <2> HIDE DEF Q
  <2> QED BY <1>2, <1>3, NumbersInductive
<1>5. Len(s) - n \in Nat /\ n + (Len(s) - n) = Len(s) /\ Len(s) \in 0 .. Len(s)
  BY <1>1
<1>6. Fits(n + (Len(s) - n))
  BY <1>4, <1>5
<1> HIDE DEF F
<1>7. F(Len(s)) = F(n)
  BY <1>5, <1>6
<1> QED BY <1>1, <1>7 DEF F

(* What is kept of a beginning is a beginning of what is kept.              *)
LEMMA KeepPrefix ==
  ASSUME NEW E, NEW S, NEW s, ListOf(s, E), NEW n \in 0 .. Len(s)
  PROVE  IsPrefix(Keep(Upto(s, n), S), Keep(s, S))
<1> DEFINE K(m) == Keep(Upto(s, m), S)
           Fits(m) == m \in 0 .. Len(s) => IsPrefix(K(n), K(m))
           Q == {d \in Nat : Fits(n + d)}
<1>1. Len(s) \in Nat /\ n \in Nat
  BY UptoFacts
<1>2. \A m \in 0 .. Len(s) : K(m) \in Seq(E)
  <2> SUFFICES ASSUME NEW m \in 0 .. Len(s) PROVE K(m) \in Seq(E)
    OBVIOUS
  <2>1. ListOf(Upto(s, m), E)
    BY UptoFacts
  <2>2. CASE m = 0
    <3>1. Upto(s, m) = <<>>
      BY <2>2, UptoFacts
    <3> QED BY <3>1, KeepEmpty, EmptySeq
  <2>3. CASE m # 0
    <3>1. m - 1 \in 0 .. Len(s) /\ m - 1 < Len(s) /\ m - 1 + 1 = m
      BY <1>1, <2>3
    <3>2. s[m] \in E
      BY <3>1, UptoGrows
    <3> QED BY <2>1, <3>2, KeepAppend
  <2> QED BY <2>2, <2>3
<1>3. 0 \in Q
  <2>1. K(n) \in Seq(E)
    BY <1>2
  <2> HIDE DEF K
  <2> QED BY <1>1, <2>1 DEF IsPrefix
<1>4. ASSUME NEW d \in Nat, d \in Q PROVE d + 1 \in Q
  <2> DEFINE m == n + d
  <2>1. SUFFICES ASSUME m + 1 \in 0 .. Len(s) PROVE IsPrefix(K(n), K(m + 1))
    BY <1>1
  <2>2. m \in 0 .. Len(s) /\ m < Len(s) /\ IsPrefix(K(n), K(m))
    BY <1>1, <1>4, <2>1
  <2>3. s[m + 1] \in E /\ Upto(s, m + 1) = Append(Upto(s, m), s[m + 1])
        /\ ListOf(Upto(s, m), E)
    <3> HIDE DEF m
    <3> QED BY <2>2, UptoGrows, UptoFacts
  <2>4. K(m + 1) = K(m) \/ K(m + 1) = Append(K(m), s[m + 1])
    <3> DEFINE u == Upto(s, m)
               x == s[m + 1]
    <3>1. ListOf(u, E) /\ x \in E /\ Upto(s, m + 1) = Append(u, x)
      BY <2>3
    <3>2. Keep(Append(u, x), S) = IF x \in S THEN Append(Keep(u, S), x) ELSE Keep(u, S)
      <4>1. ListOf(u, E) /\ x \in E
        BY <3>1
      <4> HIDE DEF u, x, K, Q, Fits, m
      <4> QED BY <4>1, KeepAppend
    <3> QED BY <3>1, <3>2 DEF u, x
  <2>5. K(n) \in Seq(E) /\ K(m) \in Seq(E)
    BY <1>2, <2>2
  <2> HIDE DEF K, m
  <2>6. ASSUME NEW a \in Seq(E), NEW b \in Seq(E), NEW x \in E, IsPrefix(a, b)
        PROVE  IsPrefix(a, Append(b, x))
    <3>1. Len(a) \in Nat /\ Len(b) \in Nat /\ Len(a) <= Len(b)
          /\ Len(Append(b, x)) = Len(b) + 1
      BY <2>6 DEF IsPrefix
    <3>2. SubSeq(Append(b, x), 1, Len(a)) = SubSeq(b, 1, Len(a))
      BY <3>1
    <3> QED BY <2>6, <3>1, <3>2 DEF IsPrefix
  <2> QED BY <2>2, <2>3, <2>4, <2>5, <2>6
<1>5. \A d \in Nat : d \in Q
  <2> HIDE DEF Q
  <2> QED BY <1>3, <1>4, NumbersInductive
<1>6. IsPrefix(K(n), K(Len(s)))
  <2>1. Len(s) - n \in Nat /\ n + (Len(s) - n) = Len(s) /\ Len(s) \in 0 .. Len(s)
    BY <1>1
  <2>2. Fits(n + (Len(s) - n))
    BY <1>5, <2>1
  <2> HIDE DEF K
  <2> QED BY <2>1, <2>2
<1>7. Upto(s, Len(s)) = s
  BY UptoFacts
<1> QED BY <1>6, <1>7

-----------------------------------------------------------------------------
(* Lists, element by element.                                               *)

(* A set that has the empty list and every longer list when it has the      *)
(* shorter one has them all.                                                *)
LEMMA ListsInductive ==
  ASSUME NEW E, NEW Q, <<>> \in Q,
         \A u \in Seq(E), x \in E : u \in Q => Append(u, x) \in Q,
         NEW s, ListOf(s, E)
  PROVE  s \in Q
<1> DEFINE Fits == {n \in Nat : n <= Len(s) => Upto(s, n) \in Q}
<1>1. Len(s) \in Nat /\ Upto(s, 0) = <<>> /\ Upto(s, Len(s)) = s
  <2>1. Len(s) \in Nat
    BY DEF ListOf
  <2>2. Len(s) \in 0 .. Len(s)
    BY <2>1
  <2> DEFINE n == Len(s)
  <2> HIDE DEF n
  <2>3. n \in 0 .. Len(s)
    BY <2>2 DEF n
  <2> QED BY <2>1, <2>3, UptoFacts
<1>2. 0 \in Fits
  BY <1>1
<1>3. ASSUME NEW n \in Nat, n \in Fits PROVE n + 1 \in Fits
  <2>1. SUFFICES ASSUME n + 1 <= Len(s) PROVE Upto(s, n + 1) \in Q
    OBVIOUS
  <2>2. n \in 0 .. Len(s) /\ n < Len(s) /\ Upto(s, n) \in Q
    BY <1>1, <1>3, <2>1
  <2>3. Upto(s, n) \in Seq(E)
    BY <2>2, UptoFacts DEF ListOf
  <2>4. s[n + 1] \in E /\ Upto(s, n + 1) = Append(Upto(s, n), s[n + 1])
    BY <2>2, UptoGrows
  <2> QED BY <2>2, <2>3, <2>4
<1>4. \A n \in Nat : n \in Fits
  <2> HIDE DEF Fits
  <2> QED BY <1>2, <1>3, NumbersInductive
<1> QED BY <1>1, <1>4

LEMMA RangeAppend ==
  ASSUME NEW E, NEW u \in Seq(E), NEW x \in E
  PROVE  Range(Append(u, x)) = Range(u) \cup {x}
<1> DEFINE q == Append(u, x)
<1>1. /\ Len(u) \in Nat /\ DOMAIN u = 1 .. Len(u) /\ DOMAIN q = 1 .. (Len(u) + 1)
      /\ q[Len(u) + 1] = x /\ \A i \in 1 .. Len(u) : q[i] = u[i]
  OBVIOUS
<1> HIDE DEF q
<1>2. ASSUME NEW y \in Range(q) PROVE y \in Range(u) \cup {x}
  <2>1. PICK i \in DOMAIN q : y = q[i]
    BY <1>2 DEF Range
  <2>2. i \in 1 .. Len(u) \/ i = Len(u) + 1
    BY <1>1, <2>1
  <2> QED BY <1>1, <2>1, <2>2 DEF Range
<1>3. ASSUME NEW y \in Range(u) \cup {x} PROVE y \in Range(q)
  <2>1. Len(u) + 1 \in DOMAIN q /\ \A i \in DOMAIN u : i \in DOMAIN q
    BY <1>1
  <2> QED BY <1>1, <1>3, <2>1 DEF Range
<1> QED BY <1>2, <1>3 DEF q

(* What is kept is what there is and is wanted.                             *)
LEMMA KeepRange ==
  ASSUME NEW E, NEW S, NEW s, ListOf(s, E)
  PROVE  Keep(s, S) \in Seq(E) /\ Range(Keep(s, S)) = Range(s) \cap S
<1> DEFINE Q == {u \in Seq(E) : Keep(u, S) \in Seq(E) /\ Range(Keep(u, S)) = Range(u) \cap S}
<1>1. <<>> \in Q
  <2>1. Keep(<<>>, S) = <<>> /\ <<>> \in Seq(E)
    BY KeepEmpty
  <2>2. Range(<<>>) = {}
    BY DEF Range
  <2> QED BY <2>1, <2>2
<1>2. ASSUME NEW u \in Seq(E), NEW x \in E, u \in Q PROVE Append(u, x) \in Q
  <2> DEFINE k == Keep(u, S)
             q == Append(u, x)
  <2>1. k \in Seq(E) /\ Range(k) = Range(u) \cap S
    BY <1>2
  <2>2. Keep(q, S) = IF x \in S THEN Append(k, x) ELSE k
    BY KeepAppend DEF ListOf
  <2>3. q \in Seq(E) /\ Append(k, x) \in Seq(E)
    BY <2>1
  <2> HIDE DEF k, q
  <2>4. Range(q) = Range(u) \cup {x} /\ Range(Append(k, x)) = Range(k) \cup {x}
    BY <2>1, RangeAppend DEF q
  <2>5. Keep(q, S) \in Seq(E) /\ Range(Keep(q, S)) = Range(q) \cap S
    BY <2>1, <2>2, <2>3, <2>4
  <2> QED BY <2>3, <2>5 DEF q
<1>3. s \in Q
  <2> HIDE DEF Q
  <2> QED BY <1>1, <1>2, ListsInductive
<1> QED BY <1>3

(* Nothing goes when everything is wanted.                                  *)
LEMMA KeepAll ==
  ASSUME NEW E, NEW S, NEW s, ListOf(s, E), Range(s) \subseteq S
  PROVE  Keep(s, S) = s
<1> DEFINE Q == {u \in Seq(E) : Range(u) \subseteq S => Keep(u, S) = u}
<1>1. <<>> \in Q
  BY KeepEmpty
<1>2. ASSUME NEW u \in Seq(E), NEW x \in E, u \in Q PROVE Append(u, x) \in Q
  <2> DEFINE q == Append(u, x)
  <2>1. q \in Seq(E) /\ Range(q) = Range(u) \cup {x}
    BY RangeAppend
  <2>2. Keep(q, S) = IF x \in S THEN Append(Keep(u, S), x) ELSE Keep(u, S)
    BY KeepAppend DEF ListOf
  <2>3. Range(q) \subseteq S => Keep(q, S) = q
    <3> HIDE DEF q
    <3>1. ASSUME Range(q) \subseteq S PROVE Keep(q, S) = Append(u, x)
      BY <1>2, <2>1, <2>2, <3>1
    <3> QED BY <3>1 DEF q
  <2> HIDE DEF q
  <2>4. q \in Q
    BY <2>1, <2>3
  <2> QED BY <2>4 DEF q
<1>3. s \in Q
  <2> HIDE DEF Q
  <2> QED BY <1>1, <1>2, ListsInductive
<1> QED BY <1>3 DEF ListOf

-----------------------------------------------------------------------------
(* Sets of numbers, and folds over sets.                                    *)

LEMMA LeastNumber ==
  ASSUME NEW T \in SUBSET Nat, T # {}
  PROVE  \E i \in T : \A j \in T : i <= j
<1>1. PICK n \in T : TRUE
  OBVIOUS
<1> DEFINE S == 0 .. n
           Below == {0 .. i : i \in T \cap S}
<1>2. IsFiniteSet(S) /\ Below \subseteq SUBSET S /\ 0 .. n \in Below
  <2>1. n \in Nat
    BY <1>1
  <2>2. IsFiniteSet(S)
    BY <2>1, FS_Interval
  <2>3. \A i \in T \cap S : (0 .. i) \subseteq S
    BY <2>1
  <2>4. n \in T \cap S
    BY <2>1
  <2> QED BY <2>2, <2>3, <2>4
<1>3. PICK B \in Below : \A U \in Below : U \subseteq B => U = B
  <2> HIDE DEF S, Below
  <2> QED BY <1>2, SmallestSubset
<1>4. PICK i \in T \cap S : B = 0 .. i
  BY <1>3
<1>5. ASSUME NEW j \in T PROVE i <= j
  <2>1. i \in Nat /\ j \in Nat /\ i <= n /\ n \in Nat
    BY <1>1, <1>4
  <2>2. CASE j < i
    <3>1. 0 .. j \in Below /\ (0 .. j) \subseteq B /\ i \in B /\ i \notin 0 .. j
      BY <1>4, <2>1, <2>2
    <3> QED BY <1>3, <3>1
  <2> QED BY <2>1, <2>2
<1> QED BY <1>4, <1>5

(* Two functions of the subsets of a finite set agree when they do on the   *)
(* empty one, and on each other one if they do without some element of it.  *)
LEMMA SetFoldsAgree ==
  ASSUME NEW S, IsFiniteSet(S), NEW a, NEW b, a[{}] = b[{}],
         \A T \in SUBSET S : T # {} => \E x \in T : a[T \ {x}] = b[T \ {x}] => a[T] = b[T]
  PROVE  a[S] = b[S]
<1> DEFINE Q == {T \in SUBSET S : a[T] = b[T]}
<1>1. ASSUME NEW T \in SUBSET S, \A U \in SUBSET T : U # T => U \in Q PROVE T \in Q
  <2>1. CASE T # {}
    <3>1. PICK x \in T : a[T \ {x}] = b[T \ {x}] => a[T] = b[T]
      BY <2>1
    <3>2. T \ {x} \in Q
      BY <1>1
    <3> QED BY <3>1, <3>2
  <2> QED BY <2>1
<1>2. \A T \in SUBSET S : T \in Q
  <2> HIDE DEF Q
  <2> QED BY <1>1, SubsetsInductive
<1> QED BY <1>2
=============================================================================
