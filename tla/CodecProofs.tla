---------------------------- MODULE CodecProofs ----------------------------
(***************************************************************************)
(* Theorems about Codec: every item is as long as announced but for the    *)
(* bright backgrounds, what is decoded is of its Rust type, no bytes have  *)
(* two meanings, a decoder's verdict stands, and what a terminal writes in *)
(* answer to a query is decoded to what it says.                           *)
(***************************************************************************)
EXTENDS Codec, FoldFacts

-----------------------------------------------------------------------------
(* Byte strings: sequences of anything.  Size is Len under a name of its    *)
(* own, for which the provers know only what SizeCat says.                  *)

IsList(s) == s \in Seq(Range(s))
Size(s)   == Len(s)

Adds == \A s, t : IsList(s) /\ IsList(t) =>
          /\ IsList(s \o t)
          /\ Size(s) \in Nat /\ Size(t) \in Nat /\ Size(s \o t) = Size(s) + Size(t)

Literals ==
  /\ IsList(<<>>) /\ Size(<<>>) = 0
  /\ \A x : IsList(<<x>>) /\ Size(<<x>>) = 1
  /\ \A x, y : IsList(<<x, y>>) /\ Size(<<x, y>>) = 2
  /\ \A x, y, z : IsList(<<x, y, z>>) /\ Size(<<x, y, z>>) = 3

(* Every sequence is a list. *)
LEMMA ListIn ==
  ASSUME NEW E, NEW s \in Seq(E)
  PROVE  IsList(s) /\ Len(s) \in Nat /\ Range(s) \subseteq E
BY DEF IsList, Range

(* A list whose elements are in E is a sequence of E. *)
LEMMA ListTyped ==
  ASSUME NEW s, IsList(s), NEW E, Range(s) \subseteq E
  PROVE  s \in Seq(E)
BY DEF IsList, Range

(* Two byte strings end to end are as long as both. *)
LEMMA SizeCat == Adds
<1> SUFFICES ASSUME NEW s, NEW t, IsList(s), IsList(t)
             PROVE  /\ IsList(s \o t)
                    /\ Len(s) \in Nat /\ Len(t) \in Nat /\ Len(s \o t) = Len(s) + Len(t)
  BY DEF Adds, Size
<1> DEFINE E == Range(s) \cup Range(t)
<1>1. s \in Seq(E) /\ t \in Seq(E)
  BY ListTyped
<1> HIDE DEF E
<1>2. s \o t \in Seq(E) /\ Len(s) \in Nat /\ Len(t) \in Nat /\ Len(s \o t) = Len(s) + Len(t)
  BY <1>1
<1> QED BY Zenon, <1>2, ListIn

(* A function on 1 .. n is a list of that size. *)
LEMMA ListMade ==
  ASSUME NEW n \in Nat, NEW f, f = [i \in 1 .. n |-> f[i]]
  PROVE  IsList(f) /\ Size(f) = n
BY DEF IsList, Size, Range

(* Short tuples. *)
LEMMA ListLiteral == Literals
BY DEF Literals, IsList, Size, Range

(* itoa3 and itoa5 write as many digits as dec_len_u8 and dec_len_u16     *)
(* announce.                                                              *)
LEMMA ItoaSize ==
  ASSUME NEW n \in Nat
  PROVE  IsList(Itoa(n)) /\ Size(Itoa(n)) = DecLen(n) /\ DecLen(n) \in 1 .. 5
<1>1. DecLen(n) \in 1 .. 5
  BY DEF DecLen
<1> DEFINE f == Itoa(n)
<1>2. f = [i \in 1 .. DecLen(n) |-> f[i]]
  BY <1>1 DEF Itoa
<1> HIDE DEF f
<1>3. IsList(f) /\ Size(f) = DecLen(n)
  BY <1>1, <1>2, ListMade
<1> QED BY <1>1, <1>3 DEF f

(* The introducers and the terminator are two bytes each. *)
LEMMA FrameSize ==
  /\ IsList(CSI) /\ Size(CSI) = 2
  /\ IsList(OSC) /\ Size(OSC) = 2
  /\ IsList(ST) /\ Size(ST) = 2
BY ListLiteral DEF CSI, OSC, ST, Literals

-----------------------------------------------------------------------------
(* Colours.  Wide is the one byte that Color::param_len forgets: see        *)
(* the run codec_length.                                                    *)

Wide(c) == IF c.tone = "bright" /\ c.n # 7 THEN 1 ELSE 0

(* The parameters of a colour are as long as Color::param_len says, but   *)
(* for the bright backgrounds.                                            *)
LEMMA ColorSize ==
  ASSUME NEW c \in Colors \ {NoColor}, NEW fg \in BOOLEAN
  PROVE  /\ IsList(ColorParams(c, fg))
         /\ ColorLen(c, fg) \in Nat \ {0} /\ Wide(c) \in {0, 1}
         /\ Size(ColorParams(c, fg)) = ColorLen(c, fg) + (IF fg THEN 0 ELSE Wide(c))
<1> DEFINE ext == IF fg THEN <<"3", "8">> ELSE <<"4", "8">>
<1>1. IsList(ext) /\ Size(ext) = 2
  BY ListLiteral DEF Literals
<1>2. \/ c \in [tone : {"basic", "bright"}, n : 0 .. 7]
      \/ c \in [tone : {"indexed"}, n : 0 .. 255]
      \/ c \in [tone : {"rgb"}, r : 0 .. 255, g : 0 .. 255, b : 0 .. 255]
  BY DEF Colors
<1>3. CASE c.tone = "basic" /\ c.n \in 0 .. 7
  <2> DEFINE k == (IF fg THEN 30 ELSE 40) + c.n
  <2>1. k \in 30 .. 47 /\ DecLen(k) = 2
    BY <1>3 DEF DecLen
  <2>2. ColorParams(c, fg) = Itoa(k) /\ ColorLen(c, fg) = 2 /\ Wide(c) = 0
    BY <1>3 DEF ColorParams, ColorLen, Wide
  <2> HIDE DEF k
  <2> QED BY <2>1, <2>2, ItoaSize
<1>4. CASE c.tone = "bright" /\ c.n \in 0 .. 7
  <2> DEFINE k == (IF fg THEN 90 ELSE 100) + c.n
  <2>1. k \in 90 .. 107 /\ DecLen(k) = (IF fg THEN 2 ELSE 3)
    BY <1>4 DEF DecLen
  <2>2. /\ ColorParams(c, fg) = Itoa(k)
        /\ ColorLen(c, fg) = IF c.n = 7 /\ ~fg THEN 3 ELSE 2
        /\ Wide(c) = IF c.n # 7 THEN 1 ELSE 0
    BY <1>4 DEF ColorParams, ColorLen, Wide
  <2> HIDE DEF k
  <2> QED BY <2>1, <2>2, ItoaSize
<1>5. CASE c.tone = "indexed" /\ c.n \in 0 .. 255
  <2> DEFINE i == Itoa(c.n)
             m == <<";", "5", ";">>
             d == DecLen(c.n)
  <2>1. ColorParams(c, fg) = ext \o m \o i /\ ColorLen(c, fg) = 5 + d /\ Wide(c) = 0
    BY Zenon, <1>5 DEF ColorParams, ColorLen, Wide
  <2>2. IsList(i) /\ Size(i) = d /\ d \in 1 .. 5
    BY <1>5, ItoaSize
  <2>3. IsList(m) /\ Size(m) = 3
    BY Zenon, ListLiteral DEF Literals
  <2> HIDE DEF i, m, d, ext
  <2>4. IsList(ext \o m \o i) /\ Size(ext \o m \o i) = 5 + d
    BY <1>1, <2>2, <2>3, SizeCat DEF Adds
  <2> QED BY <2>1, <2>2, <2>4
<1>6. CASE c.tone = "rgb" /\ c.r \in 0 .. 255 /\ c.g \in 0 .. 255 /\ c.b \in 0 .. 255
  <2> DEFINE i == Itoa(c.r)
             j == Itoa(c.g)
             k == Itoa(c.b)
             m == <<";", "2", ";">>
             p == <<";">>
  <2>1. /\ ColorParams(c, fg) = ext \o m \o i \o p \o j \o p \o k
        /\ ColorLen(c, fg) = 7 + DecLen(c.r) + DecLen(c.g) + DecLen(c.b)
        /\ Wide(c) = 0
    BY Zenon, <1>6 DEF ColorParams, ColorLen, Wide
  <2>2. /\ IsList(i) /\ Size(i) = DecLen(c.r) /\ DecLen(c.r) \in 1 .. 5
        /\ IsList(j) /\ Size(j) = DecLen(c.g) /\ DecLen(c.g) \in 1 .. 5
        /\ IsList(k) /\ Size(k) = DecLen(c.b) /\ DecLen(c.b) \in 1 .. 5
    BY <1>6, ItoaSize
  <2>3. IsList(m) /\ Size(m) = 3 /\ IsList(p) /\ Size(p) = 1
    BY Zenon, ListLiteral DEF Literals
  <2> DEFINE red == ext \o m \o i
             green == red \o p \o j
  <2> HIDE DEF i, j, k, m, p, ext
  <2>4. IsList(red) /\ Size(red) = 5 + DecLen(c.r)
    BY <1>1, <2>2, <2>3, SizeCat DEF Adds
  <2> HIDE DEF red
  <2>5. IsList(green) /\ Size(green) = 6 + DecLen(c.r) + DecLen(c.g)
    BY <2>2, <2>3, <2>4, SizeCat DEF Adds
  <2>6. ColorParams(c, fg) = green \o p \o k
    BY <2>1 DEF red
  <2> HIDE DEF green
  <2>7. IsList(green \o p \o k) /\ Size(green \o p \o k) = 7 + DecLen(c.r) + DecLen(c.g) + DecLen(c.b)
    BY <2>2, <2>3, <2>5, SizeCat DEF Adds
  <2>8. 7 + DecLen(c.r) + DecLen(c.g) + DecLen(c.b) \in Nat \ {0}
    BY <2>2
  <2> HIDE DEF k
  <2> QED BY <2>1, <2>6, <2>7, <2>8
<1> QED BY <1>2, <1>3, <1>4, <1>5, <1>6

-----------------------------------------------------------------------------
(* The folds of the encoders, one step at a time.                           *)

Sum(l) == FoldLeft(LAMBDA a, n : a + n, 0, l)
SumStep == [q \in Nat \X Nat |-> q[1] + q[2]]

(* Sums. *)
LEMMA SumIsFold ==
  ASSUME NEW s, ListOf(s, Nat)
  PROVE  Sum(s) = Fold(SumStep, 0, s)
<1> DEFINE step == SumStep
           base == 0
           Val == Nat
           E == Nat
<1>1. base \in Val /\ StepOf(step, Val, E)
  BY DEF StepOf, SumStep
<1>2. \E a : FoldedBy(a, Val, step, base, s)
  <2> HIDE DEF step, Val, base, E
  <2>1. ListOf(s, E)
    BY DEF E
  <2> QED BY <1>1, <2>1, FoldRule
<1>3. PICK a : FoldedBy(a, Val, step, base, s)
  BY <1>2
<1>4. Len(s) \in Nat /\ DOMAIN s = 1 .. Len(s) /\ \A i \in DOMAIN s : s[i] \in E
  BY DEF ListOf
<1>5. ASSUME NEW T \in SUBSET DOMAIN s, T # {}
      PROVE  a[T] = a[T \ {Max(T)}] + s[Max(T)]
  <2>1. Max(T) \in DOMAIN s
    BY Zenon, <1>4, <1>5, GreatestNumber
  <2>2. a[T] = step[<<a[T \ {Max(T)}], s[Max(T)]>>]
    <3> HIDE DEF step, base, Val
    <3> QED BY Zenon, <1>3, <1>5 DEF FoldedBy, FoldsOver
  <2>3. a[T \ {Max(T)}] \in Val /\ s[Max(T)] \in E
    <3> HIDE DEF step, base, Val, E
    <3> QED BY <1>3, <1>4, <2>1 DEF FoldedBy
  <2> QED BY <2>2, <2>3 DEF SumStep
<1>6. a = [T \in SUBSET DOMAIN s |->
             IF T = {} THEN 0
             ELSE a[T \ {Max(T)}] + s[Max(T)]]
  <2>1. a[{}] = 0 /\ a = [T \in SUBSET DOMAIN s |-> a[T]]
    <3> HIDE DEF step, Val
    <3> QED BY <1>3 DEF FoldedBy, FoldsOver
  <2> HIDE DEF step, Val, base, E
  <2> QED BY Zenon, <1>5, <2>1
<1>7. PICK b : /\ b = [T \in SUBSET DOMAIN s |->
                       IF T = {} THEN 0
                       ELSE b[T \ {Max(T)}] + s[Max(T)]]
               /\ Sum(s) = b[DOMAIN s]
  <2> HIDE DEF step, Val, base, E
  <2>1. \E b : b = [T \in SUBSET DOMAIN s |->
                       IF T = {} THEN 0
                       ELSE b[T \ {Max(T)}] + s[Max(T)]]
    BY Zenon, <1>6
  <2> QED BY Zenon, <2>1 DEF Sum, FoldLeft, MapThenFoldSet
<1>8. a[{}] = b[{}] /\ AgreeOnLast(s, a, b) /\ IsSeq(s)
  <2> HIDE DEF step, Val, base, E
  <2> QED BY Zenon, <1>4, <1>6, <1>7 DEF AgreeOnLast, IsSeq
<1>9. \A T \in SUBSET DOMAIN s : a[T] = b[T]
  BY <1>8, FoldsAgree
<1> QED BY Zenon, <1>3, <1>7, <1>9 DEF FoldedBy

JoinStep(A, sep) ==
  [q \in Seq(A) \X Seq(A) |-> IF q[1] = <<>> THEN q[2] ELSE q[1] \o <<sep>> \o q[2]]

(* Joining one more part. *)
LEMMA JoinStepType ==
  ASSUME NEW A, NEW sep \in A
  PROVE  StepOf(JoinStep(A, sep), Seq(A), Seq(A))
<1>1. ASSUME NEW v \in Seq(A), NEW x \in Seq(A)
      PROVE  v \o <<sep>> \o x \in Seq(A)
  OBVIOUS
<1> QED BY <1>1 DEF StepOf, JoinStep

(* Joined parts. *)
LEMMA JoinIsFold ==
  ASSUME NEW A, NEW sep \in A, NEW s, ListOf(s, Seq(A))
  PROVE  Join(s, sep) = Fold(JoinStep(A, sep), <<>>, s)
<1> DEFINE step == JoinStep(A, sep)
           base == <<>>
           Val == Seq(A)
           E == Seq(A)
<1>1. base \in Val /\ StepOf(step, Val, E)
  BY JoinStepType
<1>2. \E a : FoldedBy(a, Val, step, base, s)
  <2> HIDE DEF step, Val, base, E
  <2>1. ListOf(s, E)
    BY DEF E
  <2> QED BY <1>1, <2>1, FoldRule
<1>3. PICK a : FoldedBy(a, Val, step, base, s)
  BY <1>2
<1>4. Len(s) \in Nat /\ DOMAIN s = 1 .. Len(s) /\ \A i \in DOMAIN s : s[i] \in E
  BY DEF ListOf
<1>5. ASSUME NEW T \in SUBSET DOMAIN s, T # {}
      PROVE  a[T] = IF a[T \ {Max(T)}] = <<>> THEN s[Max(T)]
                    ELSE a[T \ {Max(T)}] \o <<sep>> \o s[Max(T)]
  <2>1. Max(T) \in DOMAIN s
    BY Zenon, <1>4, <1>5, GreatestNumber
  <2>2. a[T] = step[<<a[T \ {Max(T)}], s[Max(T)]>>]
    <3> HIDE DEF step, base, Val
    <3> QED BY Zenon, <1>3, <1>5 DEF FoldedBy, FoldsOver
  <2>3. a[T \ {Max(T)}] \in Val /\ s[Max(T)] \in E
    <3> HIDE DEF step, base, Val, E
    <3> QED BY <1>3, <1>4, <2>1 DEF FoldedBy
  <2> QED BY <2>2, <2>3 DEF JoinStep
<1>6. a = [T \in SUBSET DOMAIN s |->
             IF T = {} THEN <<>>
             ELSE IF a[T \ {Max(T)}] = <<>> THEN s[Max(T)]
                  ELSE a[T \ {Max(T)}] \o <<sep>> \o s[Max(T)]]
  <2>1. a[{}] = <<>> /\ a = [T \in SUBSET DOMAIN s |-> a[T]]
    <3> HIDE DEF step, Val
    <3> QED BY <1>3 DEF FoldedBy, FoldsOver
  <2> HIDE DEF step, Val, base, E
  <2> QED BY Zenon, <1>5, <2>1
<1>7. PICK b : /\ b = [T \in SUBSET DOMAIN s |->
                       IF T = {} THEN <<>>
                       ELSE IF b[T \ {Max(T)}] = <<>> THEN s[Max(T)]
                            ELSE b[T \ {Max(T)}] \o <<sep>> \o s[Max(T)]]
               /\ Join(s, sep) = b[DOMAIN s]
  <2> HIDE DEF step, Val, base, E
  <2>1. \E b : b = [T \in SUBSET DOMAIN s |->
                       IF T = {} THEN <<>>
                       ELSE IF b[T \ {Max(T)}] = <<>> THEN s[Max(T)]
                            ELSE b[T \ {Max(T)}] \o <<sep>> \o s[Max(T)]]
    BY Zenon, <1>6
  <2> QED BY Zenon, <2>1 DEF Join, FoldLeft, MapThenFoldSet
<1>8. a[{}] = b[{}] /\ AgreeOnLast(s, a, b) /\ IsSeq(s)
  <2> HIDE DEF step, Val, base, E
  <2> QED BY Zenon, <1>4, <1>6, <1>7 DEF AgreeOnLast, IsSeq
<1>9. \A T \in SUBSET DOMAIN s : a[T] = b[T]
  BY <1>8, FoldsAgree
<1> QED BY Zenon, <1>3, <1>7, <1>9 DEF FoldedBy

(* Sum, one element at a time. *)
LEMMA SumAppend ==
  ASSUME NEW l \in Seq(Nat), NEW n \in Nat
  PROVE  Sum(l) \in Nat /\ Sum(Append(l, n)) = Sum(l) + n
<1> DEFINE step == SumStep
           Val == Nat
           zero == 0
           x == n
           q == Append(l, x)
<1>1. zero \in Val /\ StepOf(step, Val, Val) /\ ListOf(l, Nat) /\ ListOf(q, Nat)
  BY DEF StepOf, SumStep, ListOf
<1>2. Sum(l) = Fold(step, zero, l) /\ Sum(q) = Fold(step, zero, q)
  <2> HIDE DEF q
  <2> QED BY <1>1, SumIsFold
<1>3. Fold(step, zero, q) = step[<<Fold(step, zero, l), x>>] /\ Fold(step, zero, l) \in Val
  <2>1. ListOf(l, Val) /\ x \in Val
    BY <1>1
  <2>2. StepOf(step, Val, Val) /\ zero \in Val
    BY <1>1
  <2> HIDE DEF step, Val, zero, x
  <2> QED BY Zenon, <2>1, <2>2, FoldAppend
<1>4. ASSUME NEW v \in Nat PROVE step[<<v, n>>] = v + n
  BY DEF SumStep
<1> HIDE DEF step
<1> QED BY <1>2, <1>3, <1>4

(* Sum begins at 0. *)
LEMMA SumEmpty == Sum(<<>>) = 0
<1> DEFINE s == <<>>
<1>1. ListOf(s, Nat)
  BY DEF ListOf
<1>2. Sum(s) = Fold(SumStep, 0, s)
  <2> HIDE DEF s
  <2> QED BY <1>1, SumIsFold
<1> QED BY <1>2, FoldEmpty

(* Join, one part at a time. *)
LEMMA JoinAppend ==
  ASSUME NEW A, NEW sep \in A, NEW p \in Seq(Seq(A)), NEW x \in Seq(A)
  PROVE  /\ Join(p, sep) \in Seq(A)
         /\ Join(Append(p, x), sep)
              = IF Join(p, sep) = <<>> THEN x ELSE Join(p, sep) \o <<sep>> \o x
<1> DEFINE step == JoinStep(A, sep)
           Val == Seq(A)
           none == <<>>
           q == Append(p, x)
<1>1. none \in Val /\ StepOf(step, Val, Val) /\ ListOf(p, Seq(A)) /\ ListOf(q, Seq(A))
  BY JoinStepType DEF ListOf
<1>2. Join(p, sep) = Fold(step, none, p) /\ Join(q, sep) = Fold(step, none, q)
  <2> HIDE DEF q
  <2> QED BY <1>1, JoinIsFold
<1>3. Fold(step, none, q) = step[<<Fold(step, none, p), x>>] /\ Fold(step, none, p) \in Val
  <2>1. ListOf(p, Val) /\ x \in Val
    BY <1>1
  <2> HIDE DEF step, Val, none
  <2> QED BY SMTT(40), <1>1, <2>1, FoldAppend
<1>4. ASSUME NEW v \in Seq(A)
      PROVE  step[<<v, x>>] = IF v = <<>> THEN x ELSE v \o <<sep>> \o x
  BY DEF JoinStep
<1> HIDE DEF step
<1> QED BY Zenon, <1>2, <1>3, <1>4

(* Join of no parts. *)
LEMMA JoinEmpty == ASSUME NEW sep PROVE Join(<<>>, sep) = <<>>
<1> DEFINE s == <<>>
           A == {sep}
<1>1. ListOf(s, Seq(A)) /\ sep \in A
  BY DEF ListOf
<1>2. Join(s, sep) = Fold(JoinStep(A, sep), <<>>, s)
  <2> HIDE DEF s, A
  <2> QED BY <1>1, JoinIsFold
<1> HIDE DEF A
<1> QED BY <1>2, FoldEmpty

-----------------------------------------------------------------------------
(* The length of joined parts.                                              *)

Lens(p) == [i \in 1 .. Len(p) |-> Len(p[i])]

NonEmpty(A) == Seq(A) \ {<<>>}

(* The lengths, one part at a time. *)
LEMMA LensAppend ==
  ASSUME NEW A, NEW p \in Seq(NonEmpty(A)), NEW x \in NonEmpty(A)
  PROVE  /\ Lens(p) \in Seq(Nat) /\ Len(x) \in Nat \ {0}
         /\ Lens(Append(p, x)) = Append(Lens(p), Len(x))
<1> DEFINE q == Append(p, x)
           n == Len(p)
<1>1. n \in Nat /\ Len(q) = n + 1 /\ q[n + 1] = x /\ \A i \in 1 .. n : q[i] = p[i] /\ p[i] \in NonEmpty(A)
  OBVIOUS
<1>2. \A y \in NonEmpty(A) : Len(y) \in Nat \ {0}
  BY DEF NonEmpty
<1>3. Lens(p) \in Seq(Nat) /\ Len(Lens(p)) = n
  <2>1. \A i \in 1 .. n : Len(p[i]) \in Nat
    BY <1>1, <1>2
  <2> HIDE DEF n
  <2> QED BY <1>1, <2>1 DEF Lens, n
<1>4. Lens(q) \in Seq(Nat) /\ Len(Lens(q)) = n + 1
  <2>1. \A i \in 1 .. n + 1 : Len(q[i]) \in Nat
    BY <1>1, <1>2
  <2> HIDE DEF n, q
  <2> QED BY <1>1, <2>1 DEF Lens
<1>5. \A i \in 1 .. n + 1 : Lens(q)[i] = Append(Lens(p), Len(x))[i]
  <2>1. \A i \in 1 .. n : Lens(q)[i] = Lens(p)[i]
    <3> HIDE DEF q
    <3> QED BY <1>1 DEF Lens
  <2>2. Lens(q)[n + 1] = Len(x)
    <3> HIDE DEF q
    <3> QED BY <1>1 DEF Lens
  <2> HIDE DEF n, q
  <2>3. Len(x) \in Nat
    BY <1>2
  <2> QED BY <1>1, <1>3, <2>1, <2>2, <2>3
<1>6. Append(Lens(p), Len(x)) \in Seq(Nat) /\ Len(Append(Lens(p), Len(x))) = n + 1
  <2> HIDE DEF n, q
  <2> QED BY <1>2, <1>3
<1> HIDE DEF n, q
<1> QED BY <1>1, <1>2, <1>3, <1>4, <1>5, <1>6 DEF q

(* Joined parts take their own lengths and a separator between any two. *)
LEMMA JoinSize ==
  ASSUME NEW A, NEW sep \in A, NEW s, ListOf(s, NonEmpty(A))
  PROVE  /\ Join(s, sep) \in Seq(A)
         /\ s = <<>> \/ Len(Join(s, sep)) = Sum(Lens(s)) + Len(s) - 1
<1> DEFINE E == NonEmpty(A)
           Told(p) == /\ Join(p, sep) \in Seq(A)
                      /\ p = <<>> => Join(p, sep) = <<>>
                      /\ p # <<>> => /\ Join(p, sep) # <<>>
                                     /\ Len(Join(p, sep)) = Sum(Lens(p)) + Len(p) - 1
           Q == {p \in Seq(E) : Told(p)}
<1>1. <<>> \in Q
  <2>1. Told(<<>>)
    <3> DEFINE p == <<>>
               j == Join(p, sep)
    <3>1. j = <<>> /\ p = <<>> /\ <<>> \in Seq(A)
      BY JoinEmpty
    <3>2. j \in Seq(A)
      BY Zenon, <3>1
    <3> HIDE DEF p, j
    <3>3. p = <<>> => j = <<>>
      BY <3>1
    <3>4. Told(p)
      BY <3>1, <3>2, <3>3 DEF j
    <3> QED BY <3>1, <3>4
  <2> HIDE DEF Told, E
  <2> QED BY <2>1
<1>2. ASSUME NEW u \in Seq(E), NEW x \in E, u \in Q
      PROVE  Append(u, x) \in Q
  <2> DEFINE q == Append(u, x)
             j == Join(u, sep)
  <2>1. x \in Seq(A) /\ x # <<>> /\ u \in Seq(Seq(A))
    BY DEF NonEmpty
  <2>2. j \in Seq(A) /\ Join(q, sep) = IF j = <<>> THEN x ELSE j \o <<sep>> \o x
    BY Zenon, <2>1, JoinAppend
  <2>3. Sum(Lens(q)) = Sum(Lens(u)) + Len(x) /\ Sum(Lens(u)) \in Nat /\ Len(x) \in Nat \ {0}
    BY Zenon, LensAppend, SumAppend
  <2>4. Len(q) = Len(u) + 1 /\ Len(u) \in Nat /\ q \in Seq(E) /\ q # <<>>
    OBVIOUS
  <2>5. j \o <<sep>> \o x \in Seq(A) /\ Len(j \o <<sep>> \o x) = Len(j) + 1 + Len(x)
    <3> HIDE DEF j
    <3> QED BY <2>1, <2>2
  <2>6. CASE u = <<>>
    <3>1. j = <<>> /\ Len(u) = 0
      BY <2>6, JoinEmpty
    <3>2. Sum(Lens(u)) = 0
      BY <2>6, SumEmpty DEF Lens
    <3> HIDE DEF j, q
    <3> QED BY <2>1, <2>2, <2>3, <2>4, <3>1, <3>2 DEF q
  <2>7. CASE u # <<>>
    <3>1. j # <<>> /\ Len(j) = Sum(Lens(u)) + Len(u) - 1
      BY <1>2, <2>7
    <3>2. Join(q, sep) = j \o <<sep>> \o x
      BY <2>2, <3>1
    <3>3. Len(j) \in Nat
      BY <2>2
    <3>4. Join(q, sep) # <<>>
      <4> HIDE DEF j, q
      <4> QED BY <2>3, <2>5, <3>2, <3>3
    <3>5. Len(Join(q, sep)) = Sum(Lens(q)) + Len(q) - 1
      <4> HIDE DEF j, q
      <4> QED BY <2>3, <2>4, <2>5, <3>1, <3>2, <3>3
    <3> HIDE DEF j
    <3> QED BY Zenon, <2>4, <2>5, <3>2, <3>4, <3>5
  <2> QED BY <2>6, <2>7
<1>3. s \in Q
  <2>1. ListOf(s, E)
    OBVIOUS
  <2> HIDE DEF Q, E
  <2> QED BY <1>1, <1>2, <2>1, ListsInductive
<1> QED BY <1>3

-----------------------------------------------------------------------------
(* A style: its parameters next to the lengths announced for them.          *)

NonEmptyList(x) == IsList(x) /\ Len(x) \in Nat \ {0}

Paired(p, l) ==
  /\ IsList(p) /\ IsList(l) /\ Len(p) = Len(l)
  /\ \A i \in 1 .. Len(p) : NonEmptyList(p[i]) /\ l[i] = Len(p[i])

(* No part, and one part next to its length. *)
LEMMA PairedSome ==
  /\ Paired(<<>>, <<>>)
  /\ \A x : NonEmptyList(x) => Paired(<<x>>, <<Len(x)>>)
<1>1. Paired(<<>>, <<>>)
  BY DEF Paired, IsList, Range
<1>2. ASSUME NEW x, NonEmptyList(x) PROVE Paired(<<x>>, <<Len(x)>>)
  <2>1. IsList(<<x>>) /\ IsList(<<Len(x)>>) /\ Len(<<x>>) = 1 /\ Len(<<Len(x)>>) = 1
    BY DEF IsList, Range
  <2> QED BY <1>2, <2>1 DEF Paired
<1> QED BY <1>1, <1>2

(* Pairing survives concatenation. *)
LEMMA PairedCat ==
  \A p, l, q, m : Paired(p, l) /\ Paired(q, m) => Paired(p \o q, l \o m)
<1> SUFFICES ASSUME NEW p, NEW l, NEW q, NEW m, Paired(p, l), Paired(q, m)
             PROVE  Paired(p \o q, l \o m)
  OBVIOUS
<1>1. IsList(p) /\ IsList(l) /\ IsList(q) /\ IsList(m) /\ Len(p) = Len(l) /\ Len(q) = Len(m)
  BY DEF Paired
<1> DEFINE E == Range(p) \cup Range(q)
           F == Range(l) \cup Range(m)
<1>2. p \in Seq(E) /\ q \in Seq(E) /\ l \in Seq(F) /\ m \in Seq(F)
  BY <1>1, ListTyped
<1> HIDE DEF E, F
<1>3. p \o q \in Seq(E) /\ l \o m \in Seq(F)
  BY <1>2
<1>4. /\ Len(p) \in Nat /\ Len(q) \in Nat
      /\ Len(p \o q) = Len(p) + Len(q) /\ Len(l \o m) = Len(p) + Len(q)
  <2>1. Len(p) \in Nat /\ Len(q) \in Nat /\ Len(p \o q) = Len(p) + Len(q)
    BY <1>2
  <2>2. Len(l \o m) = Len(l) + Len(m)
    BY <1>2
  <2> QED BY <1>1, <2>1, <2>2
<1>5. ASSUME NEW i \in 1 .. Len(p) + Len(q)
      PROVE  NonEmptyList((p \o q)[i]) /\ (l \o m)[i] = Len((p \o q)[i])
  <2>1. CASE i <= Len(p)
    <3>1. (p \o q)[i] = p[i] /\ (l \o m)[i] = l[i]
      BY <1>1, <1>2, <1>4, <2>1
    <3> QED BY <1>4, <2>1, <3>1 DEF Paired
  <2>2. CASE i > Len(p)
    <3> DEFINE j == i - Len(p)
    <3>1. j \in 1 .. Len(q)
      BY <1>4, <2>2
    <3>2. (p \o q)[i] = q[j] /\ (l \o m)[i] = m[j]
      BY <1>1, <1>2, <1>4, <2>2
    <3> HIDE DEF j
    <3> QED BY <3>1, <3>2 DEF Paired
  <2> QED BY <1>4, <2>1, <2>2
<1>6. IsList(p \o q) /\ IsList(l \o m)
  BY Zenon, <1>3, ListIn
<1> QED BY <1>4, <1>5, <1>6 DEF Paired

(* What Join makes of paired parts has the length their lengths say.        *)
LEMMA PairedJoin ==
  ASSUME NEW p, NEW l, Paired(p, l), NEW sep
  PROVE  /\ IsList(Join(p, sep)) /\ l \in Seq(Nat) /\ Len(p) \in Nat
         /\ p # <<>> => Len(Join(p, sep)) = Sum(l) + Len(l) - 1
<1> DEFINE A == {sep} \cup UNION {Range(p[i]) : i \in 1 .. Len(p)}
<1>1. Len(p) \in Nat /\ DOMAIN p = 1 .. Len(p) /\ p = [i \in 1 .. Len(p) |-> p[i]]
  BY DEF Paired, IsList
<1>2. ASSUME NEW i \in 1 .. Len(p) PROVE p[i] \in NonEmpty(A)
  <2>1. IsList(p[i]) /\ Range(p[i]) \subseteq A /\ Len(p[i]) # 0
    BY DEF Paired, NonEmptyList
  <2> HIDE DEF A
  <2>2. p[i] \in Seq(A)
    BY <2>1, ListTyped
  <2>3. p[i] # <<>>
    BY <2>1
  <2> QED BY <2>2, <2>3 DEF NonEmpty
<1>3. ListOf(p, NonEmpty(A)) /\ sep \in A
  <2>1. sep \in A
    OBVIOUS
  <2> HIDE DEF A
  <2> QED BY <1>1, <1>2, <2>1 DEF ListOf
<1>4. l = Lens(p)
  BY <1>1 DEF Paired, Lens, IsList
<1>5. l \in Seq(Nat)
  BY <1>1 DEF Paired, IsList, NonEmptyList
<1> HIDE DEF A
<1>6. Join(p, sep) \in Seq(A) /\ (p = <<>> \/ Len(Join(p, sep)) = Sum(Lens(p)) + Len(p) - 1)
  BY <1>3, JoinSize
<1> QED BY <1>1, <1>4, <1>5, <1>6, ListIn DEF Paired

AttributePart(st, a) == IF a \in st.attrs THEN <<ParamBytes(a, "attribute")>> ELSE <<>>
AttributeLens(st, a) == IF a \in st.attrs THEN <<ParamLen(a, "attribute")>> ELSE <<>>

(* push_attr: what an attribute writes and what it announces. *)
LEMMA AttributePaired ==
  ASSUME NEW st, NEW a \in {"bold", "dim", "italic", "reverse", "strikethrough"}
  PROVE  Paired(AttributePart(st, a), AttributeLens(st, a))
<1>1. ParamBytes(a, "attribute") = <<AttributeCode[a]>> /\ ParamLen(a, "attribute") = 1
  BY DEF ParamBytes, ParamLen
<1>2. NonEmptyList(<<AttributeCode[a]>>) /\ Len(<<AttributeCode[a]>>) = 1
  BY DEF NonEmptyList, IsList, Range
<1>3. Paired(<<ParamBytes(a, "attribute")>>, <<ParamLen(a, "attribute")>>)
  BY Zenon, <1>1, <1>2, PairedSome
<1> QED BY <1>3, PairedSome DEF AttributePart, AttributeLens

UnderlinePart(st) ==
  IF st.underline = "none" THEN <<>> ELSE <<ParamBytes(st.underline, "underline")>>
UnderlineLens(st) ==
  IF st.underline = "none" THEN <<>> ELSE <<ParamLen(st.underline, "underline")>>

(* The same for the underline. *)
LEMMA UnderlinePaired ==
  ASSUME NEW st \in Styles
  PROVE  Paired(UnderlinePart(st), UnderlineLens(st))
<1> DEFINE u == st.underline
<1>1. u \in {"none", "single", "double", "curly", "dotted", "dashed"}
  BY DEF Styles, UnderlineParam
<1>2. /\ ParamBytes(u, "underline") = UnderlineParam[u]
      /\ ParamLen(u, "underline") = Len(UnderlineParam[u])
  BY DEF ParamBytes, ParamLen
<1>3. u # "none" => NonEmptyList(UnderlineParam[u])
  <2>1. \A x : NonEmptyList(<<x>>)
    BY DEF NonEmptyList, IsList, Range
  <2>2. \A x, y, z : NonEmptyList(<<x, y, z>>)
    BY DEF NonEmptyList, IsList, Range
  <2>3. u # "none" => \/ UnderlineParam[u] = <<"4">>
                      \/ UnderlineParam[u] = <<"4", ":", "2">>
                      \/ UnderlineParam[u] = <<"4", ":", "3">>
                      \/ UnderlineParam[u] = <<"4", ":", "4">>
                      \/ UnderlineParam[u] = <<"4", ":", "5">>
    BY <1>1 DEF UnderlineParam
  <2> QED BY <2>1, <2>2, <2>3
<1>4. u # "none" => Paired(<<UnderlineParam[u]>>, <<Len(UnderlineParam[u])>>)
  BY <1>3, PairedSome
<1> QED BY <1>2, <1>4, PairedSome DEF UnderlinePart, UnderlineLens

ColorPart(c, role)  == IF c = NoColor THEN <<>> ELSE <<ParamBytes(c, role)>>
ColorPartLens(c, role) == IF c = NoColor THEN <<>> ELSE <<ParamLen(c, role)>>

(* The same for a colour. *)
LEMMA ColorPaired ==
  ASSUME NEW c \in Colors, NEW role \in {"fg", "bg"}, role = "fg" \/ Wide(c) = 0
  PROVE  Paired(ColorPart(c, role), ColorPartLens(c, role))
<1> DEFINE bytes == ColorParams(c, role = "fg")
           n == ColorLen(c, role = "fg")
<1>1. CASE c = NoColor
  BY <1>1, PairedSome DEF ColorPart, ColorPartLens
<1>2. CASE c # NoColor
  <2>1. ParamBytes(c, role) = bytes /\ ParamLen(c, role) = n
    BY Zenon DEF ParamBytes, ParamLen
  <2>2. IsList(bytes) /\ Size(bytes) = n /\ n \in Nat \ {0}
    <3> DEFINE fg == role = "fg"
    <3>1. /\ IsList(ColorParams(c, fg)) /\ ColorLen(c, fg) \in Nat \ {0}
          /\ Size(ColorParams(c, fg)) = ColorLen(c, fg) + (IF fg THEN 0 ELSE Wide(c))
      <4>1. fg \in BOOLEAN /\ c \in Colors \ {NoColor}
        BY <1>2
      <4> HIDE DEF fg
      <4> QED BY <4>1, ColorSize
    <3>2. ColorLen(c, fg) + (IF fg THEN 0 ELSE Wide(c)) = ColorLen(c, fg)
      BY <3>1
    <3> QED BY <3>1, <3>2
  <2> HIDE DEF bytes, n
  <2>3. NonEmptyList(bytes) /\ Len(bytes) = n
    BY <2>2 DEF NonEmptyList, Size
  <2> QED BY <1>2, <2>1, <2>3, PairedSome DEF ColorPart, ColorPartLens
<1> QED BY <1>1, <1>2

(* All parameters before the background.                                    *)
PartsBefore(st) ==
  AttributePart(st, "bold") \o AttributePart(st, "dim") \o AttributePart(st, "italic")
    \o UnderlinePart(st) \o AttributePart(st, "reverse") \o AttributePart(st, "strikethrough")
    \o ColorPart(st.fg, "fg")
LensBefore(st) ==
  AttributeLens(st, "bold") \o AttributeLens(st, "dim") \o AttributeLens(st, "italic")
    \o UnderlineLens(st) \o AttributeLens(st, "reverse") \o AttributeLens(st, "strikethrough")
    \o ColorPartLens(st.fg, "fg")

(* A style's parameters are those before the background, then the         *)
(* background.                                                            *)
LEMMA StyleSplit ==
  ASSUME NEW st
  PROVE  /\ StyleParams(st, ParamBytes) = PartsBefore(st) \o ColorPart(st.bg, "bg")
         /\ StyleParams(st, ParamLen) = LensBefore(st) \o ColorPartLens(st.bg, "bg")
BY DEF StyleParams, PartsBefore, LensBefore, AttributePart, AttributeLens, UnderlinePart,
       UnderlineLens, ColorPart, ColorPartLens

(* Before the background, every announced length is right. *)
LEMMA BeforePaired ==
  ASSUME NEW st \in Styles
  PROVE  Paired(PartsBefore(st), LensBefore(st))
<1>1. /\ Paired(AttributePart(st, "bold"), AttributeLens(st, "bold"))
      /\ Paired(AttributePart(st, "dim"), AttributeLens(st, "dim"))
      /\ Paired(AttributePart(st, "italic"), AttributeLens(st, "italic"))
      /\ Paired(AttributePart(st, "reverse"), AttributeLens(st, "reverse"))
      /\ Paired(AttributePart(st, "strikethrough"), AttributeLens(st, "strikethrough"))
  BY AttributePaired
<1>2. Paired(UnderlinePart(st), UnderlineLens(st))
  BY UnderlinePaired
<1>3. Paired(ColorPart(st.fg, "fg"), ColorPartLens(st.fg, "fg"))
  <2> DEFINE role == "fg"
  <2>1. st.fg \in Colors /\ role \in {"fg", "bg"} /\ role = "fg"
    BY DEF Styles
  <2> HIDE DEF role
  <2>2. Paired(ColorPart(st.fg, role), ColorPartLens(st.fg, role))
    BY <2>1, ColorPaired
  <2> QED BY <2>2 DEF role
<1> QED BY <1>1, <1>2, <1>3, PairedCat DEF PartsBefore, LensBefore

(* Only empty strings concatenate to the empty one. *)
LEMMA EmptyCat ==
  \A p, q : IsList(p) /\ IsList(q) /\ p \o q = <<>> => p = <<>> /\ q = <<>>
<1> SUFFICES ASSUME NEW p, NEW q, IsList(p), IsList(q), p \o q = <<>>
             PROVE  p = <<>> /\ q = <<>>
  OBVIOUS
<1>1. Size(p) \in Nat /\ Size(q) \in Nat /\ Size(p) + Size(q) = 0
  BY SizeCat, ListLiteral DEF Adds, Literals
<1>2. Len(p) = 0 /\ Len(q) = 0
  BY <1>1 DEF Size
<1> QED BY <1>2 DEF IsList

(* When nothing is written before the background, no part of the style is *)
(* set.                                                                   *)
LEMMA BeforeEmpty ==
  ASSUME NEW st \in Styles, PartsBefore(st) = <<>>
  PROVE  /\ \A a \in {"bold", "dim", "italic", "reverse", "strikethrough"} :
              AttributePart(st, a) = <<>>
         /\ UnderlinePart(st) = <<>> /\ ColorPart(st.fg, "fg") = <<>>
<1> DEFINE a == AttributePart(st, "bold")
           b == AttributePart(st, "dim")
           c == AttributePart(st, "italic")
           d == UnderlinePart(st)
           e == AttributePart(st, "reverse")
           f == AttributePart(st, "strikethrough")
           g == ColorPart(st.fg, "fg")
<1>1. IsList(a) /\ IsList(b) /\ IsList(c) /\ IsList(e) /\ IsList(f)
  BY AttributePaired DEF Paired
<1>2. IsList(d)
  BY UnderlinePaired DEF Paired
<1>3. IsList(g)
  BY ListLiteral DEF ColorPart, Literals
<1>4. a \o b \o c \o d \o e \o f \o g = <<>>
  BY DEF PartsBefore
<1> HIDE DEF a, b, c, d, e, f, g
<1>6. /\ IsList(a \o b) /\ IsList(a \o b \o c) /\ IsList(a \o b \o c \o d)
      /\ IsList(a \o b \o c \o d \o e) /\ IsList(a \o b \o c \o d \o e \o f)
  BY <1>1, <1>2, <1>3, SizeCat DEF Adds
<1>7. a = <<>> /\ b = <<>> /\ c = <<>> /\ d = <<>> /\ e = <<>> /\ f = <<>> /\ g = <<>>
  BY <1>1, <1>2, <1>3, <1>4, <1>6, EmptyCat
<1> QED BY <1>7 DEF a, b, c, d, e, f, g

(* A style that is not the reset has a parameter. *)
LEMMA StyleSaysSomething ==
  ASSUME NEW st \in Styles, st # ResetStyle
  PROVE  PartsBefore(st) # <<>> \/ st.bg # NoColor
<1> SUFFICES ASSUME PartsBefore(st) = <<>>, st.bg = NoColor PROVE FALSE
  OBVIOUS
<1>1. /\ \A a \in {"bold", "dim", "italic", "reverse", "strikethrough"} :
            AttributePart(st, a) = <<>>
      /\ UnderlinePart(st) = <<>> /\ ColorPart(st.fg, "fg") = <<>>
  BY BeforeEmpty
<1>2. \A x : <<x>> # <<>>
  OBVIOUS
<1>3. \A a \in {"bold", "dim", "italic", "reverse", "strikethrough"} : a \notin st.attrs
  BY <1>1, <1>2 DEF AttributePart
<1>4. st.underline = "none" /\ st.fg = NoColor
  BY <1>1, <1>2 DEF UnderlinePart, ColorPart
<1>5. st.attrs = {}
  BY <1>3 DEF Styles, Attributes, ToSet
<1>6. st = ResetStyle
  BY <1>4, <1>5 DEF Styles, ResetStyle, Style
<1> QED BY <1>6

(* Sgr: exact, but for the one byte of a bright background. *)
LEMMA SgrSize ==
  ASSUME NEW st \in Styles
  PROVE  /\ IsList(SgrBytes(st)) /\ SgrLen(st) \in Nat /\ Wide(st.bg) \in {0, 1}
         /\ Size(SgrBytes(st)) = SgrLen(st) + Wide(st.bg)
<1> DEFINE parts == StyleParams(st, ParamBytes)
           lens == StyleParams(st, ParamLen)
           before == PartsBefore(st)
           announced == LensBefore(st)
           joined == Join(parts, ";")
<1>1. parts = before \o ColorPart(st.bg, "bg") /\ lens = announced \o ColorPartLens(st.bg, "bg")
  BY Zenon, StyleSplit
<1>2. Paired(before, announced)
  BY BeforePaired
<1>3. Wide(st.bg) \in {0, 1} /\ st.bg \in Colors
  BY DEF Wide, Styles
<1>4. CASE st = ResetStyle
  <2>1. SgrBytes(st) = CSI \o <<"0", "m">> /\ SgrLen(st) = 4
    BY Zenon, <1>4 DEF SgrBytes, SgrLen
  <2>2. Wide(st.bg) = 0
    BY <1>4 DEF Wide, ResetStyle, Style, NoColor
  <2>3. IsList(<<"0", "m">>) /\ Size(<<"0", "m">>) = 2
    BY ListLiteral DEF Literals
  <2>4. IsList(CSI \o <<"0", "m">>) /\ Size(CSI \o <<"0", "m">>) = 4
    BY <2>3, FrameSize, SizeCat DEF Adds
  <2> DEFINE bytes == CSI \o <<"0", "m">>
  <2>5. SgrBytes(st) = bytes /\ IsList(bytes) /\ Size(bytes) = 4
    BY <2>1, <2>4
  <2>6. SgrLen(st) \in Nat /\ Wide(st.bg) \in {0, 1} /\ 4 = SgrLen(st) + Wide(st.bg)
    <3>1. SgrLen(st) = 4
      BY <2>1
    <3> QED BY <2>2, <3>1
  <2> HIDE DEF bytes
  <2> QED BY <2>5, <2>6
<1>5. CASE st # ResetStyle
  <2>1. before # <<>> \/ st.bg # NoColor
    BY <1>5, StyleSaysSomething
  <2>2. /\ IsList(joined) /\ lens \in Seq(Nat) /\ Len(lens) \in Nat \ {0}
        /\ Len(joined) = Sum(lens) + Len(lens) - 1 + Wide(st.bg)
    <3> DEFINE c == st.bg
               n == ColorLen(c, FALSE)
               bytes == ColorParams(c, FALSE)
    <3>1. CASE Wide(c) = 0
      <4>1. Paired(ColorPart(c, "bg"), ColorPartLens(c, "bg"))
        <5> DEFINE role == "bg"
        <5>1. c \in Colors /\ role \in {"fg", "bg"} /\ (role = "fg" \/ Wide(c) = 0)
          BY <1>3, <3>1
        <5> HIDE DEF role, c
        <5>2. Paired(ColorPart(c, role), ColorPartLens(c, role))
          BY <5>1, ColorPaired
        <5> QED BY <5>2 DEF role
      <4>2. Paired(parts, lens)
        BY <1>1, <1>2, <4>1, PairedCat
      <4>3. parts # <<>>
        <5>1. IsList(before) /\ IsList(ColorPart(c, "bg"))
          BY <1>2, <4>1 DEF Paired
        <5>2. \A x : <<x>> # <<>>
          OBVIOUS
        <5>3. c # NoColor => ColorPart(c, "bg") # <<>>
          BY <5>2 DEF ColorPart
        <5> HIDE DEF before
        <5> QED BY <1>1, <2>1, <5>1, <5>3, EmptyCat
      <4> HIDE DEF parts, lens
      <4>4. /\ IsList(joined) /\ lens \in Seq(Nat) /\ Len(parts) \in Nat
            /\ Len(joined) = Sum(lens) + Len(lens) - 1
        BY Zenon, <4>2, <4>3, PairedJoin
      <4>5. Len(lens) \in Nat /\ Len(lens) = Len(parts) /\ parts \in Seq(Range(parts))
        BY Zenon, <4>2, <4>4 DEF Paired, IsList
      <4>6. Len(lens) # 0
        BY <4>3, <4>5
      <4> HIDE DEF joined
      <4> QED BY <3>1, <4>4, <4>5, <4>6
    <3>2. CASE Wide(c) = 1
      <4>1. c # NoColor /\ c \in Colors
        BY <1>3, <3>2 DEF Wide, NoColor
      <4>2. IsList(bytes) /\ Size(bytes) = n + 1 /\ n \in Nat \ {0}
        BY Zenon, <3>2, <4>1, ColorSize
      <4>3. ColorPart(c, "bg") = <<bytes>> /\ ColorPartLens(c, "bg") = <<n>>
        BY Zenon, <4>1 DEF ColorPart, ColorPartLens, ParamBytes, ParamLen
      <4> DEFINE m == n + 1
                 actual == announced \o <<m>>
      <4>4. parts = before \o <<bytes>> /\ lens = announced \o <<n>>
        BY Zenon, <1>1, <4>3
      <4> HIDE DEF bytes, n, before, announced, parts, lens, c
      <4>5. NonEmptyList(bytes) /\ Len(bytes) = m
        BY <4>2 DEF NonEmptyList, Size
      <4>6. Paired(parts, actual)
        <5>1. Paired(<<bytes>>, <<m>>)
          BY <4>5, PairedSome
        <5> HIDE DEF m
        <5> QED BY <1>2, <4>4, <5>1, PairedCat
      <4>7. announced \in Seq(Nat)
        BY <1>2, PairedJoin
      <4>8. actual = Append(announced, m) /\ lens = Append(announced, n) /\ m \in Nat /\ n \in Nat
        BY <4>2, <4>4, <4>7
      <4>9. /\ lens \in Seq(Nat) /\ Len(lens) = Len(announced) + 1 /\ Len(actual) = Len(announced) + 1
            /\ Len(announced) \in Nat
        BY <4>2, <4>4, <4>7
      <4>10. /\ Sum(actual) = Sum(announced) + m /\ Sum(lens) = Sum(announced) + n
             /\ Sum(announced) \in Nat
        BY Zenon, <4>7, <4>8, SumAppend
      <4>11. parts # <<>>
        <5>1. Len(parts) = Len(actual)
          BY <4>6 DEF Paired
        <5> HIDE DEF actual
        <5> QED BY <4>9, <5>1
      <4> HIDE DEF actual
      <4>12. IsList(joined) /\ Len(joined) = Sum(actual) + Len(actual) - 1
        BY Zenon, <4>6, <4>11, PairedJoin
      <4> HIDE DEF joined
      <4>13. Len(joined) = Sum(lens) + Len(lens) - 1 + 1
        BY <4>2, <4>9, <4>10, <4>12
      <4>14. Len(lens) \in Nat \ {0}
        BY <4>9
      <4>15. IsList(joined) /\ lens \in Seq(Nat) /\ Len(lens) \in Nat \ {0}
        BY <4>9, <4>12, <4>14
      <4>16. Len(joined) = Sum(lens) + Len(lens) - 1 + Wide(c)
        BY <3>2, <4>13
      <4> QED BY <4>15, <4>16 DEF c
    <3> QED BY Zenon, <1>3, <3>1, <3>2
  <2>3. Sum(lens) \in Nat
    <3> HIDE DEF lens
    <3> QED BY Zenon, <2>2, SumAppend
  <2>4. SgrLen(st) = 3 + Sum(lens) + Len(lens) - 1
    BY Zenon, <1>5 DEF SgrLen, Sum
  <2>5. SgrBytes(st) = CSI \o joined \o <<"m">>
    BY Zenon, <1>5 DEF SgrBytes
  <2>6. IsList(<<"m">>) /\ Size(<<"m">>) = 1
    BY ListLiteral DEF Literals
  <2>7. Size(joined) = Len(joined)
    BY DEF Size
  <2> HIDE DEF joined, lens, parts
  <2>8. IsList(CSI \o joined \o <<"m">>) /\ Size(CSI \o joined \o <<"m">>) = 3 + Size(joined)
    BY <2>2, <2>6, FrameSize, SizeCat DEF Adds
  <2> DEFINE bytes == CSI \o joined \o <<"m">>
             sum == Sum(lens)
             n == Len(lens)
             w == Wide(st.bg)
  <2>9. SgrBytes(st) = bytes /\ IsList(bytes) /\ Size(bytes) = 3 + Len(joined)
    BY <2>5, <2>7, <2>8
  <2>10. SgrLen(st) = 3 + sum + n - 1 /\ Len(joined) = sum + n - 1 + w
    BY <2>2, <2>4
  <2>11. sum \in Nat /\ n \in Nat \ {0} /\ w \in {0, 1}
    BY <1>3, <2>2, <2>3
  <2> HIDE DEF bytes, sum, n, w
  <2>12. SgrLen(st) \in Nat /\ 3 + Len(joined) = SgrLen(st) + w
    BY <2>10, <2>11
  <2>13. IsList(SgrBytes(st)) /\ Size(SgrBytes(st)) = SgrLen(st) + w
    BY <2>9, <2>12
  <2> QED BY <2>11, <2>12, <2>13 DEF w
<1> QED BY <1>4, <1>5

-----------------------------------------------------------------------------
(* FlattenSeq, and the encodings that are made with it.                     *)

(* Concatenation of sequences of one type. *)
LEMMA CatTyped ==
  ASSUME NEW E, NEW s \in Seq(E), NEW t \in Seq(E)
  PROVE  s \o t \in Seq(E) /\ Len(s \o t) = Len(s) + Len(t)
OBVIOUS

Flattens(f, s, n) == f = [i \in 1 .. n |-> IF i = 1 THEN s[i] ELSE f[i - 1] \o s[i]]

(* The function with which FlattenSeq concatenates exists. *)
LEMMA FlattenExists ==
  ASSUME NEW s
  PROVE  \A n \in Nat : \E f : Flattens(f, s, n)
<1> DEFINE Q == {n \in Nat : \E f : Flattens(f, s, n)}
<1>1. 0 \in Q
  <2>1. Flattens([i \in 1 .. 0 |-> i], s, 0)
    BY DEF Flattens
  <2> QED BY <2>1
<1>2. ASSUME NEW n \in Nat, n \in Q PROVE n + 1 \in Q
  <2>1. PICK f : Flattens(f, s, n)
    BY <1>2
  <2> DEFINE g == [i \in 1 .. n + 1 |->
                     IF i <= n THEN f[i] ELSE IF i = 1 THEN s[i] ELSE f[i - 1] \o s[i]]
  <2>2. ASSUME NEW i \in 1 .. n + 1
        PROVE  g[i] = IF i = 1 THEN s[i] ELSE g[i - 1] \o s[i]
    <3>1. CASE i <= n
      <4>1. i \in 1 .. n /\ g[i] = f[i]
        BY <3>1
      <4>2. f[i] = IF i = 1 THEN s[i] ELSE f[i - 1] \o s[i]
        BY Zenon, <2>1, <4>1 DEF Flattens
      <4>3. i # 1 => g[i - 1] = f[i - 1]
        BY <3>1
      <4> HIDE DEF g
      <4> QED BY <4>1, <4>2, <4>3
    <3>2. CASE i > n
      <4>1. i = n + 1 /\ g[i] = IF i = 1 THEN s[i] ELSE f[i - 1] \o s[i]
        BY <3>2
      <4>2. i # 1 => g[i - 1] = f[i - 1]
        BY <4>1
      <4> HIDE DEF g
      <4> QED BY <4>1, <4>2
    <3> QED BY <3>1, <3>2
  <2>3. g = [i \in 1 .. n + 1 |-> g[i]]
    OBVIOUS
  <2> HIDE DEF g
  <2>4. Flattens(g, s, n + 1)
    BY Zenon, <2>2, <2>3 DEF Flattens
  <2> QED BY <2>4
<1> HIDE DEF Q
<1>3. \A n \in Nat : n \in Q
  BY <1>1, <1>2, NumbersInductive
<1> QED BY <1>3 DEF Q

(* FlattenSeq is the last of the running concatenations. *)
LEMMA FlattenRule ==
  ASSUME NEW s, Len(s) \in Nat \ {0}
  PROVE  \E f : Flattens(f, s, Len(s)) /\ FlattenSeq(s) = f[Len(s)]
<1>1. PICK f : f = [i \in 1 .. Len(s) |-> IF i = 1 THEN s[i] ELSE f[i - 1] \o s[i]]
               /\ FlattenSeq(s) = f[Len(s)]
  <2>1. \E f : f = [i \in 1 .. Len(s) |-> IF i = 1 THEN s[i] ELSE f[i - 1] \o s[i]]
    BY Zenon, FlattenExists DEF Flattens
  <2> QED BY Zenon, <2>1 DEF FlattenSeq
<1> QED BY Zenon, <1>1 DEF Flattens

(* The whole is of the type of the pieces, and as long as they are together: *)
(* m counts along.                                                          *)
Pieces(s, n, m, E) ==
  /\ n \in Nat /\ s = [i \in 1 .. n |-> s[i]] /\ m[0] = 0
  /\ \A i \in 1 .. n : s[i] \in Seq(E) /\ m[i] = m[i - 1] + Len(s[i])

(* FlattenSeq is as long as its pieces. *)
LEMMA FlattenFacts ==
  ASSUME NEW E, NEW n, NEW s, NEW m, Pieces(s, n, m, E)
  PROVE  FlattenSeq(s) \in Seq(E) /\ Len(FlattenSeq(s)) = m[n]
<1> n \in Nat /\ s = [i \in 1 .. n |-> s[i]] /\ m[0] = 0
    /\ \A i \in 1 .. n : s[i] \in Seq(E) /\ m[i] = m[i - 1] + Len(s[i])
  BY DEF Pieces
<1>1. Len(s) = n
  OBVIOUS
<1>2. CASE n = 0
  <2>1. FlattenSeq(s) = s
    BY <1>1, <1>2 DEF FlattenSeq
  <2>2. s \in Seq(E)
    BY <1>2
  <2> QED BY Zenon, <1>1, <1>2, <2>1, <2>2
<1>3. CASE n # 0
  <2>1. PICK f : Flattens(f, s, n) /\ FlattenSeq(s) = f[n]
    BY Zenon, <1>1, <1>3, FlattenRule
  <2> DEFINE Fits(i) == i \in 1 .. n => f[i] \in Seq(E) /\ Len(f[i]) = m[i]
             Q == {i \in Nat : Fits(i)}
  <2>2. 0 \in Q
    OBVIOUS
  <2>3. ASSUME NEW i \in Nat, i \in Q PROVE i + 1 \in Q
    <3> SUFFICES ASSUME i + 1 \in 1 .. n
                 PROVE  f[i + 1] \in Seq(E) /\ Len(f[i + 1]) = m[i + 1]
      OBVIOUS
    <3> DEFINE j == i + 1
    <3>1. j \in 1 .. n /\ j - 1 = i /\ (i # 0 => i \in 1 .. n) /\ (j = 1 <=> i = 0)
      OBVIOUS
    <3>2. (i = 0 \/ (f[i] \in Seq(E) /\ Len(f[i]) = m[i]))
      BY <2>3, <3>1
    <3> HIDE DEF j
    <3>3. f[j] = IF j = 1 THEN s[j] ELSE f[j - 1] \o s[j]
      BY Zenon, <2>1, <3>1 DEF Flattens
    <3>4. s[j] \in Seq(E) /\ m[j] = m[i] + Len(s[j])
      BY <3>1
    <3>5. CASE i = 0
      <4>1. f[j] = s[j]
        BY <3>1, <3>3, <3>5
      <4>2. m[j] = Len(s[j])
        BY <3>4, <3>5
      <4> QED BY <3>4, <4>1, <4>2 DEF j
    <3>6. CASE i # 0
      <4>1. f[j] = f[i] \o s[j]
        BY Zenon, <3>1, <3>3, <3>6
      <4>2. f[i] \in Seq(E) /\ Len(f[i]) = m[i]
        BY <3>2, <3>6
      <4>3. f[i] \o s[j] \in Seq(E) /\ Len(f[i] \o s[j]) = Len(f[i]) + Len(s[j])
        BY Zenon, <3>4, <4>2, CatTyped
      <4> QED BY Zenon, <3>4, <4>1, <4>2, <4>3 DEF j
    <3> QED BY <3>5, <3>6
  <2>4. \A i \in Nat : i \in Q
    <3> HIDE DEF Q
    <3> QED BY <2>2, <2>3, NumbersInductive
  <2> QED BY <1>3, <2>1, <2>4
<1> QED BY <1>2, <1>3

PercentCost(x) == IF x \in DOMAIN PercentCode THEN 3 ELSE 1
PercentStep(A) == [q \in Nat \X A |-> q[1] + PercentCost(q[2])]

(* One more byte of a path. *)
LEMMA PercentStepType == ASSUME NEW A PROVE StepOf(PercentStep(A), Nat, A)
BY DEF StepOf, PercentStep, PercentCost

(* The length announced, as a fold. *)
LEMMA PercentIsFold ==
  ASSUME NEW A, NEW s, ListOf(s, A)
  PROVE  PercentEncodedLen(s) = Fold(PercentStep(A), 0, s)
<1> DEFINE step == PercentStep(A)
           base == 0
           Val == Nat
           E == A
<1>1. base \in Val /\ StepOf(step, Val, E)
  BY PercentStepType
<1>2. \E a : FoldedBy(a, Val, step, base, s)
  <2> HIDE DEF step, Val, base, E
  <2>1. ListOf(s, E)
    BY DEF E
  <2> QED BY <1>1, <2>1, FoldRule
<1>3. PICK a : FoldedBy(a, Val, step, base, s)
  BY <1>2
<1>4. Len(s) \in Nat /\ DOMAIN s = 1 .. Len(s) /\ \A i \in DOMAIN s : s[i] \in E
  BY DEF ListOf
<1>5. ASSUME NEW T \in SUBSET DOMAIN s, T # {}
      PROVE  a[T] = a[T \ {Max(T)}] + (IF s[Max(T)] \in DOMAIN PercentCode THEN 3 ELSE 1)
  <2>1. Max(T) \in DOMAIN s
    BY Zenon, <1>4, <1>5, GreatestNumber
  <2>2. a[T] = step[<<a[T \ {Max(T)}], s[Max(T)]>>]
    <3> HIDE DEF step, base, Val
    <3> QED BY Zenon, <1>3, <1>5 DEF FoldedBy, FoldsOver
  <2>3. a[T \ {Max(T)}] \in Val /\ s[Max(T)] \in E
    <3> HIDE DEF step, base, Val, E
    <3> QED BY <1>3, <1>4, <2>1 DEF FoldedBy
  <2> QED BY <2>2, <2>3 DEF PercentStep, PercentCost
<1>6. a = [T \in SUBSET DOMAIN s |->
             IF T = {} THEN 0
             ELSE a[T \ {Max(T)}] + (IF s[Max(T)] \in DOMAIN PercentCode THEN 3 ELSE 1)]
  <2>1. a[{}] = 0 /\ a = [T \in SUBSET DOMAIN s |-> a[T]]
    <3> HIDE DEF step, Val
    <3> QED BY <1>3 DEF FoldedBy, FoldsOver
  <2> HIDE DEF step, Val, base, E
  <2> QED BY Zenon, <1>5, <2>1
<1>7. PICK b : /\ b = [T \in SUBSET DOMAIN s |->
                       IF T = {} THEN 0
                       ELSE b[T \ {Max(T)}] + (IF s[Max(T)] \in DOMAIN PercentCode THEN 3 ELSE 1)]
               /\ PercentEncodedLen(s) = b[DOMAIN s]
  <2> HIDE DEF step, Val, base, E
  <2>1. \E b : b = [T \in SUBSET DOMAIN s |->
                       IF T = {} THEN 0
                       ELSE b[T \ {Max(T)}] + (IF s[Max(T)] \in DOMAIN PercentCode THEN 3 ELSE 1)]
    BY Zenon, <1>6
  <2> QED BY Zenon, <2>1 DEF PercentEncodedLen, FoldLeft, MapThenFoldSet
<1>8. a[{}] = b[{}] /\ AgreeOnLast(s, a, b) /\ IsSeq(s)
  <2> HIDE DEF step, Val, base, E
  <2> QED BY Zenon, <1>4, <1>6, <1>7 DEF AgreeOnLast, IsSeq
<1>9. \A T \in SUBSET DOMAIN s : a[T] = b[T]
  BY <1>8, FoldsAgree
<1> QED BY Zenon, <1>3, <1>7, <1>9 DEF FoldedBy

(* percent_encoded_len counts byte by byte. *)
LEMMA PercentCounts ==
  ASSUME NEW A, NEW s \in Seq(A)
  PROVE  \E m : /\ m[0] = 0 /\ m[Len(s)] = PercentEncodedLen(s)
                /\ \A i \in 0 .. Len(s) :
                     m[i] \in Nat /\ (i < Len(s) => m[i + 1] = m[i] + PercentCost(s[i + 1]))
<1> DEFINE step == PercentStep(A)
           zero == 0
           Val == Nat
<1>1. ListOf(s, A) /\ zero \in Val /\ StepOf(step, Val, A)
  BY PercentStepType DEF ListOf
<1>2. PercentEncodedLen(s) = Fold(step, zero, s)
  BY <1>1, PercentIsFold
<1>3. PICK m : RunningFold(m, step, zero, s, Val)
  <2> HIDE DEF step, zero, Val
  <2> QED BY <1>1, FoldCounts
<1>4. ASSUME NEW i \in 0 .. Len(s)
      PROVE  m[i] \in Nat /\ (i < Len(s) => m[i + 1] = m[i] + PercentCost(s[i + 1]))
  <2>1. m[i] \in Nat /\ (i < Len(s) => m[i + 1] = step[<<m[i], s[i + 1]>>])
    <3>1. m[i] \in Val /\ (i < Len(s) => m[i + 1] = step[<<m[i], s[i + 1]>>])
      <4> HIDE DEF step, Val, zero
      <4> QED BY <1>3 DEF RunningFold
    <3> HIDE DEF step
    <3> QED BY <3>1
  <2>2. i < Len(s) => s[i + 1] \in A
    OBVIOUS
  <2>3. \A v \in Nat, x \in A : step[<<v, x>>] = v + PercentCost(x)
    BY DEF PercentStep
  <2> HIDE DEF step
  <2> QED BY <2>1, <2>2, <2>3
<1>5. m[0] = 0 /\ m[Len(s)] = PercentEncodedLen(s)
  <2> HIDE DEF step, Val
  <2> QED BY <1>2, <1>3 DEF RunningFold
<1> HIDE DEF step, Val, zero
<1> QED BY <1>4, <1>5

(* write_percent_encoded writes what percent_encoded_len announces. *)
LEMMA PercentSize ==
  ASSUME NEW A, NEW s \in Seq(A)
  PROVE  /\ IsList(PercentEncoded(s)) /\ PercentEncodedLen(s) \in Nat
         /\ Size(PercentEncoded(s)) = PercentEncodedLen(s)
<1> DEFINE n == Len(s)
           piece == [i \in 1 .. n |-> IF s[i] \in DOMAIN PercentCode THEN PercentCode[s[i]]
                                      ELSE <<s[i]>>]
           E == A \cup UNION {Range(PercentCode[x]) : x \in DOMAIN PercentCode}
<1>1. n \in Nat
  OBVIOUS
<1>2. PICK m : /\ m[0] = 0 /\ m[n] = PercentEncodedLen(s)
               /\ \A i \in 0 .. n :
                    m[i] \in Nat /\ (i < n => m[i + 1] = m[i] + PercentCost(s[i + 1]))
  BY PercentCounts
<1>3. m[n] \in Nat
  BY <1>1, <1>2
<1>5. ASSUME NEW i \in 1 .. n
      PROVE  piece[i] \in Seq(E) /\ Len(piece[i]) = PercentCost(s[i])
  <2>1. CASE s[i] \in DOMAIN PercentCode
    <3>1. PercentCode[s[i]] \in {<<"%", "2", "0">>, <<"%", "1", "B">>, <<"%", "5", "C">>, <<"%", "2", "5">>}
      BY Zenon, <2>1 DEF PercentCode
    <3>2. IsList(PercentCode[s[i]]) /\ Len(PercentCode[s[i]]) = 3
      BY <3>1, ListLiteral DEF Literals, Size
    <3>3. Range(PercentCode[s[i]]) \subseteq E
      BY <2>1
    <3>4. PercentCode[s[i]] \in Seq(E)
      <4> HIDE DEF E
      <4> QED BY <3>2, <3>3, ListTyped
    <3> HIDE DEF E
    <3> QED BY <2>1, <3>2, <3>4 DEF PercentCost
  <2>2. CASE s[i] \notin DOMAIN PercentCode
    <3>1. s[i] \in E
      OBVIOUS
    <3> HIDE DEF E
    <3> QED BY <2>2, <3>1 DEF PercentCost
  <2> QED BY <2>1, <2>2
<1>6. \A i \in 1 .. n : piece[i] \in Seq(E) /\ m[i] = m[i - 1] + Len(piece[i])
  <2> SUFFICES ASSUME NEW i \in 1 .. n
               PROVE  piece[i] \in Seq(E) /\ m[i] = m[i - 1] + Len(piece[i])
    BY Zenon
  <2>1. i - 1 \in 0 .. n /\ i - 1 < n /\ i - 1 + 1 = i
    BY <1>1
  <2> HIDE DEF piece, E, n
  <2>2. m[i - 1 + 1] = m[i - 1] + PercentCost(s[i - 1 + 1])
    BY <1>2, <2>1
  <2> QED BY <1>5, <2>1, <2>2
<1>7. piece = [i \in 1 .. n |-> piece[i]] /\ PercentEncoded(s) = FlattenSeq(piece)
  BY DEF PercentEncoded
<1> HIDE DEF piece, E, n
<1>9. FlattenSeq(piece) \in Seq(E) /\ Len(FlattenSeq(piece)) = m[n]
  <2>1. Pieces(piece, n, m, E)
    BY <1>1, <1>2, <1>6, <1>7 DEF Pieces
  <2> QED BY <2>1, FlattenFacts
<1> QED BY <1>2, <1>3, <1>7, <1>9, ListIn DEF Size

(* The base64 writer writes what base64_len announces. *)
LEMMA Base64Size ==
  ASSUME NEW p, Len(p) \in Nat
  PROVE  /\ IsList(Base64(p)) /\ Base64Len(Len(p)) \in Nat
         /\ Size(Base64(p)) = Base64Len(Len(p))
<1> DEFINE chunks == Chunks(p, 3)
           n == Len(chunks)
           k == (Len(p) + 2) \div 3
           quartets == [i \in 1 .. n |-> Quartet(chunks[i])]
           m == [i \in 0 .. n |-> 4 * i]
           E == UNION {Range(quartets[i]) : i \in 1 .. n}
<1>1. n = k /\ k \in Nat
  <2>1. Len(p) + 3 - 1 = Len(p) + 2 /\ k \in Nat
    OBVIOUS
  <2> QED BY <2>1 DEF Chunks
<1>2. ASSUME NEW i \in 1 .. n PROVE quartets[i] \in Seq(E) /\ Len(quartets[i]) = 4
  <2> DEFINE q == Quartet(chunks[i])
  <2>1. q = [j \in 1 .. 4 |-> q[j]] /\ quartets[i] = q
    BY DEF Quartet
  <2> HIDE DEF q
  <2>2. IsList(q) /\ Size(q) = 4
    BY Zenon, <2>1, ListMade
  <2>3. Range(q) \subseteq E
    BY <2>1
  <2> HIDE DEF E
  <2> QED BY <2>1, <2>2, <2>3, ListTyped DEF Size
<1>3. \A i \in 1 .. n : quartets[i] \in Seq(E) /\ m[i] = m[i - 1] + Len(quartets[i])
  <2> SUFFICES ASSUME NEW i \in 1 .. n
               PROVE  quartets[i] \in Seq(E) /\ m[i] = m[i - 1] + Len(quartets[i])
    BY Zenon
  <2>1. m[i] = 4 * i /\ m[i - 1] = 4 * (i - 1)
    <3>1. i \in 0 .. n /\ i - 1 \in 0 .. n
      BY <1>1
    <3> HIDE DEF n
    <3> QED BY <3>1
  <2>2. i \in Nat /\ i - 1 \in Nat
    <3> HIDE DEF k, n
    <3> QED BY <1>1
  <2>3. 4 * i = 4 * (i - 1) + 4
    BY <2>2
  <2> HIDE DEF m, quartets, E, n
  <2> QED BY Zenon, <1>2, <2>1, <2>3
<1>4. quartets = [i \in 1 .. n |-> quartets[i]] /\ Base64(p) = FlattenSeq(quartets)
  BY DEF Base64
<1>5. m[0] = 0 /\ m[n] = 4 * k
  <2> HIDE DEF chunks, n, k
  <2> QED BY <1>1
<1> HIDE DEF m, quartets, E, n
<1>6. FlattenSeq(quartets) \in Seq(E) /\ Len(FlattenSeq(quartets)) = m[n]
  <2>1. n \in Nat
    BY <1>1
  <2>2. Pieces(quartets, n, m, E)
    BY <1>3, <1>4, <1>5, <2>1 DEF Pieces
  <2> QED BY <2>2, FlattenFacts
<1>7. Base64Len(Len(p)) = 4 * k /\ 4 * k \in Nat
  <2>1. Base64Len(Len(p)) = k * 4
    BY DEF Base64Len
  <2> HIDE DEF k
  <2> QED BY <1>1, <2>1
<1> QED BY <1>4, <1>5, <1>6, <1>7, ListIn DEF Size

-----------------------------------------------------------------------------
(* Every kind of item.                                                      *)

Exact(bytes, n) == IsList(bytes) /\ n \in Nat /\ Size(bytes) = n

(* Tuples of five. *)
LEMMA FiveBytes ==
  ASSUME NEW a, NEW b, NEW c, NEW d, NEW e
  PROVE  IsList(<<a, b, c, d, e>>) /\ Size(<<a, b, c, d, e>>) = 5
<1> DEFINE E == {a, b, c, d, e}
<1>1. a \in E /\ b \in E /\ c \in E /\ d \in E /\ e \in E
  OBVIOUS
<1> HIDE DEF E
<1>2. <<a, b, c, d, e>> \in Seq(E) /\ Len(<<a, b, c, d, e>>) = 5
  BY <1>1
<1> QED BY Zenon, <1>2, ListIn DEF Size

(* CSI n final. *)
LEMMA CsiNSize ==
  ASSUME NEW n \in U16, NEW final
  PROVE  Exact(CsiN(n, final), CsiNLen(n))
<1> n \in Nat
  BY DEF U16
<1>1. CASE n = 0
  BY <1>1, ListLiteral DEF CsiN, CsiNLen, Exact, Literals
<1>2. CASE n # 0
  <2> DEFINE d == Itoa(n)
             f == <<final>>
  <2>1. CsiN(n, final) = CSI \o d \o f /\ CsiNLen(n) = 2 + DecLen(n) + 1
    BY <1>2 DEF CsiN, CsiNLen
  <2>2. IsList(d) /\ Size(d) = DecLen(n) /\ DecLen(n) \in 1 .. 5
    BY ItoaSize
  <2>3. IsList(f) /\ Size(f) = 1
    BY ListLiteral DEF Literals
  <2> HIDE DEF d, f
  <2> QED BY <2>1, <2>2, <2>3, FrameSize, SizeCat DEF Adds, Exact
<1> QED BY <1>1, <1>2

(* Cursor items. *)
LEMMA CursorSize ==
  ASSUME NEW i,
         \/ i.move \in DOMAIN MoveFinal /\ i.n \in U16
         \/ i.move = "goto" /\ i.row \in U16 /\ i.col \in U16
         \/ i.move \in {"save", "restore"}
  PROVE  Exact(CursorBytes(i), CursorLen(i))
<1> DOMAIN MoveFinal = {"up", "down", "right", "left"}
  BY DEF MoveFinal
<1>1. CASE i.move \in DOMAIN MoveFinal /\ i.n \in U16
  <2>1. CursorBytes(i) = CsiN(i.n, MoveFinal[i.move]) /\ CursorLen(i) = CsiNLen(i.n)
    BY Zenon, <1>1 DEF CursorBytes, CursorLen
  <2> QED BY <1>1, <2>1, CsiNSize
<1>2. CASE i.move = "goto" /\ i.row \in U16 /\ i.col \in U16
  <2> DEFINE r == Itoa(i.row)
             c == Itoa(i.col)
             m == <<";">>
             h == <<"H">>
             front == CSI \o r \o m
             k == 2 + DecLen(i.row) + 1
  <2>1. CursorBytes(i) = front \o c \o h /\ CursorLen(i) = k + DecLen(i.col) + 1
    BY Zenon, <1>2 DEF CursorBytes, CursorLen
  <2>2. /\ IsList(r) /\ Size(r) = DecLen(i.row) /\ DecLen(i.row) \in 1 .. 5
        /\ IsList(c) /\ Size(c) = DecLen(i.col) /\ DecLen(i.col) \in 1 .. 5
    BY <1>2, ItoaSize DEF U16
  <2>3. IsList(m) /\ Size(m) = 1 /\ IsList(h) /\ Size(h) = 1
    BY Zenon, ListLiteral DEF Literals
  <2> HIDE DEF r, c, m, h
  <2>4. IsList(front) /\ Size(front) = k /\ k \in Nat
    BY <2>2, <2>3, FrameSize, SizeCat DEF Adds
  <2> HIDE DEF front, k
  <2> QED BY <2>1, <2>2, <2>3, <2>4, SizeCat DEF Adds, Exact
<1>3. CASE i.move \in {"save", "restore"}
  <2>1. CursorLen(i) = 2 /\ CursorBytes(i) \in {<<ESC, "7">>, <<ESC, "8">>}
    BY Zenon, <1>3 DEF CursorBytes, CursorLen
  <2> QED BY <2>1, ListLiteral DEF Literals, Exact
<1> QED BY <1>1, <1>2, <1>3

(* Erase items. *)
LEMMA EraseSize == \A i : Exact(EraseBytes(i), EraseLen)
<1> SUFFICES ASSUME NEW i PROVE Exact(EraseBytes(i), EraseLen)
  OBVIOUS
<1> DEFINE b == <<i.part, i.final>>
<1>1. EraseBytes(i) = CSI \o b /\ EraseLen = 4
  BY DEF EraseBytes, EraseLen
<1>2. IsList(b) /\ Size(b) = 2
  BY ListLiteral DEF Literals
<1> HIDE DEF b
<1> QED BY <1>1, <1>2, FrameSize, SizeCat DEF Adds, Exact

(* ModeSet and ModeReset. *)
LEMMA ModeSize ==
  ASSUME NEW mode \in DOMAIN ModeNumber, NEW final
  PROVE  Exact(ModeBytes(mode, final), ModeLen(mode))
<1> DEFINE n == ModeNumber[mode]
           d == Itoa(n)
           q == <<"?">>
           f == <<final>>
           front == CSI \o q \o d
<1>1. n \in Nat
  BY DEF ModeNumber
<1>2. ModeBytes(mode, final) = front \o f /\ ModeLen(mode) = 3 + DecLen(n) + 1
  BY DEF ModeBytes, ModeLen
<1>3. IsList(d) /\ Size(d) = DecLen(n) /\ DecLen(n) \in 1 .. 5
  BY <1>1, ItoaSize
<1>4. IsList(q) /\ Size(q) = 1 /\ IsList(f) /\ Size(f) = 1
  BY ListLiteral DEF Literals
<1> HIDE DEF n, d, q, f
<1>5. IsList(front) /\ Size(front) = 3 + DecLen(n)
  BY <1>3, <1>4, FrameSize, SizeCat DEF Adds
<1> HIDE DEF front
<1> QED BY <1>2, <1>3, <1>4, <1>5, SizeCat DEF Adds, Exact

(* The kitty keyboard items. *)
LEMMA KittySize ==
  ASSUME NEW k,
         \/ k.op = "push" /\ k.flags \in 0 .. 255
         \/ k.op = "pop" /\ k.count \in U16
         \/ k.op = "set" /\ k.flags \in 0 .. 255 /\ k.mode \in DOMAIN SetModeNumber
         \/ k.op = "query"
  PROVE  Exact(KittyBytes(k), KittyLen(k))
<1>1. ASSUME NEW n \in Nat, NEW lead
      PROVE  /\ IsList(CSI \o <<lead>> \o Itoa(n)) /\ DecLen(n) \in 1 .. 5
             /\ Size(CSI \o <<lead>> \o Itoa(n)) = 3 + DecLen(n)
  <2> DEFINE d == Itoa(n)
             l == <<lead>>
  <2>1. IsList(d) /\ Size(d) = DecLen(n) /\ DecLen(n) \in 1 .. 5
    BY ItoaSize
  <2>2. IsList(l) /\ Size(l) = 1
    BY ListLiteral DEF Literals
  <2> DEFINE k0 == DecLen(n)
             front == CSI \o l
  <2> HIDE DEF d, l, k0
  <2>3. IsList(front) /\ Size(front) = 3
    BY <2>2, FrameSize, SizeCat DEF Adds
  <2> HIDE DEF front
  <2>4. IsList(front \o d) /\ Size(front \o d) = 3 + DecLen(n)
    BY <2>1, <2>3, SizeCat DEF Adds
  <2> QED BY <2>1, <2>4 DEF front, d, l
<1> DEFINE u == <<"u">>
<1>2. IsList(u) /\ Size(u) = 1
  BY ListLiteral DEF Literals
<1>3. CASE k.op = "push" /\ k.flags \in 0 .. 255
  <2> DEFINE front == CSI \o <<">">> \o Itoa(k.flags)
  <2>1. KittyBytes(k) = front \o u /\ KittyLen(k) = 3 + DecLen(k.flags) + 1
    BY <1>3 DEF KittyBytes, KittyLen
  <2>2. IsList(front) /\ DecLen(k.flags) \in 1 .. 5 /\ Size(front) = 3 + DecLen(k.flags)
    BY <1>1, <1>3
  <2> HIDE DEF front, u
  <2> QED BY <1>2, <2>1, <2>2, SizeCat DEF Adds, Exact
<1>4. CASE k.op = "pop" /\ k.count \in U16
  <2> DEFINE n == PopCount(k.count)
             front == CSI \o <<"<">> \o Itoa(n)
  <2>1. KittyBytes(k) = front \o u /\ KittyLen(k) = 3 + DecLen(n) + 1
    BY <1>4 DEF KittyBytes, KittyLen
  <2>2. n \in Nat
    BY <1>4 DEF PopCount, U16
  <2> HIDE DEF n
  <2>3. IsList(front) /\ DecLen(n) \in 1 .. 5 /\ Size(front) = 3 + DecLen(n)
    BY <1>1, <2>2
  <2> HIDE DEF front, u
  <2> QED BY <1>2, <2>1, <2>3, SizeCat DEF Adds, Exact
<1>5. CASE k.op = "set" /\ k.flags \in 0 .. 255 /\ k.mode \in DOMAIN SetModeNumber
  <2> DEFINE m == SetModeNumber[k.mode]
             d == Itoa(m)
             front == CSI \o <<"=">> \o Itoa(k.flags)
             semi == <<";">>
             back2 == front \o semi \o d
  <2>1. KittyBytes(k) = back2 \o u /\ KittyLen(k) = 3 + DecLen(k.flags) + 1 + DecLen(m) + 1
    BY Zenon, <1>5 DEF KittyBytes, KittyLen
  <2>2. IsList(front) /\ DecLen(k.flags) \in 1 .. 5 /\ Size(front) = 3 + DecLen(k.flags)
    BY <1>1, <1>5
  <2>3. m \in Nat
    BY <1>5 DEF SetModeNumber
  <2>4. IsList(d) /\ Size(d) = DecLen(m) /\ DecLen(m) \in 1 .. 5
    BY <2>3, ItoaSize
  <2>5. IsList(semi) /\ Size(semi) = 1
    BY Zenon, ListLiteral DEF Literals
  <2> HIDE DEF front, u, d, m, semi
  <2>6. IsList(back2) /\ Size(back2) = 4 + DecLen(k.flags) + DecLen(m)
    BY <2>2, <2>4, <2>5, SizeCat DEF Adds
  <2> HIDE DEF back2
  <2> QED BY <1>2, <2>1, <2>2, <2>4, <2>6, SizeCat DEF Adds, Exact
<1>6. CASE k.op = "query"
  <2> DEFINE q == <<"?", "u">>
  <2>1. KittyBytes(k) = CSI \o q /\ KittyLen(k) = 4
    BY <1>6 DEF KittyBytes, KittyLen
  <2>2. IsList(q) /\ Size(q) = 2
    BY ListLiteral DEF Literals
  <2> HIDE DEF q
  <2> QED BY <2>1, <2>2, FrameSize, SizeCat DEF Adds, Exact
<1> QED BY <1>3, <1>4, <1>5, <1>6

(* Osc7: host and path are percent-encoded. *)
LEMMA Osc7Size ==
  ASSUME NEW A, NEW host \in Seq(A), NEW path \in Seq(A)
  PROVE  Exact(Osc7Bytes(host, path), Osc7Len(host, path))
<1> DEFINE h == PercentEncoded(host)
           p == PercentEncoded(path)
           pad == PathPad(path)
           a == PercentEncodedLen(host)
           b == PercentEncodedLen(path)
           c == Len(pad)
           seven == <<"7", ";">>
           url == FileUrl
           one == OSC \o seven \o url
           two == one \o h \o pad
<1>1. Osc7Bytes(host, path) = two \o p \o ST /\ Osc7Len(host, path) = 2 + 9 + a + c + b + 2
  BY DEF Osc7Bytes, Osc7Len
<1>2. IsList(h) /\ a \in Nat /\ Size(h) = a /\ IsList(p) /\ b \in Nat /\ Size(p) = b
  BY PercentSize
<1>3. IsList(pad) /\ Size(pad) = c /\ c \in Nat
  <2>1. pad \in {<<>>, <<"/">>}
    BY DEF PathPad
  <2> HIDE DEF pad
  <2>2. IsList(pad) /\ Size(pad) \in Nat
    BY <2>1, ListLiteral DEF Literals
  <2> QED BY <2>2 DEF Size
<1>4. IsList(seven) /\ Size(seven) = 2
  BY Zenon, ListLiteral DEF Literals
<1>5. IsList(url) /\ Size(url) = 7
  BY DEF FileUrl, IsList, Size, Range
<1> HIDE DEF h, p, pad, a, b, c, seven, url
<1>6. IsList(one) /\ Size(one) = 11
  BY <1>4, <1>5, FrameSize, SizeCat DEF Adds
<1> HIDE DEF one
<1>7. IsList(two) /\ Size(two) = 11 + a + c
  BY <1>2, <1>3, <1>6, SizeCat DEF Adds
<1> HIDE DEF two
<1>8. IsList(two \o p \o ST) /\ Size(two \o p \o ST) = 11 + a + c + b + 2
  BY <1>2, <1>3, <1>7, FrameSize, SizeCat DEF Adds
<1> QED BY <1>1, <1>2, <1>3, <1>8 DEF Exact

(* Osc8: with and without an id. *)
LEMMA Osc8Size ==
  ASSUME NEW uri, NEW id, IsList(uri), IsList(id)
  PROVE  Exact(Osc8Bytes(uri, id), Osc8Len(uri, id))
<1> DEFINE p == IdParam(id)
           eight == <<"8", ";">>
           semi == <<";">>
           front == OSC \o eight \o p
           lp == Len(p)
           lu == Len(uri)
<1>1. Osc8Bytes(uri, id) = front \o semi \o uri \o ST
      /\ Osc8Len(uri, id) = 2 + 2 + lp + 1 + lu + 2
  BY DEF Osc8Bytes, Osc8Len
<1>2. IsList(p)
  <2> DEFINE tag == <<"i", "d", "=">>
  <2>1. IsList(tag) /\ IsList(<<>>)
    BY ListLiteral DEF Literals
  <2>2. IsList(tag \o id)
    <3> HIDE DEF tag
    <3> QED BY <2>1, SizeCat DEF Adds
  <2> QED BY <2>1, <2>2 DEF IdParam
<1>3. Size(p) = lp /\ Size(uri) = lu
  BY DEF Size
<1>4. IsList(eight) /\ Size(eight) = 2 /\ IsList(semi) /\ Size(semi) = 1
  BY Zenon, ListLiteral DEF Literals
<1> HIDE DEF p, eight, semi, lp, lu
<1>5. IsList(front) /\ Size(front) = 4 + lp /\ lp \in Nat
  BY <1>2, <1>3, <1>4, FrameSize, SizeCat DEF Adds
<1> HIDE DEF front
<1> DEFINE more == front \o semi \o uri
<1>6. IsList(more) /\ Size(more) = 5 + lp + lu /\ lu \in Nat
  BY <1>3, <1>4, <1>5, SizeCat DEF Adds
<1> HIDE DEF more
<1>7. IsList(more \o ST) /\ Size(more \o ST) = 7 + lp + lu
  BY <1>5, <1>6, FrameSize, SizeCat DEF Adds
<1>8. Osc8Bytes(uri, id) = more \o ST
  BY <1>1 DEF more
<1> QED BY <1>1, <1>5, <1>6, <1>7, <1>8 DEF Exact

(* Osc52: the payload in base64. *)
LEMMA Osc52Size ==
  ASSUME NEW p, Len(p) \in Nat
  PROVE  Exact(Osc52Bytes(p), Osc52Len(p))
<1> DEFINE b == Base64(p)
           n == Base64Len(Len(p))
           tag == <<"5", "2", ";", "c", ";">>
           front == OSC \o tag
<1>1. Osc52Bytes(p) = front \o b \o ST /\ Osc52Len(p) = 2 + 5 + n + 2
  BY DEF Osc52Bytes, Osc52Len
<1>2. IsList(b) /\ n \in Nat /\ Size(b) = n
  BY Base64Size
<1>3. IsList(tag) /\ Size(tag) = 5
  BY Zenon, FiveBytes
<1> HIDE DEF b, n, tag
<1>4. IsList(front) /\ Size(front) = 7
  BY <1>3, FrameSize, SizeCat DEF Adds
<1> HIDE DEF front
<1>5. IsList(front \o b \o ST) /\ Size(front \o b \o ST) = 7 + n + 2
  BY <1>2, <1>4, FrameSize, SizeCat DEF Adds
<1> QED BY <1>1, <1>2, <1>5 DEF Exact

(* Osc133 marks. *)
LEMMA Osc133Size == \A mark : Exact(Osc133Bytes(mark), Osc133Len)
<1> SUFFICES ASSUME NEW mark PROVE Exact(Osc133Bytes(mark), Osc133Len)
  OBVIOUS
<1> DEFINE tag == <<"1", "3", "3", ";", MarkLetter[mark]>>
<1>1. Osc133Bytes(mark) = OSC \o tag \o ST /\ Osc133Len = 9
  BY DEF Osc133Bytes, Osc133Len
<1>2. IsList(tag) /\ Size(tag) = 5
  BY Zenon, FiveBytes
<1> HIDE DEF tag
<1>3. IsList(OSC \o tag \o ST) /\ Size(OSC \o tag \o ST) = 9
  BY <1>2, FrameSize, SizeCat DEF Adds
<1> QED BY <1>1, <1>3 DEF Exact

(* Queries are constant byte strings. *)
LEMMA QuerySize ==
  ASSUME NEW q \in DOMAIN QueryBytes
  PROVE  Exact(QueryBytes[q], Len(QueryBytes[q]))
<1>1. IsList(QueryBytes[q])
  <2>1. ASSUME NEW f, IsList(f) PROVE IsList(CSI \o f) /\ IsList(OSC \o f \o ST)
    BY <2>1, FrameSize, SizeCat DEF Adds
  <2>2. CASE q = "da1"
    <3>1. QueryBytes[q] = CSI \o <<"c">> /\ IsList(<<"c">>)
      BY <2>2, ListLiteral DEF QueryBytes, Literals
    <3> QED BY <2>1, <3>1
  <2>3. CASE q = "dsr"
    <3>1. QueryBytes[q] = CSI \o <<"6", "n">> /\ IsList(<<"6", "n">>)
      BY <2>3, ListLiteral DEF QueryBytes, Literals
    <3> QED BY <2>1, <3>1
  <2>4. CASE q = "decrpm"
    <3> DEFINE f == <<"?", "2", "0", "0", "4", "$", "p">>
    <3>1. QueryBytes[q] = CSI \o f
      BY Zenon, <2>4 DEF QueryBytes
    <3>2. f \in Seq({"?", "2", "0", "4", "$", "p"})
      OBVIOUS
    <3> HIDE DEF f
    <3> QED BY <2>1, <3>1, <3>2, ListIn
  <2>5. CASE q = "osc52"
    <3> DEFINE f == <<"5", "2", ";", "c", ";", "?">>
    <3>1. QueryBytes[q] = OSC \o f \o ST
      BY Zenon, <2>5 DEF QueryBytes
    <3>2. f \in Seq({"?", "2", "5", ";", "c"})
      OBVIOUS
    <3> HIDE DEF f
    <3> QED BY Zenon, <2>1, <3>1, <3>2, ListIn
  <2>6. CASE q = "kitty"
    <3>1. QueryBytes[q] = CSI \o <<"?", "u">> /\ IsList(<<"?", "u">>)
      BY <2>6, ListLiteral DEF QueryBytes, Literals
    <3> QED BY <2>1, <3>1
  <2> QED BY Zenon, <2>2, <2>3, <2>4, <2>5, <2>6 DEF QueryBytes
<1> QED BY <1>1, SizeCat DEF Exact, Adds, Size

(* What an item adds to its announced length. *)
Surplus(i) == IF i.kind = "sgr" THEN Wide(i.style.bg) ELSE 0

(* Every item, whatever its fields: encode writes as many bytes as        *)
(* encoded_len announces, and one more for a bright background other than *)
(* white.                                                                 *)
THEOREM EncodeSize ==
  ASSUME NEW i \in Item
  PROVE  /\ IsList(EncodeDyn(i)) /\ EncodedLenDyn(i) \in Nat /\ Surplus(i) \in {0, 1}
         /\ Size(EncodeDyn(i)) = EncodedLenDyn(i) + Surplus(i)
<1> DEFINE b == EncodeDyn(i)
           n == EncodedLenDyn(i)
           w == Surplus(i)
<1>1. CASE i.kind = "sgr" /\ i.style \in Styles
  <2>1. b = SgrBytes(i.style) /\ n = SgrLen(i.style) /\ w = Wide(i.style.bg)
    BY <1>1 DEF EncodeDyn, EncodedLenDyn, Surplus
  <2>2. IsList(SgrBytes(i.style)) /\ SgrLen(i.style) \in Nat /\ Wide(i.style.bg) \in {0, 1}
        /\ Size(SgrBytes(i.style)) = SgrLen(i.style) + Wide(i.style.bg)
    BY <1>1, SgrSize DEF Wide
  <2> QED BY <2>1, <2>2
<1>2. i.kind # "sgr" /\ Exact(b, n) => IsList(b) /\ n \in Nat /\ w \in {0, 1} /\ Size(b) = n + w
  <2>1. i.kind # "sgr" => w = 0
    BY DEF Surplus
  <2> HIDE DEF b, n, w
  <2> QED BY <2>1 DEF Exact
<1>3. CASE i.kind = "cursor" /\ (\/ i.move \in DOMAIN MoveFinal /\ i.n \in U16
                                 \/ i.move = "goto" /\ i.row \in U16 /\ i.col \in U16
                                 \/ i.move \in {"save", "restore"})
  <2>1. b = CursorBytes(i) /\ n = CursorLen(i)
    BY <1>3 DEF EncodeDyn, EncodedLenDyn
  <2> QED BY <1>2, <1>3, <2>1, CursorSize
<1>4. CASE i.kind = "erase"
  <2>1. b = EraseBytes(i) /\ n = EraseLen
    BY <1>4 DEF EncodeDyn, EncodedLenDyn
  <2> QED BY <1>2, <1>4, <2>1, EraseSize
<1>5. CASE i.kind \in {"modeSet", "modeReset"} /\ i.mode \in DOMAIN ModeNumber
  <2>1. b \in {ModeBytes(i.mode, "h"), ModeBytes(i.mode, "l")} /\ n = ModeLen(i.mode)
    BY <1>5 DEF EncodeDyn, EncodedLenDyn
  <2> QED BY <1>2, <1>5, <2>1, ModeSize
<1>6. CASE i.kind = "kitty" /\ (\/ i.op = "push" /\ i.flags \in 0 .. 255
                                \/ i.op = "pop" /\ i.count \in U16
                                \/ i.op = "set" /\ i.flags \in 0 .. 255 /\ i.mode \in DOMAIN SetModeNumber
                                \/ i.op = "query")
  <2>1. b = KittyBytes(i) /\ n = KittyLen(i)
    BY <1>6 DEF EncodeDyn, EncodedLenDyn
  <2> QED BY <1>2, <1>6, <2>1, KittySize
<1>7. CASE i.kind = "osc7" /\ i.host \in Seq(STRING) /\ i.path \in Seq(STRING)
  <2>1. b = Osc7Bytes(i.host, i.path) /\ n = Osc7Len(i.host, i.path)
    BY <1>7 DEF EncodeDyn, EncodedLenDyn
  <2> QED BY <1>2, <1>7, <2>1, Osc7Size
<1>8. CASE i.kind = "osc8" /\ i.uri \in Seq(STRING) /\ i.id \in Seq(STRING)
  <2>1. b = Osc8Bytes(i.uri, i.id) /\ n = Osc8Len(i.uri, i.id)
    BY <1>8 DEF EncodeDyn, EncodedLenDyn
  <2>2. IsList(i.uri) /\ IsList(i.id)
    BY <1>8, ListIn
  <2> QED BY <1>2, <1>8, <2>1, <2>2, Osc8Size
<1>9. CASE i.kind = "osc52" /\ i.payload \in Seq(0 .. 255)
  <2>1. b = Osc52Bytes(i.payload) /\ n = Osc52Len(i.payload)
    BY <1>9 DEF EncodeDyn, EncodedLenDyn
  <2>2. Len(i.payload) \in Nat
    BY <1>9
  <2> QED BY <1>2, <1>9, <2>1, <2>2, Osc52Size
<1>10. CASE i.kind = "osc133"
  <2>1. b = Osc133Bytes(i.mark) /\ n = Osc133Len
    BY <1>10 DEF EncodeDyn, EncodedLenDyn
  <2> QED BY <1>2, <1>10, <2>1, Osc133Size
<1>11. CASE i.kind = "query" /\ i.ask \in DOMAIN QueryBytes
  <2>1. b = QueryBytes[i.ask] /\ n = Len(QueryBytes[i.ask])
    BY <1>11 DEF EncodeDyn, EncodedLenDyn
  <2> QED BY <1>2, <1>11, <2>1, QuerySize
<1> HIDE DEF b, n, w
<1> QED BY <1>1, <1>3, <1>4, <1>5, <1>6, <1>7, <1>8, <1>9, <1>10, <1>11 DEF Item, b, n, w

-----------------------------------------------------------------------------
(* A batch.                                                                 *)

TotalStep == [q \in Nat \X Item |-> q[1] + EncodedLenDyn(q[2])]

(* One more item of a batch. *)
LEMMA TotalStepType == StepOf(TotalStep, Nat, Item)
<1>1. \A n \in Nat, i \in Item : n + EncodedLenDyn(i) \in Nat
  BY EncodeSize
<1> QED BY <1>1 DEF StepOf, TotalStep

(* The count announced for a batch, as a fold. *)
LEMMA TotalIsFold ==
  ASSUME NEW s, ListOf(s, Item)
  PROVE  EncodedLenAll(s) = Fold(TotalStep, 0, s)
<1> DEFINE step == TotalStep
           base == 0
           Val == Nat
           E == Item
<1>1. base \in Val /\ StepOf(step, Val, E)
  BY TotalStepType
<1>2. \E a : FoldedBy(a, Val, step, base, s)
  <2> HIDE DEF step, Val, base, E
  <2>1. ListOf(s, E)
    BY DEF E
  <2> QED BY <1>1, <2>1, FoldRule
<1>3. PICK a : FoldedBy(a, Val, step, base, s)
  BY <1>2
<1>4. Len(s) \in Nat /\ DOMAIN s = 1 .. Len(s) /\ \A i \in DOMAIN s : s[i] \in E
  BY DEF ListOf
<1>5. ASSUME NEW T \in SUBSET DOMAIN s, T # {}
      PROVE  a[T] = a[T \ {Max(T)}] + EncodedLenDyn(s[Max(T)])
  <2>1. Max(T) \in DOMAIN s
    BY Zenon, <1>4, <1>5, GreatestNumber
  <2>2. a[T] = step[<<a[T \ {Max(T)}], s[Max(T)]>>]
    <3> HIDE DEF step, base, Val
    <3> QED BY Zenon, <1>3, <1>5 DEF FoldedBy, FoldsOver
  <2>3. a[T \ {Max(T)}] \in Val /\ s[Max(T)] \in E
    <3> HIDE DEF step, base, Val, E
    <3> QED BY <1>3, <1>4, <2>1 DEF FoldedBy
  <2> QED BY <2>2, <2>3 DEF TotalStep
<1>6. a = [T \in SUBSET DOMAIN s |->
             IF T = {} THEN 0
             ELSE a[T \ {Max(T)}] + EncodedLenDyn(s[Max(T)])]
  <2>1. a[{}] = 0 /\ a = [T \in SUBSET DOMAIN s |-> a[T]]
    <3> HIDE DEF step, Val
    <3> QED BY <1>3 DEF FoldedBy, FoldsOver
  <2> HIDE DEF step, Val, base, E
  <2> QED BY Zenon, <1>5, <2>1
<1>7. PICK b : /\ b = [T \in SUBSET DOMAIN s |->
                       IF T = {} THEN 0
                       ELSE b[T \ {Max(T)}] + EncodedLenDyn(s[Max(T)])]
               /\ EncodedLenAll(s) = b[DOMAIN s]
  <2> HIDE DEF step, Val, base, E
  <2>1. \E b : b = [T \in SUBSET DOMAIN s |->
                       IF T = {} THEN 0
                       ELSE b[T \ {Max(T)}] + EncodedLenDyn(s[Max(T)])]
    BY Zenon, <1>6
  <2> QED BY Zenon, <2>1 DEF EncodedLenAll, FoldLeft, MapThenFoldSet
<1>8. a[{}] = b[{}] /\ AgreeOnLast(s, a, b) /\ IsSeq(s)
  <2> HIDE DEF step, Val, base, E
  <2> QED BY Zenon, <1>4, <1>6, <1>7 DEF AgreeOnLast, IsSeq
<1>9. \A T \in SUBSET DOMAIN s : a[T] = b[T]
  BY <1>8, FoldsAgree
<1> QED BY Zenon, <1>3, <1>7, <1>9 DEF FoldedBy

(* encoded_len_all, one item at a time from the back. *)
LEMMA TotalAppend ==
  ASSUME NEW u \in Seq(Item), NEW x \in Item
  PROVE  /\ EncodedLenAll(u) \in Nat /\ EncodedLenAll(<<>>) = 0
         /\ EncodedLenAll(Append(u, x)) = EncodedLenAll(u) + EncodedLenDyn(x)
<1> DEFINE step == TotalStep
           Val == Nat
           zero == 0
           none == <<>>
           q == Append(u, x)
<1>1. ListOf(u, Item) /\ ListOf(q, Item) /\ ListOf(none, Item)
  BY DEF ListOf
<1>2. zero \in Val /\ StepOf(step, Val, Item)
  BY TotalStepType
<1>3. /\ EncodedLenAll(u) = Fold(step, zero, u) /\ EncodedLenAll(q) = Fold(step, zero, q)
      /\ EncodedLenAll(none) = Fold(step, zero, none)
  <2> HIDE DEF q, none
  <2> QED BY <1>1, TotalIsFold
<1>4. Fold(step, zero, Append(u, x)) = step[<<Fold(step, zero, u), x>>] /\ Fold(step, zero, u) \in Val
  <2>1. ListOf(u, Item)
    BY <1>1
  <2> HIDE DEF step, Val, zero, q
  <2> QED BY Zenon, <1>2, <2>1, FoldAppend
<1>5. Fold(step, zero, none) = zero
  BY FoldEmpty
<1>6. ASSUME NEW v \in Val PROVE step[<<v, x>>] = v + EncodedLenDyn(x)
  BY DEF TotalStep
<1> HIDE DEF step
<1>7. EncodedLenAll(q) = EncodedLenAll(u) + EncodedLenDyn(x)
  BY <1>3, <1>4, <1>6
<1>8. EncodedLenAll(u) \in Nat /\ EncodedLenAll(<<>>) = 0
  BY <1>3, <1>4, <1>5
<1> QED BY <1>7, <1>8

(* encoded_len_all is a number, and nothing has length zero. *)
LEMMA TotalNat ==
  ASSUME NEW t \in Seq(Item)
  PROVE  EncodedLenAll(t) \in Nat /\ EncodedLenAll(<<>>) = 0
<1>1. [kind |-> "cursor", move |-> "save"] \in Item
  BY DEF Item
<1> DEFINE x == [kind |-> "cursor", move |-> "save"]
<1> HIDE DEF x
<1>2. x \in Item
  BY <1>1 DEF x
<1> QED BY <1>2, TotalAppend

(* encoded_len_all, one item at a time from the front, as encode_all      *)
(* writes.                                                                *)
LEMMA TotalFront ==
  ASSUME NEW x \in Item, NEW s \in Seq(Item)
  PROVE  EncodedLenAll(<<x>> \o s) = EncodedLenDyn(x) + EncodedLenAll(s)
<1> DEFINE Q == {u \in Seq(Item) : EncodedLenAll(<<x>> \o u) = EncodedLenDyn(x) + EncodedLenAll(u)}
           one == <<x>>
<1>1. <<>> \in Q
  <2> DEFINE none == <<>>
  <2>1. none \in Seq(Item) /\ one \o none = Append(none, x)
    OBVIOUS
  <2>2. EncodedLenAll(none) = 0 /\ EncodedLenDyn(x) \in Nat
        /\ EncodedLenAll(Append(none, x)) = EncodedLenAll(none) + EncodedLenDyn(x)
    <3> HIDE DEF none
    <3>1. EncodedLenAll(Append(none, x)) = EncodedLenAll(none) + EncodedLenDyn(x)
      BY <2>1, TotalAppend
    <3>2. EncodedLenAll(<<>>) = 0
      BY <2>1, TotalAppend
    <3> QED BY <3>1, <3>2, EncodeSize DEF none
  <2> HIDE DEF none, one
  <2>3. EncodedLenAll(one \o none) = EncodedLenDyn(x) + EncodedLenAll(none)
    BY <2>1, <2>2
  <2> QED BY <2>1, <2>3 DEF none, one
<1>2. ASSUME NEW u \in Seq(Item), NEW y \in Item, u \in Q PROVE Append(u, y) \in Q
  <2> DEFINE q == Append(u, y)
             f == one \o u
  <2>1. q \in Seq(Item) /\ f \in Seq(Item) /\ one \o q = Append(f, y)
    OBVIOUS
  <2>2. EncodedLenAll(f) = EncodedLenDyn(x) + EncodedLenAll(u)
    BY <1>2
  <2>3. /\ EncodedLenAll(Append(u, y)) = EncodedLenAll(u) + EncodedLenDyn(y)
        /\ EncodedLenAll(u) \in Nat /\ EncodedLenDyn(x) \in Nat /\ EncodedLenDyn(y) \in Nat
    BY TotalAppend, EncodeSize
  <2>4. EncodedLenAll(Append(f, y)) = EncodedLenAll(f) + EncodedLenDyn(y)
    <3>1. f \in Seq(Item)
      BY <2>1
    <3> HIDE DEF f, q
    <3> QED BY <3>1, TotalAppend
  <2>5. EncodedLenAll(one \o q) = EncodedLenDyn(x) + EncodedLenAll(q)
    <3> HIDE DEF f, one
    <3> QED BY <2>1, <2>2, <2>3, <2>4
  <2> QED BY <2>1, <2>5
<1>3. s \in Q
  <2>1. ListOf(s, Item)
    BY DEF ListOf
  <2> HIDE DEF Q
  <2> QED BY <1>1, <1>2, <2>1, ListsInductive
<1> QED BY <1>3

(* The items whose announced length is right: all but the styles with a     *)
(* bright background other than white; the run codec_length shows what      *)
(* happens with those.                                                      *)
Narrow == {i \in Item : Surplus(i) = 0}

LenInv ==
  /\ todo \in Seq(Narrow) /\ wrote \in Nat /\ promised \in Nat /\ batches \in Nat
  /\ result # "panic"
  /\ result = "writing" => wrote + EncodedLenAll(todo) = promised
  /\ result = "ok" => wrote = promised

(* LenIsExact: when no batch has a style with a bright background other   *)
(* than white, encode_all writes exactly the bytes it announced, and the  *)
(* debug assertion of encode_checked never fails.                         *)
THEOREM LengthsAreExact ==
  ASSUME \A k \in 1 .. Len(Batches) : Batches[k] \subseteq Seq(Narrow)
  PROVE  Spec => []LenIsExact
<1>1. Init => LenInv
  BY DEF Init, LenInv
<1>2. LenInv /\ [Next]_vars => LenInv'
  <2> SUFFICES ASSUME LenInv, [Next]_vars PROVE LenInv'
    OBVIOUS
  <2>0. /\ todo \in Seq(Narrow) /\ wrote \in Nat /\ promised \in Nat /\ batches \in Nat
        /\ result # "panic"
        /\ result = "writing" => wrote + EncodedLenAll(todo) = promised
        /\ result = "ok" => wrote = promised
    BY DEF LenInv
  <2>1. ASSUME NEW t \in Seq(Narrow) PROVE t \in Seq(Item) /\ EncodedLenAll(t) \in Nat
    <3>1. t \in Seq(Item)
      BY DEF Narrow
    <3> QED BY <3>1, TotalNat
  <2>2. CASE Begin
    <3>1. PICK batch \in Batches[batches + 1] : todo' = batch /\ promised' = EncodedLenAll(batch)
      BY <2>2 DEF Begin
    <3>2. batch \in Seq(Narrow)
      <4>1. batches + 1 \in 1 .. Len(Batches)
        BY <2>0, <2>2, CodecAssumption DEF Begin, CodecAssumption
      <4> QED BY <3>1, <4>1
    <3>3. EncodedLenAll(batch) \in Nat
      BY <2>1, <3>2
    <3>4. wrote' = 0 /\ batches' = batches + 1 /\ result' = "writing"
      BY <2>2 DEF Begin
    <3> QED BY <2>0, <3>1, <3>2, <3>3, <3>4 DEF LenInv
  <2>3. CASE EncodeItem
    <3> DEFINE x == Head(todo)
               t == Tail(todo)
    <3>1. x \in Narrow /\ t \in Seq(Narrow) /\ todo = <<x>> \o t /\ result = "writing"
      BY <2>0, <2>3 DEF EncodeItem
    <3>2. x \in Item /\ Len(EncodeDyn(x)) = EncodedLenDyn(x) /\ EncodedLenDyn(x) \in Nat
      <4> HIDE DEF x
      <4>1. x \in Item /\ Surplus(x) = 0
        BY <3>1 DEF Narrow
      <4> QED BY <4>1, EncodeSize DEF Size
    <3>3. wrote' = wrote + EncodedLenDyn(x) /\ todo' = t /\ result' = "writing"
          /\ UNCHANGED <<promised, batches>>
      BY <2>3, <3>2 DEF EncodeItem
    <3>4. EncodedLenAll(todo) = EncodedLenDyn(x) + EncodedLenAll(t) /\ EncodedLenAll(t) \in Nat
      <4> HIDE DEF x, t
      <4> QED BY <2>1, <3>1, <3>2, TotalFront
    <3> HIDE DEF x, t
    <3> QED BY <2>0, <3>1, <3>2, <3>3, <3>4 DEF LenInv
  <2>4. CASE WriterFails
    <3>1. wrote' \in Nat /\ todo' = <<>> /\ result' = "error" /\ UNCHANGED <<promised, batches>>
      BY <2>0, <2>4 DEF WriterFails
    <3> QED BY <2>0, <3>1 DEF LenInv
  <2>5. CASE EncodeDone
    <3>1. result = "writing" /\ todo = <<>> /\ result' = "ok" /\ UNCHANGED <<todo, wrote, promised, batches>>
      BY <2>5 DEF EncodeDone
    <3>2. EncodedLenAll(<<>>) = 0
      BY <2>0, <2>1, TotalNat
    <3> QED BY <2>0, <3>1, <3>2 DEF LenInv
  <2>6. CASE UNCHANGED <<todo, wrote, promised, result, batches>>
    BY <2>0, <2>6 DEF LenInv
  <2> QED BY <2>2, <2>3, <2>4, <2>5, <2>6
       DEF Next, TerminalObeys, PressKey, Arrive, Take, Drop, vars, writeVars
<1>3. LenInv => LenIsExact
  BY DEF LenInv, LenIsExact
<1> QED BY <1>1, <1>2, <1>3, PTL DEF Spec

-----------------------------------------------------------------------------
(* parse_csi.                                                               *)

(* A fold stays in the set its step stays in. *)
LEMMA FoldTyped ==
  ASSUME NEW Val, NEW E, NEW s, ListOf(s, E), NEW base \in Val,
         NEW step, StepOf(step, Val, E)
  PROVE  Fold(step, base, s) \in Val
<1> DEFINE n == Len(s)
<1>1. n \in 0 .. Len(s)
  BY DEF ListOf
<1>2. Upto(s, n) = s
  BY <1>1, UptoFacts
<1> HIDE DEF n
<1>3. Fold(step, base, Upto(s, n)) \in Val
  BY Zenon, <1>1, FoldUpto
<1> QED BY <1>2, <1>3

Between == 0 .. U16Max + 1

CsiState ==
  [at : {"body", "done", "malformed"}, private : BOOLEAN, params : Seq(U16),
   current : Between, haveDigit : BOOLEAN, intermediate : Intermediates \cup {"none"},
   final : Finals \cup {"none"}, consumed : Nat]

(* A digit's value. *)
LEMMA DigitRange == \A d \in Digits : DigitValue[d] \in 0 .. 9
<1> SUFFICES ASSUME NEW d \in Digits PROVE DigitValue[d] \in 0 .. 9
  OBVIOUS
<1>1. \E i \in 1 .. 10 : DigitBytes[i] = d
  BY DEF Digits, ToSet, DigitBytes
<1>2. (CHOOSE i \in 1 .. 10 : DigitBytes[i] = d) \in 1 .. 10
  BY <1>1
<1> QED BY <1>2 DEF DigitValue

(* The classes of bytes parse_csi tells apart are disjoint. *)
LEMMA ByteClasses ==
  /\ Digits = {"0", "1", "2", "3", "4", "5", "6", "7", "8", "9"}
  /\ Digits \cap (Intermediates \cup Finals \cup {";"}) = {}
  /\ ";" \notin Intermediates \cup Finals /\ Intermediates \cap Finals = {}
<1>1. Digits = {"0", "1", "2", "3", "4", "5", "6", "7", "8", "9"}
  <2>1. DOMAIN DigitBytes = 1 .. 10
    BY DEF DigitBytes
  <2> QED BY <2>1 DEF Digits, ToSet, DigitBytes
<1> QED BY <1>1 DEF Intermediates, Finals

(* The fields of the parser. *)
LEMMA CsiFields ==
  ASSUME NEW s \in CsiState
  PROVE  /\ s.at \in {"body", "done", "malformed"} /\ s.params \in Seq(U16)
         /\ s.current \in Between /\ s.consumed \in Nat
BY DEF CsiState

(* What the accumulator holds is clamped into a u16. *)
LEMMA NumberRange ==
  /\ 0 \in Between /\ \A n \in Between : n \in Nat /\ Clamp(n) \in U16
  /\ \A n \in Nat : Saturated(n) \in Between
<1>1. U16Max \in Nat
  BY DEF U16Max
<1>2. 0 \in Between
  BY <1>1 DEF Between
<1>3. ASSUME NEW n \in Between PROVE n \in Nat /\ Clamp(n) \in U16
  BY <1>1 DEF Between, Clamp, U16
<1>4. ASSUME NEW n \in Nat PROVE Saturated(n) \in Between
  BY <1>1 DEF Between, Saturated
<1> QED BY <1>2, <1>3, <1>4

(* push keeps the parameters u16. *)
LEMMA PushType ==
  ASSUME NEW s \in CsiState
  PROVE  Push(s) \in CsiState
<1> DEFINE p == Append(s.params, Clamp(s.current))
<1>1. p \in Seq(U16)
  BY CsiFields, NumberRange
<1>2. Push(s) = [s EXCEPT !.params = p, !.current = 0, !.haveDigit = FALSE]
  BY DEF Push
<1> HIDE DEF p
<1>3. [s EXCEPT !.params = p, !.current = 0, !.haveDigit = FALSE] \in CsiState
  BY Zenon, <1>1, NumberRange DEF CsiState
<1> QED BY <1>2, <1>3

(* Every step gives a state of the scan, whatever the byte. *)
LEMMA CsiByteType ==
  ASSUME NEW s \in CsiState, NEW b
  PROVE  CsiByte(s, b) \in CsiState
<1> DEFINE read == [s EXCEPT !.consumed = @ + 1]
           bad == [s EXCEPT !.at = "malformed"]
<1>1. read \in CsiState /\ bad \in CsiState
  BY DEF CsiState
<1>2. Push(read) \in CsiState
  BY <1>1, PushType
<1>3. CASE s.at # "body"
  BY Zenon, <1>3 DEF CsiByte
<1>4. CASE s.at = "body" /\ b \in Digits
  <2> DEFINE n == Saturated(read.current * 10 + DigitValue[b])
  <2>1. n \in Between
    <3>1. read.current \in Nat /\ DigitValue[b] \in Nat
      <4>1. DigitValue[b] \in 0 .. 9
        BY <1>4, DigitRange
      <4>2. read \in CsiState
        BY <1>1
      <4> HIDE DEF read
      <4>3. read.current \in Between
        BY <4>2, CsiFields
      <4> QED BY <4>1, <4>3, NumberRange
    <3> HIDE DEF read
    <3>2. read.current * 10 + DigitValue[b] \in Nat
      BY <3>1
    <3> QED BY <3>2, NumberRange
  <2>2. CsiByte(s, b) = [read EXCEPT !.haveDigit = TRUE, !.current = n]
    BY Zenon, <1>4, ByteClasses DEF CsiByte
  <2> HIDE DEF n, read
  <2>3. [read EXCEPT !.haveDigit = TRUE, !.current = n] \in CsiState
    BY Zenon, <1>1, <2>1 DEF CsiState
  <2> QED BY <2>2, <2>3
<1>5. CASE s.at = "body" /\ b \notin Digits /\ b = ";"
  <2>1. CsiByte(s, b) \in {bad, Push(read)}
    BY Zenon, <1>5, ByteClasses DEF CsiByte
  <2> QED BY <1>1, <1>2, <2>1
<1>6. CASE s.at = "body" /\ b \notin Digits /\ b # ";" /\ b \in Intermediates
  <2>1. \/ CsiByte(s, b) = bad
        \/ CsiByte(s, b) = [Push(read) EXCEPT !.intermediate = b]
        \/ CsiByte(s, b) = [read EXCEPT !.intermediate = b]
    BY Zenon, <1>6, ByteClasses DEF CsiByte
  <2>2. ASSUME NEW r \in CsiState PROVE [r EXCEPT !.intermediate = b] \in CsiState
    BY Zenon, <1>6 DEF CsiState
  <2> HIDE DEF read, bad
  <2> QED BY <1>1, <1>2, <2>1, <2>2
<1>7. CASE s.at = "body" /\ b \notin Digits /\ b # ";" /\ b \notin Intermediates /\ b \in Finals
  <2>1. \/ CsiByte(s, b) = bad
        \/ CsiByte(s, b) = [Push(read) EXCEPT !.at = "done", !.final = b]
        \/ CsiByte(s, b) = [read EXCEPT !.at = "done", !.final = b]
    BY Zenon, <1>7 DEF CsiByte
  <2>2. ASSUME NEW r \in CsiState PROVE [r EXCEPT !.at = "done", !.final = b] \in CsiState
    BY Zenon, <1>7 DEF CsiState
  <2> HIDE DEF read, bad
  <2> QED BY Zenon, <1>1, <1>2, <2>1, <2>2
<1>8. CASE s.at = "body" /\ b \notin Digits /\ b # ";" /\ b \notin Intermediates /\ b \notin Finals
  <2>1. CsiByte(s, b) = bad
    BY Zenon, <1>8 DEF CsiByte
  <2> QED BY <1>1, <2>1
<1> QED BY Zenon, <1>3, <1>4, <1>5, <1>6, <1>7, <1>8

CsiStep(A) == [q \in CsiState \X A |-> CsiByte(q[1], q[2])]

(* The scan's step, typed. *)
LEMMA CsiStepType == ASSUME NEW A PROVE StepOf(CsiStep(A), CsiState, A)
<1>1. \A s \in CsiState, b \in A : CsiByte(s, b) \in CsiState
  BY CsiByteType
<1> QED BY <1>1 DEF StepOf, CsiStep

CsiScan(start, s) == FoldLeft(CsiByte, start, s)

(* The scan, as a fold. *)
LEMMA ScanIsFold ==
  ASSUME NEW A, NEW start \in CsiState, NEW s, ListOf(s, A)
  PROVE  CsiScan(start, s) = Fold(CsiStep(A), start, s)
<1> DEFINE step == CsiStep(A)
           base == start
           Val == CsiState
           E == A
<1>1. base \in Val /\ StepOf(step, Val, E)
  BY CsiStepType
<1>2. \E a : FoldedBy(a, Val, step, base, s)
  <2> HIDE DEF step, Val, base, E
  <2>1. ListOf(s, E)
    BY DEF E
  <2> QED BY <1>1, <2>1, FoldRule
<1>3. PICK a : FoldedBy(a, Val, step, base, s)
  BY <1>2
<1>4. Len(s) \in Nat /\ DOMAIN s = 1 .. Len(s) /\ \A i \in DOMAIN s : s[i] \in E
  BY DEF ListOf
<1>5. ASSUME NEW T \in SUBSET DOMAIN s, T # {}
      PROVE  a[T] = CsiByte(a[T \ {Max(T)}], s[Max(T)])
  <2>1. Max(T) \in DOMAIN s
    BY Zenon, <1>4, <1>5, GreatestNumber
  <2>2. a[T] = step[<<a[T \ {Max(T)}], s[Max(T)]>>]
    <3> HIDE DEF step, base, Val
    <3> QED BY Zenon, <1>3, <1>5 DEF FoldedBy, FoldsOver
  <2>3. a[T \ {Max(T)}] \in Val /\ s[Max(T)] \in E
    <3> HIDE DEF step, base, Val, E
    <3> QED BY <1>3, <1>4, <2>1 DEF FoldedBy
  <2> QED BY <2>2, <2>3 DEF CsiStep
<1>6. a = [T \in SUBSET DOMAIN s |->
             IF T = {} THEN start
             ELSE CsiByte(a[T \ {Max(T)}], s[Max(T)])]
  <2>1. a[{}] = start /\ a = [T \in SUBSET DOMAIN s |-> a[T]]
    <3> HIDE DEF step, Val
    <3> QED BY <1>3 DEF FoldedBy, FoldsOver
  <2> HIDE DEF step, Val, base, E
  <2> QED BY Zenon, <1>5, <2>1
<1>7. PICK b : /\ b = [T \in SUBSET DOMAIN s |->
                       IF T = {} THEN start
                       ELSE CsiByte(b[T \ {Max(T)}], s[Max(T)])]
               /\ CsiScan(start, s) = b[DOMAIN s]
  <2> HIDE DEF step, Val, base, E
  <2>1. \E b : b = [T \in SUBSET DOMAIN s |->
                       IF T = {} THEN start
                       ELSE CsiByte(b[T \ {Max(T)}], s[Max(T)])]
    BY Zenon, <1>6
  <2> QED BY Zenon, <2>1 DEF CsiScan, FoldLeft, MapThenFoldSet
<1>8. a[{}] = b[{}] /\ AgreeOnLast(s, a, b) /\ IsSeq(s)
  <2> HIDE DEF step, Val, base, E
  <2> QED BY Zenon, <1>4, <1>6, <1>7 DEF AgreeOnLast, IsSeq
<1>9. \A T \in SUBSET DOMAIN s : a[T] = b[T]
  BY <1>8, FoldsAgree
<1> QED BY Zenon, <1>3, <1>7, <1>9 DEF FoldedBy

(* The scan, one byte at a time. *)
LEMMA ScanFacts ==
  ASSUME NEW A, NEW start \in CsiState, NEW s, ListOf(s, A), NEW x \in A
  PROVE  /\ CsiScan(start, s) \in CsiState /\ CsiScan(start, <<>>) = start
         /\ CsiScan(start, Append(s, x)) = CsiByte(CsiScan(start, s), x)
<1> DEFINE step == CsiStep(A)
           none == <<>>
           q == Append(s, x)
<1>1. ListOf(q, A) /\ ListOf(none, A)
  BY DEF ListOf
<1>2. StepOf(step, CsiState, A)
  BY CsiStepType
<1>3. /\ CsiScan(start, s) = Fold(step, start, s) /\ CsiScan(start, q) = Fold(step, start, q)
      /\ CsiScan(start, none) = Fold(step, start, none)
  <2> HIDE DEF q, none
  <2> QED BY <1>1, ScanIsFold
<1>4. Fold(step, start, Append(s, x)) = step[<<Fold(step, start, s), x>>]
      /\ Fold(step, start, s) \in CsiState
  <2> HIDE DEF step, q
  <2> QED BY <1>2, FoldAppend
<1>5. Fold(step, start, none) = start
  BY FoldEmpty
<1>6. \A v \in CsiState : step[<<v, x>>] = CsiByte(v, x)
  BY DEF CsiStep
<1> HIDE DEF step
<1> QED BY <1>3, <1>4, <1>5, <1>6

-----------------------------------------------------------------------------
(* What more bytes leave as it is.                                          *)

(* SubSeq of a list. *)
LEMMA Slice ==
  ASSUME NEW s, IsList(s), NEW m \in Nat \ {0}, NEW n \in Nat, n <= Len(s)
  PROVE  /\ IsList(SubSeq(s, m, n)) /\ Len(SubSeq(s, m, n)) \in Nat
         /\ Len(SubSeq(s, m, n)) = IF m <= n THEN n - m + 1 ELSE 0
         /\ \A i \in 1 .. n - m + 1 : SubSeq(s, m, n)[i] = s[m + i - 1]
<1> DEFINE E == Range(s)
<1>1. s \in Seq(E) /\ Len(s) \in Nat
  BY DEF IsList
<1> HIDE DEF E
<1>2. \A i \in m .. n : s[i] \in E
  BY <1>1
<1>3. SubSeq(s, m, n) \in Seq(E)
      /\ Len(SubSeq(s, m, n)) = (IF m <= n THEN n - m + 1 ELSE 0)
      /\ \A i \in 1 .. n - m + 1 : SubSeq(s, m, n)[i] = s[m + i - 1]
  BY <1>1, <1>2, SubSeqProperties
<1> QED BY Zenon, <1>3, ListIn

(* Append to a list. *)
LEMMA ListAppend ==
  ASSUME NEW s, IsList(s), NEW x
  PROVE  /\ IsList(Append(s, x)) /\ Len(s) \in Nat /\ Len(Append(s, x)) = Len(s) + 1
         /\ Append(s, x)[Len(s) + 1] = x /\ \A i \in 1 .. Len(s) : Append(s, x)[i] = s[i]
<1> DEFINE E == Range(s) \cup {x}
<1>1. s \in Seq(E) /\ x \in E
  BY ListTyped
<1> HIDE DEF E
<1>2. /\ Append(s, x) \in Seq(E) /\ Len(s) \in Nat /\ Len(Append(s, x)) = Len(s) + 1
      /\ Append(s, x)[Len(s) + 1] = x /\ \A i \in 1 .. Len(s) : Append(s, x)[i] = s[i]
  BY <1>1
<1> QED BY Zenon, <1>2, ListIn

(* Lists that agree everywhere are equal. *)
LEMMA SameList ==
  ASSUME NEW s, NEW t, IsList(s), IsList(t), Len(s) = Len(t),
         \A i \in 1 .. Len(s) : s[i] = t[i]
  PROVE  s = t
<1> DEFINE E == Range(s) \cup Range(t)
<1>1. s \in Seq(E) /\ t \in Seq(E)
  BY ListTyped
<1> HIDE DEF E
<1> QED BY <1>1, SeqEqual

(* One more byte leaves a slice of the earlier ones as it is. *)
LEMMA SliceStays ==
  ASSUME NEW s, IsList(s), NEW x, NEW m \in Nat \ {0}, NEW n \in Nat, n <= Len(s)
  PROVE  SubSeq(Append(s, x), m, n) = SubSeq(s, m, n)
<1> DEFINE q == Append(s, x)
           a == SubSeq(q, m, n)
           b == SubSeq(s, m, n)
           k == n - m + 1
<1>1. /\ IsList(q) /\ Len(s) \in Nat /\ Len(q) = Len(s) + 1
      /\ \A i \in 1 .. Len(s) : q[i] = s[i]
  BY ListAppend
<1> HIDE DEF q
<1>2. n <= Len(q)
  BY <1>1
<1>3. IsList(a) /\ Len(a) = (IF m <= n THEN k ELSE 0) /\ \A i \in 1 .. k : a[i] = q[m + i - 1]
  BY <1>1, <1>2, Slice
<1>4. IsList(b) /\ Len(b) = (IF m <= n THEN k ELSE 0) /\ \A i \in 1 .. k : b[i] = s[m + i - 1]
  BY Slice
<1>5. \A i \in 1 .. k : m + i - 1 \in 1 .. Len(s)
  BY <1>1
<1> HIDE DEF a, b
<1>6. ASSUME NEW i \in 1 .. Len(a) PROVE a[i] = b[i]
  <2>1. i \in 1 .. k
    BY <1>3
  <2> HIDE DEF k
  <2>2. a[i] = q[m + i - 1] /\ b[i] = s[m + i - 1] /\ m + i - 1 \in 1 .. Len(s)
    BY <1>3, <1>4, <1>5, <2>1
  <2> QED BY <1>1, <2>2
<1>7. a = b
  BY <1>3, <1>4, <1>6, SameList
<1> QED BY <1>7 DEF a, b, q

(* A slice up to the end gains the byte that arrives. *)
LEMMA SliceGrows ==
  ASSUME NEW s, IsList(s), NEW x, NEW m \in Nat \ {0}, m <= Len(s)
  PROVE  SubSeq(Append(s, x), m, Len(s) + 1) = Append(SubSeq(s, m, Len(s)), x)
<1> DEFINE q == Append(s, x)
           n == Len(s)
           a == SubSeq(q, m, n + 1)
           u == SubSeq(s, m, n)
           b == Append(u, x)
           k == n - m + 1
<1>1. /\ IsList(q) /\ n \in Nat /\ Len(q) = n + 1 /\ q[n + 1] = x
      /\ \A i \in 1 .. n : q[i] = s[i]
  BY ListAppend
<1>2. n <= Len(s) /\ k \in Nat /\ k = n - m + 1 /\ m <= n
  BY <1>1
<1> HIDE DEF q, n, k
<1>3. IsList(a) /\ Len(a) = k + 1 /\ \A i \in 1 .. k + 1 : a[i] = q[m + i - 1]
  <2>1. n + 1 \in Nat /\ n + 1 <= Len(q) /\ m <= n + 1 /\ n + 1 - m + 1 = k + 1
    BY <1>1, <1>2
  <2>2. IsList(a) /\ Len(a) = (IF m <= n + 1 THEN n + 1 - m + 1 ELSE 0)
        /\ \A i \in 1 .. n + 1 - m + 1 : a[i] = q[m + i - 1]
    BY <1>1, <2>1, Slice
  <2> HIDE DEF a
  <2> QED BY <2>1, <2>2
<1>4. IsList(u) /\ Len(u) = k /\ \A i \in 1 .. k : u[i] = s[m + i - 1]
  <2>1. IsList(u) /\ Len(u) = (IF m <= n THEN n - m + 1 ELSE 0)
        /\ \A i \in 1 .. n - m + 1 : u[i] = s[m + i - 1]
    BY <1>1, <1>2, Slice
  <2> HIDE DEF u
  <2> QED BY <1>2, <2>1
<1> HIDE DEF a, u
<1>5. IsList(b) /\ Len(b) = k + 1 /\ b[k + 1] = x /\ \A i \in 1 .. k : b[i] = u[i]
  BY <1>2, <1>4, ListAppend
<1> HIDE DEF b
<1>6. ASSUME NEW i \in 1 .. Len(a) PROVE a[i] = b[i]
  <2>1. CASE i = k + 1
    <3>1. m + i - 1 = n + 1
      BY <1>1, <1>2, <2>1
    <3> QED BY <1>1, <1>3, <1>5, <2>1, <3>1
  <2>2. CASE i # k + 1
    <3>1. i \in 1 .. k /\ m + i - 1 \in 1 .. n /\ i \in 1 .. k + 1
      BY <1>1, <1>2, <1>3, <2>2
    <3> QED BY Zenon, <1>1, <1>3, <1>4, <1>5, <3>1
  <2> QED BY <2>1, <2>2
<1>7. a = b
  BY Zenon, <1>3, <1>5, <1>6, SameList
<1> QED BY Zenon, <1>7 DEF a, b, u, q, n

-----------------------------------------------------------------------------
(* The front of the input.                                                  *)

(* The first two bytes. *)
LEMMA FrontTwo ==
  ASSUME NEW s, IsList(s), Len(s) >= 2
  PROVE  SubSeq(s, 1, 2) = <<s[1], s[2]>>
<1> DEFINE a == SubSeq(s, 1, 2)
           b == <<s[1], s[2]>>
<1>1. Len(s) \in Nat
  BY DEF IsList
<1>2. IsList(a) /\ Len(a) = 2 /\ \A i \in 1 .. 2 : a[i] = s[i]
  <2> DEFINE m == 1
             n == 2
  <2>1. m \in Nat \ {0} /\ n \in Nat /\ n <= Len(s)
    OBVIOUS
  <2>2. n - m + 1 = 2 /\ m <= n /\ \A i \in 1 .. 2 : m + i - 1 = i
    OBVIOUS
  <2> HIDE DEF m, n
  <2>3. /\ IsList(SubSeq(s, m, n)) /\ Len(SubSeq(s, m, n)) = (IF m <= n THEN n - m + 1 ELSE 0)
        /\ \A i \in 1 .. n - m + 1 : SubSeq(s, m, n)[i] = s[m + i - 1]
    BY <2>1, Slice
  <2>4. IsList(SubSeq(s, m, n)) /\ Len(SubSeq(s, m, n)) = 2 /\ \A i \in 1 .. 2 : SubSeq(s, m, n)[i] = s[i]
    BY Zenon, <2>2, <2>3
  <2> QED BY <2>4 DEF m, n
<1>3. IsList(b) /\ Len(b) = 2 /\ b[1] = s[1] /\ b[2] = s[2]
  BY ListLiteral DEF Literals, Size
<1> HIDE DEF a, b
<1>4. a = b
  BY <1>2, <1>3, SameList
<1> QED BY <1>4 DEF a, b

(* What Osc52ReadResponse asks of the first five bytes. *)
LEMMA FrontFive ==
  ASSUME NEW s, IsList(s), Len(s) >= 5
  PROVE  SubSeq(s, 1, 5) = OSC \o <<"5", "2", ";">> => s[2] = "]"
<1> DEFINE a == SubSeq(s, 1, 5)
<1>1. a[2] = s[2]
  <2> DEFINE m == 1
             n == 5
             i == 2
  <2>1. m \in Nat \ {0} /\ n \in Nat /\ n <= Len(s) /\ i \in 1 .. n - m + 1 /\ m + i - 1 = 2
    BY DEF IsList
  <2> HIDE DEF m, n, i
  <2>2. SubSeq(s, m, n)[i] = s[m + i - 1]
    BY <2>1, Slice
  <2> QED BY <2>1, <2>2 DEF m, n, i
<1>2. (OSC \o <<"5", "2", ";">>)[2] = "]"
  BY DEF OSC
<1> QED BY Zenon, <1>1, <1>2

(* The parser before the first byte. *)
LEMMA CsiStartType == CsiStart(TRUE) \in CsiState /\ CsiStart(FALSE) \in CsiState
                      /\ [CsiStart(FALSE) EXCEPT !.at = "malformed"] \in CsiState
<1>1. ASSUME NEW p \in BOOLEAN PROVE CsiStart(p) \in CsiState
  BY <1>1, NumberRange DEF CsiStart, CsiState
<1>2. [CsiStart(FALSE) EXCEPT !.at = "malformed"] \in CsiState
  BY Zenon, <1>1 DEF CsiState
<1> QED BY Zenon, <1>1, <1>2

(* parse_csi, case by case. *)
Private(s) == Len(s) > 2 /\ s[3] = "?"
BodyFrom(s) == IF Private(s) THEN 4 ELSE 3

(* parse_csi, by the length and the introducer of the input. *)
LEMMA ParseCases ==
  ASSUME NEW s, IsList(s)
  PROVE  /\ Len(s) < 2 => ParseCsi(s) = CsiStart(FALSE)
         /\ Len(s) >= 2 /\ <<s[1], s[2]>> # CSI =>
              ParseCsi(s) = [CsiStart(FALSE) EXCEPT !.at = "malformed"]
         /\ Len(s) >= 2 /\ <<s[1], s[2]>> = CSI =>
              ParseCsi(s) = CsiScan(CsiStart(Private(s)), SubSeq(s, BodyFrom(s), Len(s)))
<1>1. Len(s) \in Nat
  BY DEF IsList
<1>2. Len(s) >= 2 => SubSeq(s, 1, 2) = <<s[1], s[2]>>
  BY FrontTwo
<1>3. CASE Len(s) < 2
  <2>1. ~(Len(s) >= 2)
    BY <1>1, <1>3
  <2>2. ParseCsi(s) = CsiStart(FALSE)
    BY <1>3, <2>1, Zenon DEF ParseCsi
  <2> QED BY <2>1, <2>2, Zenon
<1>4. CASE Len(s) >= 2 /\ <<s[1], s[2]>> # CSI
  <2>1. ~(Len(s) < 2) /\ Len(s) >= 2 /\ SubSeq(s, 1, 2) # CSI
    BY <1>1, <1>2, <1>4
  <2>2. ParseCsi(s) = [CsiStart(FALSE) EXCEPT !.at = "malformed"]
    BY <2>1, Zenon DEF ParseCsi
  <2> QED BY <1>4, <2>1, <2>2, Zenon
<1>5. CASE Len(s) >= 2 /\ <<s[1], s[2]>> = CSI
  <2>1. ~(Len(s) < 2) /\ Len(s) >= 2 /\ SubSeq(s, 1, 2) = CSI
    BY <1>1, <1>2, <1>5
  <2>2. ParseCsi(s) = CsiScan(CsiStart(Private(s)), SubSeq(s, BodyFrom(s), Len(s)))
    BY <2>1, Zenon DEF ParseCsi, CsiScan, Private, BodyFrom
  <2> QED BY <1>5, <2>1, <2>2, Zenon
<1> QED BY Zenon, <1>1, <1>3, <1>4, <1>5

(* The scan of any bytes ends in a state of the parser. *)
LEMMA ScanTyped ==
  ASSUME NEW start \in CsiState, NEW s, IsList(s)
  PROVE  CsiScan(start, s) \in CsiState
<1> DEFINE A == Range(s)
           step == CsiStep(A)
<1>1. ListOf(s, A)
  BY DEF IsList, ListOf
<1>2. StepOf(step, CsiState, A)
  BY CsiStepType
<1>3. CsiScan(start, s) = Fold(step, start, s)
  BY <1>1, ScanIsFold
<1> HIDE DEF step, A
<1> QED BY <1>1, <1>2, <1>3, FoldTyped

(* The scan starts in one. *)
LEMMA StartType == \A s : CsiStart(Private(s)) \in CsiState /\ CsiStart(Private(s)).at = "body"
<1> SUFFICES ASSUME NEW s
             PROVE  CsiStart(Private(s)) \in CsiState /\ CsiStart(Private(s)).at = "body"
  OBVIOUS
<1>1. CASE Private(s)
  <2>1. CsiStart(Private(s)) = CsiStart(TRUE)
    BY <1>1, Zenon
  <2>2. CsiStart(TRUE).at = "body"
    BY DEF CsiStart
  <2> QED BY <2>1, <2>2, CsiStartType, Zenon
<1>2. CASE ~Private(s)
  <2>1. CsiStart(Private(s)) = CsiStart(FALSE)
    <3>1. Private(s) = FALSE
      BY <1>2 DEF Private
    <3> QED BY <3>1, Zenon
  <2>2. CsiStart(FALSE).at = "body"
    BY DEF CsiStart
  <2> QED BY <2>1, <2>2, CsiStartType, Zenon
<1> QED BY <1>1, <1>2

(* parse_csi answers with a state of the parser and is done only with an  *)
(* input that begins with CSI.                                            *)
LEMMA ParseType ==
  ASSUME NEW s, IsList(s)
  PROVE  /\ ParseCsi(s) \in CsiState
         /\ ParseCsi(s).at = "done" => Len(s) >= 2 /\ s[1] = ESC /\ s[2] = "["
<1> DEFINE bad == [CsiStart(FALSE) EXCEPT !.at = "malformed"]
           base == CsiStart(FALSE)
           start == CsiStart(Private(s))
           b == SubSeq(s, BodyFrom(s), Len(s))
           c == CsiScan(start, b)
<1>1. Len(s) \in Nat /\ BodyFrom(s) \in Nat \ {0}
  BY DEF IsList, BodyFrom
<1>2. IsList(b)
  <2> DEFINE m == BodyFrom(s)
             n == Len(s)
  <2>1. m \in Nat \ {0} /\ n \in Nat /\ n <= Len(s)
    BY <1>1
  <2> HIDE DEF m, n
  <2>2. IsList(SubSeq(s, m, n))
    BY <2>1, Slice
  <2> QED BY <2>2 DEF m, n
<1>3. c \in CsiState
  <2>1. start \in CsiState
    BY StartType
  <2> HIDE DEF b, start
  <2> QED BY <1>2, <2>1, ScanTyped
<1>4. base \in CsiState /\ base.at = "body" /\ bad \in CsiState /\ bad.at = "malformed"
  <2>1. base.at = "body"
    BY DEF CsiStart
  <2>2. base \in CsiState /\ bad \in CsiState
    BY Zenon, CsiStartType
  <2>3. bad.at = "malformed"
    <3> HIDE DEF base
    <3>1. [base EXCEPT !.at = "malformed"].at = "malformed"
      BY <2>2 DEF CsiState
    <3> QED BY <3>1 DEF base
  <2> QED BY Zenon, <2>1, <2>2, <2>3
<1>5. /\ Len(s) < 2 => ParseCsi(s) = base
      /\ Len(s) >= 2 /\ <<s[1], s[2]>> # CSI => ParseCsi(s) = bad
      /\ Len(s) >= 2 /\ <<s[1], s[2]>> = CSI => ParseCsi(s) = c
  BY Zenon, ParseCases
<1> HIDE DEF base, bad, c
<1>6. <<s[1], s[2]>> = CSI => s[1] = ESC /\ s[2] = "["
  BY DEF CSI
<1> QED BY <1>1, <1>3, <1>4, <1>5, <1>6

(* Once the scan has stopped, more bytes change nothing. *)
LEMMA ParseFinal ==
  ASSUME NEW s, IsList(s), NEW x, ParseCsi(s).at # "body"
  PROVE  ParseCsi(Append(s, x)) = ParseCsi(s)
<1> DEFINE q == Append(s, x)
           n == Len(s)
           bad == [CsiStart(FALSE) EXCEPT !.at = "malformed"]
           base == CsiStart(FALSE)
<1>1. /\ IsList(q) /\ n \in Nat /\ Len(q) = n + 1 /\ q[n + 1] = x
      /\ \A i \in 1 .. n : q[i] = s[i]
  BY ListAppend
<1>2. base.at = "body"
  BY DEF CsiStart
<1>3. /\ n < 2 => ParseCsi(s) = base
      /\ n >= 2 /\ <<s[1], s[2]>> # CSI => ParseCsi(s) = bad
  BY Zenon, ParseCases
<1>4. Len(q) >= 2 /\ <<q[1], q[2]>> # CSI => ParseCsi(q) = bad
  <2> HIDE DEF q
  <2> QED BY Zenon, <1>1, ParseCases
<1> SUFFICES ParseCsi(q) = ParseCsi(s)
  OBVIOUS
<1> HIDE DEF base, bad, q
<1>5. n >= 2 /\ q[1] = s[1] /\ q[2] = s[2]
  <2> HIDE DEF n
  <2>1. n >= 2
    BY <1>1, <1>2, <1>3
  <2> QED BY <1>1, <2>1
<1>6. CASE <<s[1], s[2]>> # CSI
  BY <1>1, <1>3, <1>4, <1>5, <1>6
<1>7. CASE <<s[1], s[2]>> = CSI
  <2> DEFINE start == CsiStart(Private(s))
             m == BodyFrom(s)
             b == SubSeq(s, m, n)
  <2>1. ParseCsi(s) = CsiScan(start, b)
    BY Zenon, <1>5, <1>7, ParseCases
  <2>2. start \in CsiState /\ start.at = "body"
    BY StartType
  <2>3. CASE n = 2
    <3>1. ~Private(s) /\ m = 3
      BY <2>3 DEF Private, BodyFrom
    <3>2. b = <<>>
      <4>1. m \in Int /\ n \in Int /\ n < m
        BY <2>3, <3>1
      <4> HIDE DEF m, n
      <4> QED BY <4>1, SubSeqEmpty
    <3>3. CsiScan(start, <<>>) = start
      <4> DEFINE none == <<>>
                 A == {x}
      <4>1. ListOf(none, A) /\ x \in A
        BY DEF ListOf
      <4> HIDE DEF none, A, start
      <4>2. CsiScan(start, <<>>) = start
        BY Zenon, <2>2, <4>1, ScanFacts
      <4> QED BY <4>2
    <3> HIDE DEF start, b
    <3> QED BY <2>1, <2>2, <3>2, <3>3
  <2>4. CASE n > 2
    <3>1. n + 1 > 2 /\ q[3] = s[3]
      <4> HIDE DEF n
      <4> QED BY <1>1, <2>4
    <3>2. (Private(q) <=> Private(s)) /\ BodyFrom(q) = m
      BY <1>1, <2>4, <3>1 DEF Private, BodyFrom
    <3>3. CsiStart(Private(q)) = start
      <4>1. CASE Private(s)
        BY <3>2, <4>1, Zenon
      <4>2. CASE ~Private(s)
        <5>1. Private(s) = FALSE /\ Private(q) = FALSE
          BY <3>2, <4>2 DEF Private
        <5> QED BY <5>1, Zenon
      <4> QED BY <4>1, <4>2
    <3>4. m \in Nat \ {0} /\ (m <= Len(s) \/ m = Len(s) + 1)
      BY <1>1, <2>4 DEF BodyFrom
    <3>5. ParseCsi(q) = CsiScan(start, SubSeq(q, m, Len(q)))
      <4>1. ParseCsi(q) = CsiScan(CsiStart(Private(q)), SubSeq(q, BodyFrom(q), Len(q)))
        <5>1. <<q[1], q[2]>> = CSI /\ Len(q) >= 2
          BY <1>1, <1>5, <1>7
        <5> QED BY Zenon, <1>1, <5>1, ParseCases
      <4> HIDE DEF start, m
      <4> QED BY <3>2, <3>3, <4>1
    <3>6. CASE m <= Len(s)
      <4> DEFINE A == Range(b) \cup {x}
      <4>1. SubSeq(q, m, Len(q)) = Append(b, x)
        <5>1. SubSeq(Append(s, x), m, Len(s) + 1) = Append(SubSeq(s, m, Len(s)), x)
          <6> HIDE DEF m
          <6> QED BY <3>4, <3>6, SliceGrows
        <5> QED BY Zenon, <1>1, <5>1 DEF q
      <4>2. IsList(b)
        <5>1. n \in Nat /\ n <= Len(s)
          BY <1>1
        <5> HIDE DEF m, n
        <5> QED BY <3>4, <5>1, Slice
      <4>3. ListOf(b, A) /\ x \in A
        <5> HIDE DEF b
        <5> QED BY <4>2, ListTyped DEF ListOf
      <4> HIDE DEF start, b, A
      <4>4. CsiScan(start, Append(b, x)) = CsiByte(CsiScan(start, b), x)
        BY <2>2, <4>3, ScanFacts
      <4> DEFINE c == CsiScan(start, b)
      <4>5. c.at # "body"
        BY <2>1
      <4> HIDE DEF c
      <4>6. CsiByte(c, x) = c
        BY Zenon, <4>5 DEF CsiByte
      <4> QED BY <2>1, <3>5, <4>1, <4>4, <4>6 DEF c
    <3>7. CASE m = Len(s) + 1
      <4>1. b = <<>>
        <5>1. m \in Int /\ n \in Int /\ n < m
          BY <1>1, <3>4, <3>7
        <5> HIDE DEF m, n
        <5> QED BY <5>1, SubSeqEmpty
      <4>2. CsiScan(start, <<>>) = start
        <5> DEFINE none == <<>>
                   A == {x}
        <5>1. ListOf(none, A) /\ x \in A
          BY DEF ListOf
        <5> HIDE DEF none, A, start
        <5>2. CsiScan(start, <<>>) = start
          BY Zenon, <2>2, <5>1, ScanFacts
        <5> QED BY <5>2
      <4> HIDE DEF start, b
      <4> QED BY <2>1, <2>2, <4>1, <4>2
    <3> QED BY <3>4, <3>6, <3>7
  <2>5. n = 2 \/ n > 2
    <3> HIDE DEF n
    <3> QED BY <1>1, <1>5
  <2> HIDE DEF start, m, b, n
  <2> QED BY <2>3, <2>4, <2>5
<1> QED BY <1>6, <1>7

CsiDecoders == {"da1", "dsr", "kitty", "decrpm"}

(* The four CSI decoders look at nothing but what parse_csi answers. *)
LEMMA CsiAgree ==
  ASSUME NEW s, NEW t, ParseCsi(s) = ParseCsi(t), NEW d \in CsiDecoders
  PROVE  Decode(d, s) = Decode(d, t)
<1>1. CASE d = "da1"
  <2>1. Da1(s) = Da1(t)
    BY DEF Da1, CsiDecode
  <2> QED BY <1>1, <2>1 DEF Decode
<1>2. CASE d = "dsr"
  <2>1. Dsr(s) = Dsr(t)
    BY DEF Dsr, CsiDecode
  <2> QED BY <1>2, <2>1 DEF Decode
<1>3. CASE d = "kitty"
  <2>1. KittyReply(s) = KittyReply(t)
    BY DEF KittyReply, CsiDecode
  <2> QED BY <1>3, <2>1 DEF Decode
<1>4. CASE d = "decrpm"
  <2>1. Decrpm(s) = Decrpm(t)
    BY DEF Decrpm, CsiDecode
  <2> QED BY <1>4, <2>1 DEF Decode
<1> QED BY <1>1, <1>2, <1>3, <1>4 DEF CsiDecoders

(* While the scan is running they answer Incomplete. *)
LEMMA CsiWaits ==
  ASSUME NEW s, ParseCsi(s).at = "body", NEW d \in CsiDecoders
  PROVE  Decode(d, s).result = "incomplete"
BY DEF CsiDecoders, Decode, Da1, Dsr, KittyReply, Decrpm, CsiDecode, Incomplete

(* What is accepted, and where it ends. *)
LEMMA CsiAccepts ==
  ASSUME NEW s, NEW d \in CsiDecoders, Decode(d, s).result = "ok"
  PROVE  LET c == ParseCsi(s)
         IN /\ c.at = "done" /\ Decode(d, s).consumed = c.consumed
            /\ d = "da1" => c.final = "c" /\ c.params # <<>>
                  /\ Decode(d, s).value = [kind |-> "da1", id |-> Head(c.params),
                                           capabilities |-> Tail(c.params)]
            /\ d = "dsr" => c.final = "R" /\ Len(c.params) = 2
                  /\ Decode(d, s).value = [kind |-> "dsr", row |-> c.params[1], col |-> c.params[2]]
            /\ d = "kitty" => c.final = "u" /\ Len(c.params) = 1 /\ c.params[1] < 256
                  /\ Decode(d, s).value = [kind |-> "kitty", flags |-> c.params[1]]
            /\ d = "decrpm" => c.final = "y" /\ Len(c.params) = 2
                  /\ Decode(d, s).value = [kind |-> "decrpm", mode |-> c.params[1],
                                           state |-> ModeState(c.params[2])]
<1>1. CASE d = "da1"
  BY <1>1 DEF Decode, Da1, CsiDecode, Incomplete, Malformed, Ok
<1>2. CASE d = "dsr"
  BY <1>2 DEF Decode, Dsr, CsiDecode, Incomplete, Malformed, Ok
<1>3. CASE d = "kitty"
  BY <1>3 DEF Decode, KittyReply, CsiDecode, Incomplete, Malformed, Ok
<1>4. CASE d = "decrpm"
  BY <1>4 DEF Decode, Decrpm, CsiDecode, Incomplete, Malformed, Ok
<1> QED BY <1>1, <1>2, <1>3, <1>4 DEF CsiDecoders

-----------------------------------------------------------------------------
(* Osc52ReadResponse, case by case.                                         *)

(* The first position in T, or 0. *)
LEMMA FirstOf ==
  ASSUME NEW T \in SUBSET Nat, T # {}
  PROVE  Min(T) \in T /\ \A i \in T : Min(T) <= i
<1>1. \E i \in T : \A j \in T : i <= j
  BY LeastNumber
<1> QED BY Zenon, <1>1 DEF Min

Stop(s) == SelectInSubSeq(s, 8, Len(s), LAMBDA b : b \in {BEL, ESC})

Stops(s) == {i \in 8 .. Len(s) : s[i] \in {BEL, ESC}}

(* The first BEL or ESC of the payload, if any. *)
LEMMA StopFacts ==
  ASSUME NEW s, IsList(s)
  PROVE  /\ Stops(s) = {} => Stop(s) = 0
         /\ Stops(s) # {} => Stop(s) \in Stops(s) /\ \A i \in Stops(s) : Stop(s) <= i
<1>1. Stop(s) = IF Stops(s) # {} THEN Min(Stops(s)) ELSE 0
  BY DEF Stop, Stops, SelectInSubSeq
<1>2. Stops(s) \in SUBSET Nat
  BY DEF Stops, IsList
<1> QED BY <1>1, <1>2, FirstOf

(* It stays the first when more arrives. *)
LEMMA StopStays ==
  ASSUME NEW s, IsList(s), NEW x, Stop(s) # 0
  PROVE  Stop(Append(s, x)) = Stop(s) /\ Stop(s) \in Stops(s)
<1> DEFINE q == Append(s, x)
           a == Stop(s)
           b == Stop(q)
<1>1. /\ IsList(q) /\ Len(s) \in Nat /\ Len(q) = Len(s) + 1
      /\ \A i \in 1 .. Len(s) : q[i] = s[i]
  BY ListAppend
<1>2. a \in Stops(s) /\ \A i \in Stops(s) : a <= i
  BY StopFacts
<1> SUFFICES b = a
  BY <1>2
<1> HIDE DEF q
<1>3. a \in 8 .. Len(s) /\ a \in 1 .. Len(s) /\ a \in 8 .. Len(q)
  BY <1>1, <1>2 DEF Stops
<1>4. a \in Stops(q)
  BY <1>1, <1>2, <1>3 DEF Stops
<1>5. b \in Stops(q) /\ \A i \in Stops(q) : b <= i
  BY <1>1, <1>4, StopFacts
<1> HIDE DEF a, b
<1>6. b <= a /\ b \in 8 .. Len(q)
  BY <1>4, <1>5 DEF Stops
<1>7. b \in 8 .. Len(s) /\ b \in 1 .. Len(s)
  BY <1>1, <1>3, <1>6
<1>8. b \in Stops(s)
  BY <1>1, <1>5, <1>7 DEF Stops
<1> QED BY <1>2, <1>3, <1>6, <1>8

Prefix52(s)  == SubSeq(s, 1, 5) = OSC \o <<"5", "2", ";">>
Payload52(s) == SubSeq(s, 8, Stop(s) - 1)
Ended(s)     == Stop(s) \in 1 .. (Len(s) - 1) /\ SubSeq(s, Stop(s), Stop(s) + 1) = ST
Taken(s)     ==
  Ok([kind |-> "osc52", selection |-> s[6], payload |-> Base64Decode(Payload52(s))],
     IF Ended(s) THEN Stop(s) + 1 ELSE Stop(s))

(* Osc52ReadResponse, by length and prefix. *)
LEMMA Osc52Cases ==
  ASSUME NEW s, IsList(s)
  PROVE  /\ Len(s) < 5 => Osc52(s) = Incomplete
         /\ Len(s) >= 5 /\ ~Prefix52(s) => Osc52(s) = Malformed
         /\ Len(s) \in {5, 6} /\ Prefix52(s) => Osc52(s) = Incomplete
         /\ Len(s) >= 7 /\ Prefix52(s) =>
              Osc52(s) = IF s[7] = ";" /\ s[6] \in Selections THEN Osc52End(s) ELSE Malformed
<1>1. Len(s) \in Nat
  BY DEF IsList
<1>0. \A n \in Nat : /\ n >= 7 => ~(n < 5) /\ ~(n \in {5, 6})
                     /\ n \in {5, 6} => ~(n < 5) /\ ~(n >= 7)
  OBVIOUS
<1>2. CASE Len(s) < 5
  <2>1. ~(Len(s) >= 5) /\ ~(Len(s) \in {5, 6}) /\ ~(Len(s) >= 7)
    BY <1>1, <1>2
  <2>2. Osc52(s) = Incomplete
    BY <1>2, <2>1, Zenon DEF Osc52
  <2> QED BY <2>1, <2>2, Zenon
<1>3. CASE Len(s) >= 5 /\ ~Prefix52(s)
  <2>1. ~(Len(s) < 5) /\ SubSeq(s, 1, 5) # OSC \o <<"5", "2", ";">>
    <3>1. ~(Len(s) < 5)
      BY <1>1, <1>3
    <3>2. SubSeq(s, 1, 5) # OSC \o <<"5", "2", ";">>
      BY <1>3, Zenon DEF Prefix52
    <3> QED BY Zenon, <3>1, <3>2
  <2>2. Osc52(s) = Malformed
    BY <1>3, <2>1, Zenon DEF Osc52
  <2> QED BY <1>3, <2>1, <2>2, Zenon
<1>4. CASE Len(s) \in {5, 6} /\ Prefix52(s)
  <2>1. ~(Len(s) < 5) /\ ~(Len(s) >= 7) /\ SubSeq(s, 1, 5) = OSC \o <<"5", "2", ";">>
    <3>1. ~(Len(s) < 5) /\ ~(Len(s) >= 7)
      <4>1. Len(s) \in {5, 6}
        BY <1>4, Zenon
      <4> QED BY <1>0, <1>1, <4>1, Zenon
    <3>2. SubSeq(s, 1, 5) = OSC \o <<"5", "2", ";">>
      BY <1>4, Zenon DEF Prefix52
    <3> QED BY Zenon, <3>1, <3>2
  <2>2. Osc52(s) = Incomplete
    BY <1>4, <2>1, Zenon DEF Osc52
  <2> QED BY <1>4, <2>1, <2>2, Zenon
<1>5. CASE Len(s) >= 7 /\ Prefix52(s)
  <2>1. ~(Len(s) < 5) /\ ~(Len(s) \in {5, 6}) /\ SubSeq(s, 1, 5) = OSC \o <<"5", "2", ";">>
    <3>1. ~(Len(s) < 5) /\ ~(Len(s) \in {5, 6})
      <4>1. Len(s) >= 7
        BY <1>5, Zenon
      <4> QED BY <1>0, <1>1, <4>1, Zenon
    <3>2. SubSeq(s, 1, 5) = OSC \o <<"5", "2", ";">>
      BY <1>5, Zenon DEF Prefix52
    <3> QED BY Zenon, <3>1, <3>2
  <2>2. Osc52(s) = IF s[7] = ";" /\ s[6] \in Selections THEN Osc52End(s) ELSE Malformed
    BY <2>1, Zenon DEF Osc52
  <2> QED BY <1>5, <2>1, <2>2, Zenon
<1> QED BY Zenon, <1>1, <1>2, <1>3, <1>4, <1>5

Waits52(s) == Stop(s) = 0 \/ (Stop(s) = Len(s) /\ s[Stop(s)] = ESC)
Whole52(s) == (Ended(s) \/ s[Stop(s)] = BEL) /\ Base64Valid(Payload52(s))

(* Osc52ReadResponse from the payload on. *)
LEMMA EndCases ==
  ASSUME NEW s, IsList(s)
  PROVE  /\ Waits52(s) => Osc52End(s) = Incomplete
         /\ ~Waits52(s) /\ Whole52(s) => Osc52End(s) = Taken(s)
         /\ ~Waits52(s) /\ ~Whole52(s) => Osc52End(s) = Malformed
<1>1. ~Waits52(s) => Stop(s) > 0
  <2>1. Stop(s) \in Nat
    BY StopFacts DEF Stops
  <2> QED BY <2>1 DEF Waits52
<1>2. /\ Stop(s) = SelectInSubSeq(s, 8, Len(s), LAMBDA b : b \in {BEL, ESC})
      /\ Payload52(s) = SubSeq(s, 8, Stop(s) - 1)
      /\ Ended(s) <=> (Stop(s) \in 1 .. (Len(s) - 1) /\ SubSeq(s, Stop(s), Stop(s) + 1) = ST)
  BY DEF Stop, Payload52, Ended
<1>3. CASE Waits52(s)
  <2>1. Osc52End(s) = Incomplete
    <3>1. Stop(s) = 0 => Osc52End(s) = Incomplete
      <4>1. ASSUME Stop(s) = 0 PROVE ~(Stop(s) > 0)
        BY <4>1
      <4> QED BY <4>1, Zenon DEF Osc52End, Stop
    <3>2. ASSUME Stop(s) = Len(s), s[Stop(s)] = ESC PROVE Osc52End(s) = Incomplete
      <4>1. ~Ended(s)
        BY <3>2 DEF Ended, IsList
      <4>2. s[Stop(s)] # BEL
        BY <3>2 DEF ESC, BEL
      <4> QED BY <3>2, <4>1, <4>2, Zenon DEF Osc52End, Stop, Ended
    <3> QED BY <1>3, <3>1, <3>2 DEF Waits52
  <2> QED BY <1>3, <2>1, Zenon
<1>4. CASE ~Waits52(s) /\ Whole52(s)
  <2>1. Osc52End(s) = Taken(s)
    BY <1>1, <1>4, Zenon DEF Osc52End, Stop, Waits52, Whole52, Taken, Ended, Payload52
  <2> QED BY <1>4, <2>1, Zenon
<1>5. CASE ~Waits52(s) /\ ~Whole52(s)
  <2>1. Osc52End(s) = Malformed
    BY <1>5, Zenon DEF Osc52End, Stop, Waits52, Whole52, Ended, Payload52
  <2> QED BY <1>5, <2>1, Zenon
<1> QED BY <1>3, <1>4, <1>5, Zenon

(* What Osc52ReadResponse accepts. *)
LEMMA OscAccepts ==
  ASSUME NEW s, IsList(s), Osc52(s).result = "ok"
  PROVE  /\ Len(s) >= 7 /\ s[2] = "]" /\ s[6] \in Selections
         /\ Stop(s) \in Stops(s) /\ Base64Valid(Payload52(s)) /\ Osc52(s) = Taken(s)
<1>1. Len(s) \in Nat
  BY DEF IsList
<1>2. Incomplete.result # "ok" /\ Malformed.result # "ok"
  BY DEF Incomplete, Malformed
<1>3. Len(s) >= 7 /\ Prefix52(s) /\ s[6] \in Selections /\ Osc52(s) = Osc52End(s)
  <2>1. ~(Len(s) < 5) /\ ~(Len(s) >= 5 /\ ~Prefix52(s)) /\ ~(Len(s) \in {5, 6} /\ Prefix52(s))
    BY Zenon, <1>2, Osc52Cases
  <2>2. Prefix52(s) /\ Len(s) >= 7
    <3>1. Len(s) >= 5
      <4>1. ~(Len(s) < 5)
        BY <2>1, Zenon
      <4> QED BY <1>1, <4>1
    <3>2. Prefix52(s)
      BY <2>1, <3>1, Zenon
    <3>3. Len(s) \notin {5, 6}
      BY <2>1, <3>2, Zenon
    <3>4. Len(s) >= 7
      <4>1. \A n \in Nat : n >= 5 /\ n \notin {5, 6} => n >= 7
        OBVIOUS
      <4> QED BY <1>1, <3>1, <3>3, <4>1, Zenon
    <3> QED BY <3>2, <3>4
  <2>3. Osc52(s) = IF s[7] = ";" /\ s[6] \in Selections THEN Osc52End(s) ELSE Malformed
    BY Zenon, <2>2, Osc52Cases
  <2> QED BY Zenon, <1>2, <2>2, <2>3
<1>4. ~Waits52(s) /\ Whole52(s) /\ Osc52End(s) = Taken(s)
  <2>1. Osc52End(s).result = "ok"
    BY <1>3, Zenon
  <2> QED BY <1>2, <2>1, EndCases
<1>5. Stop(s) \in Stops(s)
  <2>1. Stop(s) # 0
    BY <1>4 DEF Waits52
  <2> QED BY <2>1, StopFacts
<1>6. s[2] = "]"
  <2>1. SubSeq(s, 1, 5) = OSC \o <<"5", "2", ";">>
    BY <1>3, Zenon DEF Prefix52
  <2>2. Len(s) >= 5
    BY <1>1, <1>3
  <2> QED BY Zenon, <2>1, <2>2, FrontFive
<1>7. Base64Valid(Payload52(s))
  BY <1>4, Zenon DEF Whole52
<1>8. Osc52(s) = Taken(s)
  BY <1>3, <1>4, Zenon
<1> QED BY <1>3, <1>5, <1>6, <1>7, <1>8, Zenon

(* A terminator stays one when more arrives. *)
LEMMA EndedStays ==
  ASSUME NEW s, IsList(s), NEW x, Stop(s) # 0, ~Waits52(s)
  PROVE  Ended(Append(s, x)) <=> Ended(s)
<1> DEFINE q == Append(s, x)
           e == Stop(s)
<1>1. /\ IsList(q) /\ Len(s) \in Nat /\ Len(q) = Len(s) + 1
      /\ \A i \in 1 .. Len(s) : q[i] = s[i]
  BY ListAppend
<1>2. Stop(q) = e /\ e \in 8 .. Len(s) /\ s[e] \in {BEL, ESC}
  <2>1. Stop(q) = e /\ e \in Stops(s)
    BY StopStays
  <2> QED BY <2>1 DEF Stops
<1>3. e = Len(s) => s[e] = BEL /\ BEL # ESC
  <2>1. ~(e = Len(s) /\ s[e] = ESC)
    BY Zenon DEF Waits52
  <2> QED BY <1>2, <2>1 DEF BEL, ESC
<1>4. CASE e < Len(s)
  <2> DEFINE n == e + 1
  <2>1. e \in 1 .. (Len(s) - 1) /\ e \in 1 .. (Len(q) - 1)
    BY <1>1, <1>2, <1>4
  <2>2. e \in Nat \ {0} /\ n \in Nat /\ n <= Len(s)
    BY <1>1, <1>2, <1>4
  <2>3. SubSeq(Append(s, x), e, n) = SubSeq(s, e, n)
    <3> HIDE DEF e, n
    <3> QED BY <2>2, SliceStays
  <2> QED BY <1>2, <2>1, <2>3, Zenon DEF Ended
<1>5. CASE e = Len(s)
  <2> DEFINE n == e + 1
             a == SubSeq(q, e, n)
  <2>1. e \notin 1 .. (Len(s) - 1)
    BY <1>1, <1>2, <1>5
  <2>2. e \in Nat \ {0} /\ n \in Nat /\ n <= Len(q) /\ 1 \in 1 .. n - e + 1 /\ e + 1 - 1 = e
        /\ e \in 1 .. Len(s)
    BY <1>1, <1>2, <1>5
  <2>3. a[1] = q[e]
    <3> DEFINE i == 1
    <3>1. i \in 1 .. n - e + 1 /\ e + i - 1 = e
      BY <2>2
    <3> HIDE DEF i, e, n, q
    <3>2. SubSeq(q, e, n)[i] = q[e + i - 1]
      BY <1>1, <2>2, <3>1, Slice
    <3> QED BY <3>1, <3>2 DEF i
  <2>4. q[e] = BEL
    BY <1>1, <1>3, <1>5, <2>2
  <2>5. ST[1] = ESC
    BY DEF ST
  <2>6. a # ST
    BY <1>3, <1>5, <2>3, <2>4, <2>5
  <2> QED BY <1>2, <2>1, <2>6, Zenon DEF Ended
<1> QED BY <1>1, <1>2, <1>4, <1>5

(* Osc52ReadResponse: a verdict other than Incomplete stands. *)
LEMMA OscFinal ==
  ASSUME NEW s, IsList(s), NEW x, Osc52(s).result # "incomplete"
  PROVE  Osc52(Append(s, x)) = Osc52(s)
<1> DEFINE q == Append(s, x)
<1>1. /\ IsList(q) /\ Len(s) \in Nat /\ Len(q) = Len(s) + 1
      /\ \A i \in 1 .. Len(s) : q[i] = s[i]
  BY ListAppend
<1>2. Incomplete.result = "incomplete"
  BY DEF Incomplete
<1>3. ~(Len(s) < 5) /\ ~(Len(s) \in {5, 6} /\ Prefix52(s))
  BY Zenon, <1>2, Osc52Cases
<1>4. Len(s) >= 5 /\ Len(q) >= 5
  <2>1. ~(Len(s) < 5)
    BY <1>3, Zenon
  <2> HIDE DEF q
  <2> QED BY <1>1, <2>1
<1>5. Prefix52(q) <=> Prefix52(s)
  <2> DEFINE m == 1
             n == 5
  <2>1. m \in Nat \ {0} /\ n \in Nat /\ n <= Len(s)
    BY <1>4
  <2>2. SubSeq(q, m, n) = SubSeq(s, m, n)
    <3> HIDE DEF m, n
    <3> QED BY <2>1, SliceStays
  <2>3. SubSeq(q, 1, 5) = SubSeq(s, 1, 5)
    BY Zenon, <2>2
  <2> QED BY <2>3, Zenon DEF Prefix52
<1>6. CASE ~Prefix52(s)
  <2>1. Osc52(s) = Malformed
    BY <1>4, <1>6, Osc52Cases, Zenon
  <2>2. Osc52(q) = Malformed
    BY <1>1, <1>4, <1>5, <1>6, Osc52Cases, Zenon
  <2> QED BY <2>1, <2>2
<1>7. CASE Prefix52(s)
  <2>1. Len(s) >= 7 /\ Len(q) >= 7
    <3>1. Len(s) \notin {5, 6}
      BY <1>3, <1>7, Zenon
    <3>2. \A n \in Nat : n >= 5 /\ n \notin {5, 6} => n >= 7
      OBVIOUS
    <3>3. Len(s) >= 7
      BY <1>1, <1>4, <3>1, <3>2, Zenon
    <3> HIDE DEF q
    <3> QED BY <1>1, <3>3
  <2>2. q[6] = s[6] /\ q[7] = s[7]
    <3>1. 6 \in 1 .. Len(s) /\ 7 \in 1 .. Len(s)
      BY <1>1, <2>1
    <3> QED BY <1>1, <3>1
  <2>3. Osc52(s) = IF s[7] = ";" /\ s[6] \in Selections THEN Osc52End(s) ELSE Malformed
    BY <1>7, <2>1, Osc52Cases, Zenon
  <2>4. Osc52(q) = IF q[7] = ";" /\ q[6] \in Selections THEN Osc52End(q) ELSE Malformed
    BY <1>1, <1>5, <1>7, <2>1, Osc52Cases, Zenon
  <2>5. CASE ~(s[7] = ";" /\ s[6] \in Selections)
    BY Zenon, <2>2, <2>3, <2>4, <2>5
  <2>6. CASE s[7] = ";" /\ s[6] \in Selections
    <3>1. Osc52(s) = Osc52End(s) /\ Osc52(q) = Osc52End(q)
      BY Zenon, <2>2, <2>3, <2>4, <2>6
    <3>2. ~Waits52(s)
      BY <1>2, <3>1, EndCases
    <3>3. Stop(s) # 0
      BY <3>2, Zenon DEF Waits52
    <3>4. Stop(q) = Stop(s) /\ Stop(s) \in 8 .. Len(s)
      <4>1. Stop(q) = Stop(s) /\ Stop(s) \in Stops(s)
        BY <3>3, StopStays
      <4> QED BY <4>1 DEF Stops
    <3>5. Stop(s) # Len(q) /\ q[Stop(s)] = s[Stop(s)]
      <4>1. Stop(s) \in 1 .. Len(s) /\ Stop(s) <= Len(s)
        BY <1>1, <3>4
      <4> DEFINE e == Stop(s)
      <4> HIDE DEF q, e
      <4>2. e \in 1 .. Len(s) /\ e <= Len(s)
        BY <4>1 DEF e
      <4>3. e # Len(q) /\ q[e] = s[e]
        BY <1>1, <4>2
      <4> QED BY <4>3 DEF e
    <3>6. ~Waits52(q)
      BY <3>3, <3>4, <3>5, Zenon DEF Waits52
    <3>7. Payload52(q) = Payload52(s)
      <4> DEFINE m == 8
                 n == Stop(s) - 1
      <4>1. m \in Nat \ {0} /\ n \in Nat /\ n <= Len(s)
        BY <1>1, <3>4
      <4>2. SubSeq(q, m, n) = SubSeq(s, m, n)
        <5> HIDE DEF m, n
        <5> QED BY <4>1, SliceStays
      <4>3. SubSeq(q, 8, Stop(s) - 1) = SubSeq(s, 8, Stop(s) - 1)
        BY Zenon, <4>2
      <4> QED BY <3>4, <4>3, Zenon DEF Payload52
    <3>8. Ended(q) <=> Ended(s)
      BY <3>2, <3>3, EndedStays
    <3>9. Whole52(q) <=> Whole52(s)
      BY <3>4, <3>5, <3>7, <3>8, Zenon DEF Whole52
    <3>10. Taken(q) = Taken(s)
      <4>1. CASE Ended(s)
        <5>1. Taken(s) = Ok([kind |-> "osc52", selection |-> s[6],
                             payload |-> Base64Decode(Payload52(s))], Stop(s) + 1)
          BY <4>1, Zenon DEF Taken
        <5>2. Taken(q) = Ok([kind |-> "osc52", selection |-> q[6],
                             payload |-> Base64Decode(Payload52(q))], Stop(q) + 1)
          BY <3>8, <4>1, Zenon DEF Taken
        <5> QED BY <2>2, <3>4, <3>7, <5>1, <5>2, Zenon
      <4>2. CASE ~Ended(s)
        <5>1. Taken(s) = Ok([kind |-> "osc52", selection |-> s[6],
                             payload |-> Base64Decode(Payload52(s))], Stop(s))
          BY <4>2, Zenon DEF Taken
        <5>2. Taken(q) = Ok([kind |-> "osc52", selection |-> q[6],
                             payload |-> Base64Decode(Payload52(q))], Stop(q))
          BY <3>8, <4>2, Zenon DEF Taken
        <5> QED BY <2>2, <3>4, <3>7, <5>1, <5>2, Zenon
      <4> QED BY <4>1, <4>2
    <3>11. Osc52End(q) = Osc52End(s)
      <4>1. CASE Whole52(s)
        <5>1. Osc52End(s) = Taken(s)
          BY <3>2, <4>1, EndCases, Zenon
        <5>2. Osc52End(q) = Taken(q)
          BY <1>1, <3>6, <3>9, <4>1, EndCases, Zenon
        <5> QED BY <3>10, <5>1, <5>2
      <4>2. CASE ~Whole52(s)
        <5>1. Osc52End(s) = Malformed
          BY <3>2, <4>2, EndCases, Zenon
        <5>2. Osc52End(q) = Malformed
          BY <1>1, <3>6, <3>9, <4>2, EndCases, Zenon
        <5> QED BY <5>1, <5>2
      <4> QED BY <4>1, <4>2
    <3> QED BY <3>1, <3>11
  <2> QED BY Zenon, <2>5, <2>6
<1> QED BY <1>6, <1>7

-----------------------------------------------------------------------------
(* The decoders together.                                                   *)

(* Four decoders of CSI and one of OSC. *)
LEMMA DecodersAre == \A d \in Decoders : d \in CsiDecoders \/ d = "osc52"
BY DEF Decoders, CsiDecoders

(* The decoder of OSC. *)
LEMMA OscDecode == \A s : Decode("osc52", s) = Osc52(s)
BY DEF Decode

(* Any decoder's verdict other than Incomplete stands when a byte         *)
(* arrives.                                                               *)
LEMMA DecodeFinal ==
  ASSUME NEW s, IsList(s), NEW x, NEW d \in Decoders, Decode(d, s).result # "incomplete"
  PROVE  Decode(d, Append(s, x)) = Decode(d, s)
<1>1. CASE d \in CsiDecoders
  <2>1. ParseCsi(s).at # "body"
    BY <1>1, CsiWaits
  <2>2. ParseCsi(Append(s, x)) = ParseCsi(s)
    BY <2>1, ParseFinal
  <2> QED BY <1>1, <2>2, CsiAgree
<1>2. CASE d = "osc52"
  BY <1>2, OscDecode, OscFinal
<1> QED BY <1>1, <1>2, DecodersAre

(* No two decoders accept the same bytes: the introducers differ, and     *)
(* among the CSI decoders the final bytes.                                *)
LEMMA DecodeOnce ==
  ASSUME NEW s, IsList(s), NEW d \in Decoders, NEW e \in Decoders,
         Decode(d, s).result = "ok", Decode(e, s).result = "ok"
  PROVE  d = e
<1>1. ASSUME NEW a \in CsiDecoders, Decode(a, s).result = "ok"
      PROVE  s[2] = "["
  <2>1. ParseCsi(s).at = "done"
    BY Zenon, <1>1, CsiAccepts
  <2> QED BY <2>1, ParseType
<1>2. Decode("osc52", s).result = "ok" => s[2] = "]"
  BY OscDecode, OscAccepts
<1>3. CASE d \in CsiDecoders /\ e \in CsiDecoders
  <2> DEFINE c == ParseCsi(s)
  <2>1. ASSUME NEW a \in CsiDecoders, Decode(a, s).result = "ok"
        PROVE  /\ a = "da1" => c.final = "c"
               /\ a = "dsr" => c.final = "R"
               /\ a = "kitty" => c.final = "u"
               /\ a = "decrpm" => c.final = "y"
    BY Zenon, <2>1, CsiAccepts
  <2> HIDE DEF c
  <2> QED BY <1>3, <2>1 DEF CsiDecoders
<1>4. CASE d \in CsiDecoders /\ e = "osc52"
  BY <1>1, <1>2, <1>4
<1>5. CASE d = "osc52" /\ e \in CsiDecoders
  BY <1>1, <1>2, <1>5
<1> QED BY <1>3, <1>4, <1>5, DecodersAre

-----------------------------------------------------------------------------
(* The streams stay lists: what the terminal takes and what it answers.     *)

(* A slice of a list is a list. *)
LEMMA SliceList ==
  ASSUME NEW s, IsList(s), NEW m \in Nat \ {0}, NEW n \in Int, n <= Len(s)
  PROVE  IsList(SubSeq(s, m, n))
<1>1. CASE n < 0
  <2>1. SubSeq(s, m, n) = <<>>
    BY <1>1, SubSeqEmpty
  <2> QED BY <2>1, ListLiteral DEF Literals
<1>2. CASE n >= 0
  <2>1. n \in Nat
    BY <1>2
  <2> QED BY <2>1, Slice
<1> QED BY <1>1, <1>2

(* So is its tail. *)
LEMMA TailList ==
  ASSUME NEW s, IsList(s), s # <<>>
  PROVE  IsList(Tail(s)) /\ Len(s) \in Nat /\ Len(Tail(s)) = Len(s) - 1
<1> DEFINE E == Range(s)
<1>1. s \in Seq(E)
  BY DEF IsList
<1> HIDE DEF E
<1>2. Tail(s) \in Seq(E) /\ Len(s) \in Nat /\ Len(Tail(s)) = Len(s) - 1
  BY <1>1
<1> QED BY Zenon, <1>2, ListIn

(* The whole is of the type of the pieces. *)
LEMMA FlattenTyped ==
  ASSUME NEW E, NEW n \in Nat, NEW s, s = [i \in 1 .. n |-> s[i]],
         \A i \in 1 .. n : s[i] \in Seq(E)
  PROVE  FlattenSeq(s) \in Seq(E)
<1>1. Len(s) = n
  OBVIOUS
<1>2. CASE n = 0
  <2>1. FlattenSeq(s) = s
    BY <1>1, <1>2 DEF FlattenSeq
  <2>2. s \in Seq(E)
    BY <1>2
  <2> QED BY <2>1, <2>2
<1>3. CASE n # 0
  <2>1. PICK f : Flattens(f, s, n) /\ FlattenSeq(s) = f[n]
    BY Zenon, <1>1, <1>3, FlattenRule
  <2> DEFINE Fits(i) == i \in 1 .. n => f[i] \in Seq(E)
             Q == {i \in Nat : Fits(i)}
  <2>2. 0 \in Q
    OBVIOUS
  <2>3. ASSUME NEW i \in Nat, i \in Q PROVE i + 1 \in Q
    <3> SUFFICES ASSUME i + 1 \in 1 .. n PROVE f[i + 1] \in Seq(E)
      OBVIOUS
    <3> DEFINE j == i + 1
    <3>1. j \in 1 .. n /\ j - 1 = i /\ (j # 1 => f[i] \in Seq(E))
      BY <2>3
    <3> HIDE DEF j
    <3>2. f[j] = IF j = 1 THEN s[j] ELSE f[j - 1] \o s[j]
      BY Zenon, <2>1, <3>1 DEF Flattens
    <3>3. s[j] \in Seq(E)
      BY <3>1
    <3>4. j # 1 => f[i] \o s[j] \in Seq(E)
      BY <3>1, <3>3, CatTyped
    <3> QED BY <3>1, <3>2, <3>3, <3>4 DEF j
  <2>4. \A i \in Nat : i \in Q
    <3> HIDE DEF Q
    <3> QED BY <2>2, <2>3, NumbersInductive
  <2> QED BY <1>3, <2>1, <2>4
<1> QED BY <1>2, <1>3

(* Split. *)
Parts(A) == Seq(Seq(A)) \ {<<>>}
SplitStep(A) ==
  [q \in Parts(A) \X A |-> IF q[2] = ";" THEN Append(q[1], <<>>)
                           ELSE [q[1] EXCEPT ![Len(q[1])] = Append(@, q[2])]]

(* Splitting, one byte at a time. *)
LEMMA SplitStepType ==
  ASSUME NEW A
  PROVE  << <<>> >> \in Parts(A) /\ StepOf(SplitStep(A), Parts(A), A)
<1>1. << <<>> >> \in Parts(A)
  BY DEF Parts
<1>2. ASSUME NEW p \in Parts(A), NEW b \in A
      PROVE  /\ Append(p, <<>>) \in Parts(A)
             /\ [p EXCEPT ![Len(p)] = Append(@, b)] \in Parts(A)
  <2>1. p \in Seq(Seq(A)) /\ Len(p) \in 1 .. Len(p) /\ p[Len(p)] \in Seq(A)
    BY DEF Parts
  <2>2. Append(p, <<>>) \in Seq(Seq(A)) /\ Append(p, <<>>) # <<>>
    BY <2>1
  <2> DEFINE x == Append(p[Len(p)], b)
             r == [p EXCEPT ![Len(p)] = x]
  <2>3. x \in Seq(A)
    BY <2>1
  <2> HIDE DEF x
  <2>4. r \in Seq(Seq(A)) /\ Len(r) = Len(p)
    BY <2>1, <2>3
  <2>5. r # <<>>
    BY <2>1, <2>4
  <2> QED BY <2>2, <2>4, <2>5 DEF Parts, x
<1> QED BY Zenon, <1>1, <1>2 DEF StepOf, SplitStep

(* Split, as a fold. *)
LEMMA SplitIsFold ==
  ASSUME NEW A, NEW s, ListOf(s, A)
  PROVE  Split(s) = Fold(SplitStep(A), << <<>> >>, s)
<1> DEFINE step == SplitStep(A)
           base == << <<>> >>
           Val == Parts(A)
           E == A
<1>1. base \in Val /\ StepOf(step, Val, E)
  BY SplitStepType
<1>2. \E a : FoldedBy(a, Val, step, base, s)
  <2> HIDE DEF step, Val, base, E
  <2>1. ListOf(s, E)
    BY DEF E
  <2> QED BY <1>1, <2>1, FoldRule
<1>3. PICK a : FoldedBy(a, Val, step, base, s)
  BY <1>2
<1>4. Len(s) \in Nat /\ DOMAIN s = 1 .. Len(s) /\ \A i \in DOMAIN s : s[i] \in E
  BY DEF ListOf
<1>5. ASSUME NEW T \in SUBSET DOMAIN s, T # {}
      PROVE  a[T] = IF s[Max(T)] = ";" THEN Append(a[T \ {Max(T)}], <<>>)
                    ELSE [a[T \ {Max(T)}] EXCEPT ![Len(a[T \ {Max(T)}])] = Append(@, s[Max(T)])]
  <2>1. Max(T) \in DOMAIN s
    BY Zenon, <1>4, <1>5, GreatestNumber
  <2>2. a[T] = step[<<a[T \ {Max(T)}], s[Max(T)]>>]
    <3> HIDE DEF step, base, Val
    <3> QED BY Zenon, <1>3, <1>5 DEF FoldedBy, FoldsOver
  <2>3. a[T \ {Max(T)}] \in Val /\ s[Max(T)] \in E
    <3> HIDE DEF step, base, Val, E
    <3> QED BY <1>3, <1>4, <2>1 DEF FoldedBy
  <2> QED BY Zenon, <2>2, <2>3 DEF SplitStep
<1>6. a = [T \in SUBSET DOMAIN s |->
             IF T = {} THEN << <<>> >>
             ELSE IF s[Max(T)] = ";" THEN Append(a[T \ {Max(T)}], <<>>)
                  ELSE [a[T \ {Max(T)}] EXCEPT ![Len(a[T \ {Max(T)}])] = Append(@, s[Max(T)])]]
  <2>1. a[{}] = << <<>> >> /\ a = [T \in SUBSET DOMAIN s |-> a[T]]
    <3> HIDE DEF step, Val
    <3> QED BY <1>3 DEF FoldedBy, FoldsOver
  <2> HIDE DEF step, Val, base, E
  <2> QED BY Zenon, <1>5, <2>1
<1>7. PICK b : /\ b = [T \in SUBSET DOMAIN s |->
                       IF T = {} THEN << <<>> >>
                       ELSE IF s[Max(T)] = ";" THEN Append(b[T \ {Max(T)}], <<>>)
                            ELSE [b[T \ {Max(T)}] EXCEPT ![Len(b[T \ {Max(T)}])] = Append(@, s[Max(T)])]]
               /\ Split(s) = b[DOMAIN s]
  <2> HIDE DEF step, Val, base, E
  <2>1. \E b : b = [T \in SUBSET DOMAIN s |->
                       IF T = {} THEN << <<>> >>
                       ELSE IF s[Max(T)] = ";" THEN Append(b[T \ {Max(T)}], <<>>)
                            ELSE [b[T \ {Max(T)}] EXCEPT ![Len(b[T \ {Max(T)}])] = Append(@, s[Max(T)])]]
    BY Zenon, <1>6
  <2> QED BY Zenon, <2>1 DEF Split, FoldLeft, MapThenFoldSet
<1>8. a[{}] = b[{}] /\ AgreeOnLast(s, a, b) /\ IsSeq(s)
  <2> HIDE DEF step, Val, base, E
  <2> QED BY ZenonT(60), <1>4, <1>6, <1>7 DEF AgreeOnLast, IsSeq
<1>9. \A T \in SUBSET DOMAIN s : a[T] = b[T]
  BY <1>8, FoldsAgree
<1> QED BY Zenon, <1>3, <1>7, <1>9 DEF FoldedBy

(* The parts of a list are lists. *)
LEMMA SplitTyped ==
  ASSUME NEW s, IsList(s)
  PROVE  \E A : Split(s) \in Parts(A)
<1> DEFINE A == Range(s)
           step == SplitStep(A)
           Val == Parts(A)
           base == << <<>> >>
<1>1. ListOf(s, A)
  BY DEF IsList, ListOf
<1>2. base \in Val /\ StepOf(step, Val, A)
  BY SplitStepType
<1>3. Split(s) = Fold(step, base, s)
  BY <1>1, SplitIsFold
<1> HIDE DEF step, base, A
<1>4. Split(s) \in Val
  <2> HIDE DEF Val
  <2> QED BY <1>1, <1>2, <1>3, FoldTyped
<1> QED BY <1>4

(* How many chunks there are. *)
LEMMA ChunkCount ==
  ASSUME NEW s, Len(s) \in Nat, NEW k \in {3, 4}
  PROVE  Len(Chunks(s, k)) \in Nat
<1>1. CASE k = 3
  <2>1. (Len(s) + 3 - 1) \div 3 \in Nat
    OBVIOUS
  <2> QED BY <1>1, <2>1 DEF Chunks
<1>2. CASE k = 4
  <2>1. (Len(s) + 4 - 1) \div 4 \in Nat
    OBVIOUS
  <2> QED BY <1>2, <2>1 DEF Chunks
<1> QED BY <1>1, <1>2

Octet == 0 .. 255

(* Base64Value: six bits. *)
LEMMA SixBits == \A c \in DOMAIN Base64Value : Base64Value[c] \in 0 .. 63
<1> DEFINE letters ==
             <<"A", "B", "C", "D", "E", "F", "G", "H", "I", "J", "K", "L", "M",
               "N", "O", "P", "Q", "R", "S", "T", "U", "V", "W", "X", "Y", "Z",
               "a", "b", "c", "d", "e", "f", "g", "h", "i", "j", "k", "l", "m",
               "n", "o", "p", "q", "r", "s", "t", "u", "v", "w", "x", "y", "z">>
           signs == <<"+", "/">>
           all == letters \o DigitBytes \o signs
<1>1. all = Base64Alphabet
  BY DEF Base64Alphabet
<1>2. IsList(letters) /\ Len(letters) = 52
  <2>1. letters = [i \in 1 .. 52 |-> letters[i]]
    OBVIOUS
  <2> HIDE DEF letters
  <2> QED BY Zenon, <2>1, ListMade DEF Size
<1>3. IsList(DigitBytes) /\ Len(DigitBytes) = 10
  <2>1. DigitBytes = [i \in 1 .. 10 |-> DigitBytes[i]]
    BY DEF DigitBytes
  <2> QED BY Zenon, <2>1, ListMade DEF Size
<1>4. IsList(signs) /\ Len(signs) = 2
  BY ListLiteral DEF Literals, Size
<1>5. IsList(all) /\ Len(all) = 64
  <2> HIDE DEF letters, signs
  <2>1. Size(letters) = 52 /\ Size(DigitBytes) = 10 /\ Size(signs) = 2
    BY <1>2, <1>3, <1>4 DEF Size
  <2>2. IsList(letters \o DigitBytes) /\ Size(letters \o DigitBytes) = 62
    BY <1>2, <1>3, <2>1, SizeCat DEF Adds
  <2>3. IsList(all) /\ Size(all) = 64
    BY <1>4, <2>1, <2>2, SizeCat DEF Adds
  <2> QED BY <2>3 DEF Size
<1> HIDE DEF all
<1> SUFFICES ASSUME NEW c \in DOMAIN Base64Value PROVE Base64Value[c] \in 0 .. 63
  OBVIOUS
<1>6. c \in ToSet(Base64Alphabet)
  BY DEF Base64Value
<1>7. \E i \in 1 .. 64 : Base64Alphabet[i] = c
  <2> DEFINE E == Range(all)
  <2>1. all \in Seq(E) /\ Len(all) = 64
    BY <1>5 DEF IsList
  <2> HIDE DEF E
  <2>2. DOMAIN all = 1 .. 64
    BY <2>1
  <2> QED BY <1>1, <1>6, <2>2 DEF ToSet
<1>8. (CHOOSE i \in 1 .. 64 : Base64Alphabet[i] = c) \in 1 .. 64
  BY <1>7
<1> QED BY <1>6, <1>8 DEF Base64Value

Word(a, b, c, d) == ((a * 64 + b) * 64 + c) * 64 + d

Three(n) == n \div 65536 \in Octet /\ (n \div 256) % 256 \in Octet /\ n % 256 \in Octet

(* Four times six bits are three times eight. *)
LEMMA ThreeBytes ==
  ASSUME NEW a \in 0 .. 63, NEW b \in 0 .. 63, NEW c \in 0 .. 63, NEW d \in 0 .. 63
  PROVE  Three(Word(a, b, c, d))
<1> DEFINE u == a * 64 + b
           w == u * 64 + c
           n == w * 64 + d
<1>1. u \in 0 .. 4095
  OBVIOUS
<1>2. \A m \in Nat : m % 256 \in Octet
  BY DEF Octet
<1>3. w \in Nat /\ w \div 1024 \in Octet
  <2> HIDE DEF u
  <2> QED BY <1>1, SMT DEF Octet
<1>4. n \in Nat /\ n \div 65536 = w \div 1024 /\ n \div 256 \in Nat
  <2> HIDE DEF w
  <2> QED BY <1>3, SMT
<1>5. n \div 65536 \in Octet
  <2> HIDE DEF n
  <2> QED BY <1>3, <1>4
<1> HIDE DEF n
<1>6. n % 256 \in Octet /\ (n \div 256) % 256 \in Octet
  BY <1>2, <1>4
<1> QED BY <1>5, <1>6 DEF n, Word, Three

LEMMA FrontOctets ==
  ASSUME NEW x \in Octet, NEW y \in Octet, NEW z \in Octet, NEW k \in {1, 2, 3}
  PROVE  SubSeq(<<x, y, z>>, 1, k) \in Seq(Octet)
<1> DEFINE t == <<x, y, z>>
<1>1. t \in Seq(Octet) /\ Len(t) = 3
  OBVIOUS
<1> HIDE DEF t
<1>2. \A i \in 1 .. k : t[i] \in Octet
  <2> SUFFICES ASSUME NEW i \in 1 .. k PROVE t[i] \in Octet
    OBVIOUS
  <2>1. i \in 1 .. Len(t)
    BY <1>1
  <2> QED BY Zenon, <1>1, <2>1, ElementOfSeq
<1>3. k \in Int /\ 1 \in Int
  OBVIOUS
<1>4. SubSeq(t, 1, k) \in Seq(Octet)
  BY <1>1, <1>2, <1>3, SubSeqProperties
<1> QED BY <1>4 DEF t

(* A quartet of base64, wherever its padding is, stands for octets. *)
LEMMA FourOctets ==
  ASSUME NEW q, \A i \in 1 .. 4 : q[i] = "=" \/ q[i] \in DOMAIN Base64Value
  PROVE  LET value(c) == IF c = "=" THEN 0 ELSE Base64Value[c]
             n == ((value(q[1]) * 64 + value(q[2])) * 64 + value(q[3])) * 64 + value(q[4])
         IN SubSeq(<<n \div 65536, (n \div 256) % 256, n % 256>>, 1,
                   3 - (IF q[3] = "=" THEN 1 ELSE 0) - (IF q[4] = "=" THEN 1 ELSE 0))
              \in Seq(Octet)
<1> DEFINE value(c) == IF c = "=" THEN 0 ELSE Base64Value[c]
           e == value(q[1])
           f == value(q[2])
           g == value(q[3])
           h == value(q[4])
           n == ((e * 64 + f) * 64 + g) * 64 + h
           x == n \div 65536
           y == (n \div 256) % 256
           z == n % 256
           u == IF q[3] = "=" THEN 1 ELSE 0
           w == IF q[4] = "=" THEN 1 ELSE 0
           k == 3 - u - w
           t == <<x, y, z>>
<1>1. e \in 0 .. 63 /\ f \in 0 .. 63 /\ g \in 0 .. 63 /\ h \in 0 .. 63
  <2>1. \A i \in 1 .. 4 : value(q[i]) \in 0 .. 63
    BY SixBits
  <2> HIDE DEF value
  <2> QED BY <2>1
<1>2. x \in Octet /\ y \in Octet /\ z \in Octet
  <2> HIDE DEF e, f, g, h
  <2> DEFINE m == Word(e, f, g, h)
  <2>1. Three(m)
    BY Zenon, <1>1, ThreeBytes
  <2>2. m = n
    BY DEF Word
  <2> HIDE DEF m, n
  <2> QED BY <2>1, <2>2 DEF Three
<1>3. k \in {1, 2, 3}
  <2>1. u \in {0, 1} /\ w \in {0, 1}
    OBVIOUS
  <2> HIDE DEF u, w
  <2> QED BY <2>1
<1> HIDE DEF x, y, z, k
<1>4. SubSeq(t, 1, k) \in Seq(Octet)
  BY <1>2, <1>3, FrontOctets
<1> QED BY <1>4 DEF x, y, z, k

(* Fours, when nothing is left over. *)
LEMMA WholeFours ==
  ASSUME NEW k \in Nat, k % 4 = 0, NEW i \in 1 .. (k + 4 - 1) \div 4
  PROVE  /\ (IF i * 4 < k THEN i * 4 ELSE k) = i * 4 /\ i * 4 <= k /\ i * 4 \in Nat
         /\ (i - 1) * 4 + 1 \in Nat \ {0} /\ i * 4 - ((i - 1) * 4 + 1) + 1 = 4
         /\ \A j \in 1 .. 4 : (i - 1) * 4 + 1 + j - 1 \in 1 .. k
OBVIOUS

(* What the terminal decodes from base64 is a list of octets. *)
LEMMA Unbase64Octets ==
  ASSUME NEW s, IsList(s), IsBase64(s)
  PROVE  Unbase64(s) \in Seq(Octet)
<1> DEFINE chunks == Chunks(s, 4)
           n == Len(chunks)
           value(c) == IF c = "=" THEN 0 ELSE Base64Value[c]
           quartet(q) ==
             LET k == ((value(q[1]) * 64 + value(q[2])) * 64 + value(q[3])) * 64 + value(q[4])
             IN SubSeq(<<k \div 65536, (k \div 256) % 256, k % 256>>, 1,
                       3 - (IF q[3] = "=" THEN 1 ELSE 0) - (IF q[4] = "=" THEN 1 ELSE 0))
           p == [i \in 1 .. n |-> quartet(chunks[i])]
<1>0. Len(s) \in Nat
  BY DEF IsList
<1>1. n \in Nat /\ n = (Len(s) + 4 - 1) \div 4
  <2>1. n \in Nat
    BY <1>0, ChunkCount
  <2>2. (Len(s) + 4 - 1) \div 4 \in Nat
    BY <1>0
  <2> QED BY <2>1, <2>2 DEF Chunks
<1>2. ASSUME NEW i \in 1 .. n, NEW j \in 1 .. 4
      PROVE  chunks[i][j] = "=" \/ chunks[i][j] \in DOMAIN Base64Value
  <2> DEFINE a == (i - 1) * 4 + 1
             b == i * 4
             c == SubSeq(s, a, b)
  <2>0. Len(s) % 4 = 0 /\ i \in 1 .. (Len(s) + 4 - 1) \div 4
    BY <1>1 DEF IsBase64
  <2>1. /\ (IF i * 4 < Len(s) THEN i * 4 ELSE Len(s)) = b /\ b <= Len(s) /\ b \in Nat
        /\ a \in Nat \ {0} /\ b - a + 1 = 4 /\ a + j - 1 \in 1 .. Len(s)
    BY <1>0, <2>0, WholeFours
  <2>2. chunks[i] = c
    BY Zenon, <2>0, <2>1 DEF Chunks
  <2> HIDE DEF a, b, chunks, n
  <2>3. c[j] = s[a + j - 1]
    BY <2>1, Slice
  <2>4. s[a + j - 1] = "=" \/ s[a + j - 1] \in DOMAIN Base64Value
    BY SMTT(40), <2>1 DEF IsBase64
  <2> QED BY <2>2, <2>3, <2>4
<1>3. ASSUME NEW i \in 1 .. n PROVE quartet(chunks[i]) \in Seq(Octet)
  <2> DEFINE q == chunks[i]
  <2>1. \A j \in 1 .. 4 : q[j] = "=" \/ q[j] \in DOMAIN Base64Value
    BY <1>2
  <2> HIDE DEF q
  <2>2. quartet(q) \in Seq(Octet)
    BY <2>1, FourOctets
  <2> QED BY <2>2 DEF q
<1>4. Unbase64(s) = FlattenSeq(p)
  BY DEF Unbase64
<1> HIDE DEF quartet, value, chunks, n
<1>5. p = [i \in 1 .. n |-> p[i]] /\ \A i \in 1 .. n : p[i] \in Seq(Octet)
  BY <1>3
<1> HIDE DEF p
<1> QED BY Zenon, <1>1, <1>4, <1>5, FlattenTyped

-----------------------------------------------------------------------------
(* The terminal's state.                                                    *)

Cells == (1 .. ScreenSize) \X (1 .. ScreenSize)

ScreenOK(t) ==
  DOMAIN t = DOMAIN BlankScreen /\ t.at \in Cells /\ t.saved \in Cells
  /\ t.clip \in Seq(Octet)

(* Clip ends on the screen. *)
LEMMA ClipRange == \A n : Clip(n) \in 1 .. ScreenSize
BY VtAssumption DEF Clip, VtAssumption

(* The blank screen. *)
LEMMA BlankOK == ScreenOK(BlankScreen)
<1>1. 1 \in 1 .. ScreenSize
  BY VtAssumption DEF VtAssumption
<1>2. <<>> \in Seq(Octet)
  OBVIOUS
<1> QED BY <1>1, <1>2 DEF ScreenOK, BlankScreen, Cells

With(t, field, v) == [t EXCEPT ![field] = v]

(* Changing one field of a terminal. *)
LEMMA FieldsOK ==
  ASSUME NEW t, ScreenOK(t), NEW field, NEW v,
         field \in {"at", "saved"} => v \in Cells,
         field = "clip" => v \in Seq(Octet)
  PROVE  ScreenOK(With(t, field, v))
<1>1. DOMAIN With(t, field, v) = DOMAIN t
  BY DEF With
<1>2. \A f \in DOMAIN t : With(t, field, v)[f] = IF f = field THEN v ELSE t[f]
  BY DEF With
<1>3. {"at", "saved", "clip"} \subseteq DOMAIN t
  BY DEF ScreenOK, BlankScreen
<1> QED BY <1>1, <1>2, <1>3 DEF ScreenOK

(* Changing a field of which nothing is asked. *)
LEMMA FieldsFree ==
  ASSUME NEW t, ScreenOK(t), NEW field \in {"style", "erased", "modes", "kitty", "cwd", "link", "mark"}
  PROVE  \A v : ScreenOK(With(t, field, v))
<1>1. field \notin {"at", "saved", "clip"}
  OBVIOUS
<1> QED BY <1>1, FieldsOK

(* Moves stay on the screen. *)
LEMMA MovedCells ==
  ASSUME NEW at \in Cells, NEW move \in {"A", "B", "C", "D"}, NEW n
  PROVE  Moved(at, move, n) \in Cells
BY ClipRange DEF Moved, Cells

(* Obeying CSI. *)
LEMMA ObeyCsiOK ==
  ASSUME NEW t, ScreenOK(t), NEW lead, NEW params, NEW final
  PROVE  ScreenOK(ObeyCsi(t, lead, params, final))
<1> DEFINE n == Num(params[1])
           m == Num(params[Len(params)])
           r == ObeyCsi(t, lead, params, final)
<1>1. CASE final = "m"
  <2>1. r = With(t, "style", ObeySgr(t.style, params))
    BY <1>1 DEF ObeyCsi, With
  <2> QED BY <2>1, FieldsOK, FieldsFree
<1>2. CASE final \in {"A", "B", "C", "D"}
  <2> DEFINE v == Moved(t.at, final, IF n = 0 THEN 1 ELSE n)
  <2>1. r = With(t, "at", v)
    BY <1>2 DEF ObeyCsi, With
  <2>2. v \in Cells
    BY <1>2, MovedCells DEF ScreenOK
  <2> HIDE DEF v
  <2> QED BY <2>1, <2>2, FieldsOK, FieldsFree
<1>3. CASE final = "H"
  <2> DEFINE v == <<Clip(n), Clip(m)>>
  <2>1. r \in {t, With(t, "at", v)}
    BY <1>3 DEF ObeyCsi, With
  <2>2. v \in Cells
    BY ClipRange DEF Cells
  <2> HIDE DEF v
  <2> QED BY <2>1, <2>2, FieldsOK, FieldsFree
<1>4. CASE final \in {"J", "K"}
  <2>1. r = With(t, "erased", <<n, final>>)
    BY <1>4 DEF ObeyCsi, With
  <2> QED BY <2>1, FieldsOK, FieldsFree
<1>5. CASE final \in {"h", "l"}
  <2>1. \E v : r = With(t, "modes", v)
    BY Zenon, <1>5 DEF ObeyCsi, With
  <2> QED BY <2>1, FieldsOK, FieldsFree
<1>6. CASE final = "u"
  <2> DEFINE k == t.kitty
             put(v) == [k EXCEPT ![Len(k)] = v]
             top == k[Len(k)]
  <2>1. \/ r = t
        \/ r = [t EXCEPT !.kitty = Append(k, Bits(n))]
        \/ r = [t EXCEPT !.kitty = PopStack(k, n)]
        \/ r = [t EXCEPT !.kitty[Len(k)] = Bits(n)]
        \/ r = [t EXCEPT !.kitty[Len(k)] = top \cup Bits(n)]
        \/ r = [t EXCEPT !.kitty[Len(k)] = top \ Bits(n)]
    BY <1>6 DEF ObeyCsi
  <2> HIDE DEF r, n
  <2>2. \A v : [t EXCEPT !.kitty[Len(k)] = v] = With(t, "kitty", put(v))
    BY DEF With
  <2>3. \A v : [t EXCEPT !.kitty = v] = With(t, "kitty", v)
    BY DEF With
  <2>4. r = t \/ \E v : r = With(t, "kitty", v)
    <3>1. ASSUME NEW v, r = [t EXCEPT !.kitty[Len(k)] = v]
          PROVE  \E w : r = With(t, "kitty", w)
      BY Zenon, <3>1, <2>2
    <3>2. ASSUME NEW v, r = [t EXCEPT !.kitty = v]
          PROVE  \E w : r = With(t, "kitty", w)
      BY Zenon, <3>2, <2>3
    <3> HIDE DEF k, put, top
    <3> QED BY Zenon, <2>1, <3>1, <3>2
  <2> QED BY <2>4, FieldsFree DEF r
<1>7. CASE final \notin {"m", "A", "B", "C", "D", "H", "J", "K", "h", "l", "u"}
  <2>1. r = t
    BY <1>7 DEF ObeyCsi, With
  <2> QED BY <2>1
<1> QED BY <1>1, <1>2, <1>3, <1>4, <1>5, <1>6, <1>7

(* Obeying OSC. *)
LEMMA ObeyOscOK ==
  ASSUME NEW t, ScreenOK(t), NEW text, IsList(text)
  PROVE  ScreenOK(ObeyOsc(t, text))
<1> DEFINE parts == Split(text)
           last == parts[Len(parts)]
           r == ObeyOsc(t, text)
           v == IF IsBase64(last) THEN Unbase64(last) ELSE <<>>
<1>1. v \in Seq(Octet)
  <2>1. PICK A : parts \in Parts(A)
    BY SplitTyped
  <2> HIDE DEF parts
  <2>2. last \in Seq(A)
    BY <2>1 DEF Parts
  <2>3. IsList(last)
    BY <2>2, ListIn
  <2> HIDE DEF last
  <2>4. IsBase64(last) => Unbase64(last) \in Seq(Octet)
    BY <2>3, Unbase64Octets
  <2>5. <<>> \in Seq(Octet)
    OBVIOUS
  <2> QED BY <2>4, <2>5, Zenon
<1>2. \/ r = t \/ r = [t EXCEPT !.cwd = PathOf(last)] \/ r = [t EXCEPT !.link = LinkOf(text)]
      \/ r = [t EXCEPT !.clip = v] \/ r = [t EXCEPT !.mark = MarkNamed(last[1])]
  BY DEF ObeyOsc
<1> HIDE DEF v, last, r
<1>3. \/ r = t \/ r = With(t, "cwd", PathOf(last)) \/ r = With(t, "link", LinkOf(text))
      \/ r = With(t, "clip", v) \/ r = With(t, "mark", MarkNamed(last[1]))
  BY <1>2 DEF With
<1> QED BY <1>1, <1>3, FieldsOK, FieldsFree DEF r

(* Whatever the bytes, the terminal stays a terminal. *)
LEMMA ObeyOK ==
  ASSUME NEW t, ScreenOK(t), NEW kind, NEW s, IsList(s)
  PROVE  ScreenOK(Obey(t, kind, s))
<1>1. CASE kind = "esc"
  <2>1. Obey(t, kind, s) \in {With(t, "saved", t.at), With(t, "at", t.saved)}
    BY Zenon, <1>1 DEF Obey, With
  <2> QED BY <2>1, FieldsOK, FieldsFree DEF ScreenOK
<1>2. CASE kind = "csi"
  <2>1. \E lead, params, final : Obey(t, kind, s) = ObeyCsi(t, lead, params, final)
    BY <1>2 DEF Obey, With
  <2> QED BY <2>1, ObeyCsiOK
<1>3. CASE kind = "osc"
  <2> DEFINE text == SubSeq(s, 3, Len(s) - 2)
  <2>1. Obey(t, kind, s) = ObeyOsc(t, text)
    BY <1>3 DEF Obey, With
  <2>2. IsList(text)
    <3> DEFINE m == 3
               n == Len(s) - 2
    <3>1. m \in Nat \ {0} /\ n \in Int /\ n <= Len(s)
      BY DEF IsList
    <3> HIDE DEF m, n
    <3>2. IsList(SubSeq(s, m, n))
      BY <3>1, SliceList
    <3> QED BY <3>2 DEF m, n
  <2> HIDE DEF text
  <2> QED BY <2>1, <2>2, ObeyOscOK
<1>4. CASE kind \notin {"esc", "csi", "osc"}
  <2>1. Obey(t, kind, s) = t
    BY <1>4 DEF Obey, With
  <2> QED BY <2>1
<1> QED BY <1>1, <1>2, <1>3, <1>4

(* Meaning: the screen the items themselves describe. *)
LEMMA MeaningOK ==
  ASSUME NEW t, ScreenOK(t), NEW i \in Item
  PROVE  ScreenOK(Meaning(t, i))
<1> DEFINE r == Meaning(t, i)
<1>1. CASE i.kind = "sgr"
  <2>1. \E v : r = With(t, "style", v)
    BY Zenon, <1>1 DEF Meaning, With
  <2> QED BY <2>1, FieldsOK, FieldsFree
<1>2. CASE i.kind = "cursor"
  <2>1. i.move \in {"up", "down", "left", "right", "goto", "save", "restore"}
    BY <1>2 DEF Item, MoveFinal
  <2>2. \/ \E n : r = With(t, "at", <<Clip(n), t.at[2]>>)
        \/ \E n : r = With(t, "at", <<t.at[1], Clip(n)>>)
        \/ \E m, n : r = With(t, "at", <<Clip(m), Clip(n)>>)
        \/ r = With(t, "saved", t.at)
        \/ r = With(t, "at", t.saved)
    BY Zenon, <1>2, <2>1 DEF Meaning, With
  <2>3. t.at \in Cells /\ t.saved \in Cells
    BY DEF ScreenOK
  <2>4. \A m, n : <<Clip(n), t.at[2]>> \in Cells /\ <<t.at[1], Clip(n)>> \in Cells
                  /\ <<Clip(m), Clip(n)>> \in Cells
    BY <2>3, ClipRange DEF Cells
  <2> HIDE DEF r
  <2> QED BY Zenon, <2>2, <2>3, <2>4, FieldsOK, FieldsFree DEF r
<1>3. CASE i.kind = "erase"
  <2>1. \E v : r = With(t, "erased", v)
    BY <1>3 DEF Meaning, With
  <2> QED BY <2>1, FieldsOK, FieldsFree
<1>4. CASE i.kind \in {"modeSet", "modeReset"}
  <2>1. \E v : r = With(t, "modes", v)
    BY Zenon, <1>4 DEF Meaning, With
  <2> QED BY <2>1, FieldsOK, FieldsFree
<1>5. CASE i.kind = "kitty"
  <2>1. i.op \in {"push", "pop", "set", "query"}
    BY <1>5 DEF Item
  <2>2. r = t \/ \E v : r = With(t, "kitty", v)
    BY Zenon, <1>5, <2>1 DEF Meaning, With
  <2> QED BY <2>2, FieldsOK, FieldsFree
<1>6. CASE i.kind \in {"osc7", "osc8", "osc133"}
  <2>1. \E v : r \in {With(t, "cwd", v), With(t, "link", v), With(t, "mark", v)}
    BY Zenon, <1>6 DEF Meaning, With
  <2> QED BY <2>1, FieldsOK, FieldsFree
<1>7. CASE i.kind = "osc52"
  <2>1. r = With(t, "clip", i.payload)
    BY <1>7 DEF Meaning, With
  <2>2. i.payload \in Seq(Octet)
    BY <1>7 DEF Item, Octet
  <2> QED BY <2>1, <2>2, FieldsOK, FieldsFree
<1>8. CASE i.kind = "query"
  <2>1. r = t
    BY <1>8 DEF Meaning, With
  <2> QED BY <2>1
<1> QED BY <1>1, <1>2, <1>3, <1>4, <1>5, <1>6, <1>7, <1>8 DEF Item

(* The terminal takes no more bytes than there are. *)
LEMMA NextLength ==
  ASSUME NEW s, IsList(s)
  PROVE  NextSequence(s).len \in 0 .. Len(s)
<1> DEFINE I == {i \in 3 .. Len(s) : s[i] = ESC \/ IsCsiFinal(s[i])}
           J == {i \in 3 .. Len(s) : s[i] = ESC}
           final == IF I # {} THEN Min(I) ELSE 0
           st == IF J # {} THEN Min(J) ELSE 0
           a == SelectInSubSeq(s, 3, Len(s), LAMBDA b : b = ESC \/ IsCsiFinal(b))
           c == SelectInSubSeq(s, 3, Len(s), LAMBDA b : b = ESC)
<1>0. Len(s) \in Nat /\ (s # <<>> => Len(s) >= 1)
  <2> DEFINE E == Range(s)
  <2>1. s \in Seq(E)
    BY DEF IsList
  <2> HIDE DEF E
  <2> QED BY <2>1
<1>1. a = final /\ c = st
  BY DEF SelectInSubSeq
<1>2. final \in 0 .. Len(s)
  <2>1. I \in SUBSET Nat /\ I \subseteq 0 .. Len(s)
    OBVIOUS
  <2>2. I # {} => Min(I) \in 0 .. Len(s)
    <3> HIDE DEF I
    <3> QED BY Zenon, <2>1, FirstOf
  <2> HIDE DEF I
  <2> QED BY <1>0, <2>2
<1>3. st \in 0 .. Len(s)
  <2>1. J \in SUBSET Nat /\ J \subseteq 0 .. Len(s)
    OBVIOUS
  <2>2. J # {} => Min(J) \in 0 .. Len(s)
    <3> HIDE DEF J
    <3> QED BY Zenon, <2>1, FirstOf
  <2> HIDE DEF J
  <2> QED BY <1>0, <2>2
<1>4. \/ NextSequence(s).len = 0
      \/ s # <<>> /\ NextSequence(s).len = 1
      \/ Len(s) > 1 /\ NextSequence(s).len = 2
      \/ a # 0 /\ NextSequence(s).len \in {a, a - 1}
      \/ c # 0 /\ (NextSequence(s).len = c - 1 \/ (c # Len(s) /\ NextSequence(s).len = c + 1))
  <2> DEFINE q == NextSequence(s).len
  <2> HIDE DEF final, st, I, J
  <2>1. CASE s = <<>> \/ s = <<ESC>>
    <3>1. q = 0
      BY <2>1 DEF NextSequence
    <3> HIDE DEF q, a, c
    <3> QED BY <3>1 DEF q
  <2>6. CASE s # <<>> /\ s[1] # ESC
    <3>1. s # <<ESC>>
      BY <2>6
    <3>2. q = 1
      BY <2>6, <3>1 DEF NextSequence
    <3> HIDE DEF q, a, c
    <3> QED BY <2>6, <3>2 DEF q
  <2>2. CASE Len(s) > 1 /\ s[1] = ESC /\ s[2] \in {"7", "8"}
    BY <2>2 DEF NextSequence
  <2>3. CASE Len(s) > 1 /\ s[1] = ESC /\ s[2] = "["
    <3>1. q = IF a = 0 THEN 0 ELSE IF s[a] = ESC THEN a - 1 ELSE a
      BY <2>3 DEF NextSequence
    <3> HIDE DEF q, a, c
    <3> QED BY <3>1 DEF q
  <2>4. CASE Len(s) > 1 /\ s[1] = ESC /\ s[2] = "]"
    <3>1. q = IF c = 0 \/ c = Len(s) THEN 0 ELSE IF s[c + 1] = "\\" THEN c + 1 ELSE c - 1
      BY <2>4 DEF NextSequence
    <3> HIDE DEF q, a, c
    <3>2. q = 0 \/ (c # 0 /\ (q = c - 1 \/ (c # Len(s) /\ q = c + 1)))
      BY <3>1
    <3> QED BY <3>2 DEF q, c
  <2>5. CASE s # <<>> /\ s # <<ESC>> /\ s[1] = ESC /\ ~(Len(s) > 1 /\ s[2] \in {"7", "8", "[", "]"})
    BY <2>5 DEF NextSequence
  <2> QED BY <2>1, <2>6, <2>2, <2>3, <2>4, <2>5
<1> HIDE DEF final, st, a, c
<1> QED BY <1>0, <1>1, <1>2, <1>3, <1>4

(* Joined lists are a list. *)
LEMMA JoinList ==
  ASSUME NEW n \in Nat, NEW p, p = [i \in 1 .. n |-> p[i]], \A i \in 1 .. n : IsList(p[i]), NEW sep
  PROVE  IsList(Join(p, sep))
<1> DEFINE A == {sep} \cup UNION {Range(p[i]) : i \in 1 .. n}
           step == JoinStep(A, sep)
           base == <<>>
           Val == Seq(A)
<1>1. sep \in A
  OBVIOUS
<1>2. ASSUME NEW i \in 1 .. n PROVE p[i] \in Seq(A)
  <2>1. IsList(p[i]) /\ Range(p[i]) \subseteq A
    OBVIOUS
  <2> HIDE DEF A
  <2> QED BY <2>1, ListTyped
<1>3. ListOf(p, Val)
  <2> HIDE DEF A
  <2> QED BY <1>2 DEF ListOf
<1>4. base \in Val /\ StepOf(step, Val, Val)
  BY <1>1, JoinStepType
<1>5. Join(p, sep) = Fold(step, base, p)
  <2> HIDE DEF A
  <2> QED BY <1>1, <1>3, JoinIsFold
<1> HIDE DEF step, base, A
<1>6. Join(p, sep) \in Val
  <2> HIDE DEF Val
  <2> QED BY <1>3, <1>4, <1>5, FoldTyped
<1> QED BY <1>6, ListIn

(* Five digits make a number. *)
LEMMA FiveNat == \A n \in FiveDigits : n \in Nat
BY DEF FiveDigits

(* Every answer of the terminal is a byte string. *)
LEMMA AnswerLists ==
  ASSUME ScreenOK(screen), NEW q \in DOMAIN QueryBytes, NEW bytes \in AnswerBytes(Answer(q))
  PROVE  IsList(bytes)
<1>1. ASSUME NEW lead, NEW n \in Nat, NEW f, IsList(f)
      PROVE  IsList(CSI \o <<lead>> \o Itoa(n) \o f)
  <2> DEFINE l == <<lead>>
             d == Itoa(n)
  <2>1. IsList(l) /\ IsList(d)
    BY ListLiteral, ItoaSize DEF Literals
  <2> DEFINE front == CSI \o l \o d
  <2>2. IsList(front)
    <3> HIDE DEF l, d
    <3> QED BY <2>1, FrameSize, SizeCat DEF Adds
  <2> DEFINE whole == front \o f
  <2> HIDE DEF front
  <2>3. IsList(whole)
    BY <1>1, <2>2, SizeCat DEF Adds
  <2> QED BY <2>3 DEF front
<1>2. CASE q = "da1"
  <2> DEFINE k == 1 + Len(Tail(DeviceAttributes))
             p == [i \in 1 .. k |-> Itoa(DeviceAttributes[i])]
             l == <<"?">>
             f == <<"c">>
  <2>1. k \in Nat /\ k = Len(DeviceAttributes)
    <3>1. DeviceAttributes \in Seq(FiveDigits) /\ DeviceAttributes # <<>>
      BY DecodeAssumption, CodecAssumption DEF CodecAssumption, DecodeAssumption
    <3> QED BY <3>1
  <2>2. \A i \in 1 .. k : IsList(p[i])
    <3> SUFFICES ASSUME NEW i \in 1 .. k PROVE IsList(p[i])
      OBVIOUS
    <3>0. DeviceAttributes[i] \in FiveDigits
      BY <2>1, CodecAssumption DEF CodecAssumption
    <3>1. DeviceAttributes[i] \in Nat
      BY <3>0, FiveNat
    <3> QED BY <3>1, ItoaSize
  <2>3. p = [i \in 1 .. k |-> p[i]]
    OBVIOUS
  <2>4. bytes = CSI \o l \o Join(p, ";") \o f
    BY Zenon, <1>2 DEF Answer, AnswerBytes
  <2>5. IsList(l) /\ IsList(f)
    BY ListLiteral DEF Literals
  <2> HIDE DEF p, k, l, f
  <2>6. IsList(Join(p, ";"))
    BY Zenon, <2>1, <2>2, <2>3, JoinList
  <2> QED BY Zenon, <2>4, <2>5, <2>6, FrameSize, SizeCat DEF Adds
<1>3. CASE q = "dsr"
  <2> DEFINE r == Itoa(screen.at[1])
             c == Itoa(screen.at[2])
             m == <<";">>
             f == <<"R">>
  <2>1. screen.at[1] \in Nat /\ screen.at[2] \in Nat
    BY DEF ScreenOK, Cells
  <2>2. bytes = CSI \o r \o m \o c \o f
    BY Zenon, <1>3 DEF Answer, AnswerBytes
  <2>3. IsList(r) /\ IsList(c) /\ IsList(m) /\ IsList(f)
    BY Zenon, <2>1, ItoaSize, ListLiteral DEF Literals
  <2> HIDE DEF r, c, m, f
  <2> QED BY <2>2, <2>3, FrameSize, SizeCat DEF Adds
<1>4. CASE q = "kitty"
  <2> DEFINE n == Number(screen.kitty[Len(screen.kitty)])
  <2>1. n \in Nat
    <3>1. \A bits : Number(bits) \in Nat
      BY DEF Number
    <3> QED BY <3>1
  <2>2. bytes = CSI \o <<"?">> \o Itoa(n) \o <<"u">>
    BY Zenon, <1>4 DEF Answer, AnswerBytes
  <2>3. IsList(<<"u">>)
    BY ListLiteral DEF Literals
  <2> HIDE DEF n
  <2> QED BY <1>1, <2>1, <2>2, <2>3
<1>5. CASE q = "decrpm"
  <2> DEFINE n == ModeNumber["BracketedPaste"]
             m == <<";">>
             f == <<"$", "y">>
             one == <<"1">>
             two == <<"2">>
             front == CSI \o <<"?">> \o Itoa(n) \o m
  <2>1. n \in Nat
    BY DEF ModeNumber
  <2>2. \/ bytes = front \o one \o f
        \/ bytes = front \o two \o f
    BY Zenon, <1>5 DEF Answer, AnswerBytes
  <2>3. IsList(m) /\ IsList(f) /\ IsList(one) /\ IsList(two)
    BY Zenon, ListLiteral DEF Literals
  <2>4. IsList(front)
    <3> HIDE DEF n, m
    <3> QED BY <1>1, <2>1, <2>3
  <2> HIDE DEF front, f, one, two
  <2> QED BY Zenon, <2>2, <2>3, <2>4, SizeCat DEF Adds
<1>6. CASE q = "osc52"
  <2> DEFINE b == Base64(screen.clip)
             tag == <<"5", "2", ";", "c", ";">>
             bel == <<BEL>>
  <2>1. bytes \in {OSC \o tag \o b \o end : end \in {ST, bel}}
    BY Zenon, <1>6 DEF Answer, AnswerBytes
  <2>2. IsList(tag) /\ IsList(bel)
    BY Zenon, FiveBytes, ListLiteral DEF Literals
  <2>3. IsList(b)
    <3>1. Len(screen.clip) \in Nat
      BY DEF ScreenOK
    <3> QED BY <3>1, Base64Size
  <2> HIDE DEF b, tag, bel
  <2>4. PICK end \in {ST, bel} : bytes = OSC \o tag \o b \o end
    BY Zenon, <2>1
  <2>5. IsList(end)
    BY <2>2, <2>4, FrameSize
  <2> QED BY <2>2, <2>3, <2>4, <2>5, FrameSize, SizeCat DEF Adds
<1> QED BY <1>2, <1>3, <1>4, <1>5, <1>6 DEF QueryBytes

(* A decoder takes a number of bytes. *)
LEMMA ConsumedNat ==
  ASSUME NEW s, IsList(s), NEW d \in Decoders, Decode(d, s).result = "ok"
  PROVE  Decode(d, s).consumed \in Nat
<1>1. CASE d \in CsiDecoders
  <2>1. Decode(d, s).consumed = ParseCsi(s).consumed
    BY Zenon, <1>1, CsiAccepts
  <2>2. ParseCsi(s).consumed \in Nat
    BY ParseType, CsiFields
  <2> QED BY <2>1, <2>2
<1>2. CASE d = "osc52"
  <2>1. Osc52(s) = Taken(s) /\ Stop(s) \in Nat /\ Decode(d, s) = Osc52(s)
    BY <1>2, OscDecode, OscAccepts DEF Stops
  <2>2. Taken(s).consumed = Stop(s) + 1 \/ Taken(s).consumed = Stop(s)
    BY DEF Taken, Ok
  <2> QED BY <2>1, <2>2
<1> QED BY <1>1, <1>2, DecodersAre

-----------------------------------------------------------------------------
(* The streams: whatever is written, answered, pressed or dropped, each is  *)
(* a byte string, and the terminal stays a terminal.                        *)
StreamInv ==
  /\ todo \in Seq(Item) /\ batches \in Nat
  /\ IsList(out) /\ IsList(back) /\ IsList(inbox)
  /\ ScreenOK(screen) /\ ScreenOK(asked)

(* Nothing is on its way and the terminal is blank. *)
LEMMA StreamInit == Init => StreamInv
<1>1. IsList(<<>>)
  BY ListLiteral DEF Literals
<1>2. <<>> \in Seq(Item)
  OBVIOUS
<1> QED BY <1>1, <1>2, BlankOK DEF Init, StreamInv

(* The writer's actions append to out part or all of an item. *)
LEMMA StreamWrite ==
  ASSUME StreamInv, Begin \/ EncodeItem \/ WriterFails \/ EncodeDone
  PROVE  StreamInv'
<1>0. /\ todo \in Seq(Item) /\ batches \in Nat
      /\ IsList(out) /\ IsList(back) /\ IsList(inbox)
      /\ ScreenOK(screen) /\ ScreenOK(asked)
  BY DEF StreamInv
<1>1. CASE Begin
  <2>1. PICK batch \in Batches[batches + 1] : todo' = batch
    BY <1>1 DEF Begin
  <2>2. batches + 1 \in 1 .. Len(Batches)
    BY <1>0, <1>1, CodecAssumption DEF Begin, CodecAssumption
  <2>3. Batches[batches + 1] \in SUBSET Seq(Item)
    BY <2>2, CodecAssumption DEF CodecAssumption
  <2>4. batches' = batches + 1 /\ UNCHANGED <<out, back, inbox, screen, asked>>
    BY <1>1 DEF Begin, termVars, readVars
  <2> QED BY <1>0, <2>1, <2>3, <2>4 DEF StreamInv
<1>2. ASSUME todo # <<>>
      PROVE  /\ Head(todo) \in Item /\ Tail(todo) \in Seq(Item) /\ <<>> \in Seq(Item)
             /\ IsList(EncodeDyn(Head(todo))) /\ ScreenOK(Meaning(asked, Head(todo)))
  <2>1. Head(todo) \in Item /\ Tail(todo) \in Seq(Item) /\ <<>> \in Seq(Item)
    BY <1>0, <1>2
  <2> QED BY <1>0, <2>1, EncodeSize, MeaningOK
<1>3. CASE EncodeItem
  <2> DEFINE bytes == EncodeDyn(Head(todo))
             now == out \o bytes
             means == Meaning(asked, Head(todo))
  <2>1. todo # <<>> /\ out' = now /\ asked' = means /\ todo' \in {<<>>, Tail(todo)}
        /\ UNCHANGED <<batches, screen, back, inbox>>
    BY <1>3 DEF EncodeItem, readVars
  <2>2. IsList(bytes) /\ ScreenOK(means) /\ todo' \in Seq(Item)
    BY Zenon, <1>2, <2>1
  <2>3. IsList(now)
    <3> HIDE DEF bytes
    <3> QED BY <1>0, <2>2, SizeCat DEF Adds
  <2> HIDE DEF now, bytes, means
  <2> QED BY <1>0, <2>1, <2>2, <2>3 DEF StreamInv
<1>4. CASE WriterFails
  <2> DEFINE bytes == EncodeDyn(Head(todo))
  <2>1. todo # <<>> /\ todo' = <<>> /\ UNCHANGED <<batches, screen, asked, back, inbox>>
    BY <1>4 DEF WriterFails, readVars
  <2>2. PICK k \in 0 .. (Len(bytes) - 1) : out' = out \o SubSeq(bytes, 1, k)
    BY Zenon, <1>4 DEF WriterFails
  <2>3. IsList(bytes) /\ <<>> \in Seq(Item)
    BY <1>2, <2>1
  <2> DEFINE part == SubSeq(bytes, 1, k)
             now == out \o part
  <2>4. IsList(part)
    <3> HIDE DEF bytes
    <3>1. k \in Int /\ k <= Len(bytes) /\ 1 \in Nat \ {0}
      BY <2>3 DEF IsList
    <3> QED BY <2>3, <3>1, SliceList
  <2>5. IsList(now)
    <3> HIDE DEF part
    <3> QED BY <1>0, <2>4, SizeCat DEF Adds
  <2>6. out' = now
    BY <2>2
  <2> HIDE DEF now
  <2> QED BY <1>0, <2>1, <2>3, <2>5, <2>6 DEF StreamInv
<1>5. CASE EncodeDone
  <2>1. UNCHANGED <<todo, batches, out, back, inbox, screen, asked>>
    BY <1>5 DEF EncodeDone, termVars, readVars
  <2> QED BY <1>0, <2>1 DEF StreamInv
<1> QED BY <1>1, <1>3, <1>4, <1>5

(* The terminal takes a whole sequence from out and appends its answer. *)
LEMMA StreamObey ==
  ASSUME StreamInv, TerminalObeys
  PROVE  StreamInv'
<1> DEFINE n == NextSequence(out).len
           kind == NextSequence(out).kind
           bytes == SubSeq(out, 1, n)
           rest == SubSeq(out, n + 1, Len(out))
           then == Obey(screen, kind, bytes)
<1>0. /\ todo \in Seq(Item) /\ batches \in Nat
      /\ IsList(out) /\ IsList(back) /\ IsList(inbox)
      /\ ScreenOK(screen) /\ ScreenOK(asked)
  BY DEF StreamInv
<1>1. out' = rest /\ screen' = then /\ UNCHANGED <<todo, batches, asked, inbox>>
  BY DEF TerminalObeys, writeVars, readVars
<1>2. n \in Int /\ n <= Len(out) /\ n + 1 \in Nat \ {0} /\ Len(out) \in Int /\ Len(out) <= Len(out)
  <2>1. n \in 0 .. Len(out)
    BY <1>0, NextLength
  <2>2. Len(out) \in Nat
    BY <1>0 DEF IsList
  <2> HIDE DEF n
  <2> QED BY <2>1, <2>2
<1>3. IsList(bytes) /\ IsList(rest)
  <2> HIDE DEF n
  <2>1. 1 \in Nat \ {0}
    OBVIOUS
  <2> QED BY <1>0, <1>2, <2>1, SliceList
<1>4. ScreenOK(then)
  <2> HIDE DEF kind, bytes
  <2> QED BY <1>0, <1>3, ObeyOK
<1>5. back' = back \/ \E q \in DOMAIN QueryBytes : \E b \in AnswerBytes(Answer(q)) : back' = back \o b
  BY Zenon DEF TerminalObeys, Says, AskedFor
<1>6. IsList(back')
  <2>1. ASSUME NEW q \in DOMAIN QueryBytes, NEW b \in AnswerBytes(Answer(q)), back' = back \o b
        PROVE  IsList(back')
    <3>1. IsList(b)
      BY <1>0, AnswerLists
    <3> QED BY <1>0, <2>1, <3>1, SizeCat DEF Adds
  <2> QED BY Zenon, <1>0, <1>5, <2>1
<1> HIDE DEF rest, then
<1> QED BY <1>0, <1>1, <1>3, <1>4, <1>6 DEF StreamInv

(* Keys and the reader: bytes are appended to back and taken from inbox. *)
LEMMA StreamRead ==
  ASSUME StreamInv, (\E bytes \in Noise : PressKey(bytes)) \/ Arrive \/ Take \/ Drop
  PROVE  StreamInv'
<1>0. /\ todo \in Seq(Item) /\ batches \in Nat
      /\ IsList(out) /\ IsList(back) /\ IsList(inbox)
      /\ ScreenOK(screen) /\ ScreenOK(asked)
  BY DEF StreamInv
<1>1. ASSUME NEW bytes \in Noise, PressKey(bytes)
      PROVE  StreamInv'
  <2>1. IsList(bytes)
    <3>1. bytes \in Seq(STRING)
      BY CodecAssumption DEF CodecAssumption
    <3> QED BY <3>1, ListIn
  <2> DEFINE now == back \o bytes
  <2>2. IsList(now)
    BY <1>0, <2>1, SizeCat DEF Adds
  <2>3. back' = now /\ UNCHANGED <<todo, batches, out, inbox, screen, asked>>
    BY <1>1 DEF PressKey, writeVars, termVars, readVars
  <2> HIDE DEF now
  <2> QED BY <1>0, <2>2, <2>3 DEF StreamInv
<1>2. CASE Arrive
  <2> DEFINE now == Append(inbox, Head(back))
             rest == Tail(back)
  <2>1. back # <<>> /\ inbox' = now /\ back' = rest /\ UNCHANGED <<todo, batches, out, screen, asked>>
    BY <1>2 DEF Arrive, writeVars, termVars
  <2>2. IsList(now) /\ IsList(rest)
    BY <1>0, <2>1, ListAppend, TailList
  <2> HIDE DEF now, rest
  <2> QED BY <1>0, <2>1, <2>2 DEF StreamInv
<1>3. CASE Take
  <2>1. PICK d \in Accepted : inbox' = SubSeq(inbox, Decode(d, inbox).consumed + 1, Len(inbox))
    BY Zenon, <1>3 DEF Take
  <2> DEFINE m == Decode(d, inbox).consumed + 1
             n == Len(inbox)
             rest == SubSeq(inbox, m, n)
  <2>2. Decode(d, inbox).consumed \in Nat
    BY <1>0, ConsumedNat DEF Accepted
  <2>3. m \in Nat \ {0} /\ n \in Int /\ n <= Len(inbox)
    <3>1. n \in Nat
      BY <1>0 DEF IsList
    <3> QED BY <2>2, <3>1
  <2>4. IsList(rest)
    <3> HIDE DEF m, n
    <3> QED BY <1>0, <2>3, SliceList
  <2>5. inbox' = rest /\ UNCHANGED <<todo, batches, out, back, screen, asked>>
    BY Zenon, <1>3, <2>1 DEF Take, writeVars, termVars
  <2> HIDE DEF rest
  <2> QED BY <1>0, <2>4, <2>5 DEF StreamInv
<1>4. CASE Drop
  <2> DEFINE rest == Tail(inbox)
  <2>1. inbox # <<>> /\ inbox' = rest /\ UNCHANGED <<todo, batches, out, back, screen, asked>>
    BY <1>4 DEF Drop, writeVars, termVars
  <2>2. IsList(rest)
    BY <1>0, <2>1, TailList
  <2> HIDE DEF rest
  <2> QED BY <1>0, <2>1, <2>2 DEF StreamInv
<1> QED BY <1>1, <1>2, <1>3, <1>4

(* The streams stay byte strings. *)
LEMMA StreamStep == StreamInv /\ [Next]_vars => StreamInv'
<1> SUFFICES ASSUME StreamInv, [Next]_vars PROVE StreamInv'
  OBVIOUS
<1>1. CASE UNCHANGED vars
  BY <1>1 DEF StreamInv, vars, writeVars, termVars, readVars
<1>2. CASE Next
  BY <1>2, StreamWrite, StreamObey, StreamRead DEF Next
<1> QED BY <1>1, <1>2

(* The streams and the terminal, at all times. *)
LEMMA StreamAlways == Spec => []StreamInv
BY StreamInit, StreamStep, PTL DEF Spec

-----------------------------------------------------------------------------
(* No bytes have two meanings, and a verdict stands.                        *)

(* OneMeaning: whatever has arrived, at most one decoder accepts it, so the *)
(* order in which try_decode_one asks them does not matter.                 *)
THEOREM MeaningIsOne == Spec => []OneMeaning
<1>1. StreamInv => OneMeaning
  <2> SUFFICES ASSUME StreamInv PROVE Cardinality(Accepted) <= 1
    BY DEF OneMeaning
  <2>1. \A d, e \in Accepted : d = e
    BY DecodeOnce DEF StreamInv, Accepted
  <2>2. CASE Accepted = {}
    BY <2>2, FS_EmptySet
  <2>3. CASE Accepted # {}
    <3>1. PICK d \in Accepted : Accepted = {d}
      BY <2>1, <2>3
    <3>2. Cardinality({d}) = 1
      BY FS_Singleton
    <3> QED BY <3>1, <3>2
  <2> QED BY <2>2, <2>3
<1> QED BY <1>1, StreamAlways, PTL

(* DecisionIsFinal: bytes that arrive later change no verdict of a decoder  *)
(* but Incomplete.                                                          *)
THEOREM VerdictsStand == Spec => DecisionIsFinal
<1> DEFINE Stands == inbox # <<>> /\ Len(inbox') > Len(inbox) =>
             \A d \in Decoders :
               Decode(d, inbox).result # "incomplete" => Decode(d, inbox') = Decode(d, inbox)
<1>1. StreamInv /\ [Next]_vars => [Stands]_vars
  <2> SUFFICES ASSUME StreamInv, Next, Len(inbox') > Len(inbox),
                      NEW d \in Decoders, Decode(d, inbox).result # "incomplete"
               PROVE  Decode(d, inbox') = Decode(d, inbox)
    BY DEF vars
  <2>0. IsList(inbox) /\ Len(inbox) \in Nat
    BY DEF StreamInv, IsList
  <2>1. CASE Arrive
    <3>1. inbox' = Append(inbox, Head(back))
      BY <2>1 DEF Arrive
    <3> QED BY <2>0, <3>1, DecodeFinal
  <2>2. CASE Take
    <3>1. PICK a \in Accepted : inbox' = SubSeq(inbox, Decode(a, inbox).consumed + 1, Len(inbox))
      BY Zenon, <2>2 DEF Take
    <3> DEFINE m == Decode(a, inbox).consumed + 1
               n == Len(inbox)
    <3>2. m \in Nat \ {0}
      BY <2>0, ConsumedNat DEF Accepted
    <3>3. Len(SubSeq(inbox, m, n)) = IF m <= n THEN n - m + 1 ELSE 0
      <4>1. n \in Nat /\ n <= Len(inbox)
        BY <2>0
      <4> HIDE DEF m, n
      <4> QED BY <2>0, <3>2, <4>1, Slice
    <3>4. inbox' = SubSeq(inbox, m, n)
      BY <3>1
    <3> HIDE DEF m
    <3> QED BY <2>0, <3>2, <3>3, <3>4
  <2>3. CASE Drop
    <3>1. inbox # <<>> /\ inbox' = Tail(inbox)
      BY <2>3 DEF Drop
    <3> QED BY <2>0, <3>1, TailList
  <2>4. CASE UNCHANGED inbox
    BY <2>4
  <2> QED BY <2>1, <2>2, <2>3, <2>4
       DEF Next, Begin, EncodeItem, WriterFails, EncodeDone, TerminalObeys, PressKey, readVars
<1> QED BY <1>1, StreamAlways, PTL DEF Spec, DecisionIsFinal

-----------------------------------------------------------------------------
(* What is decoded is of its Rust type.                                     *)

(* A valid quartet stands for octets. *)
LEMMA QuartetOctets ==
  ASSUME NEW q, NEW last, QuartetValid(q, last)
  PROVE  QuartetBytes(q) \in Seq(Octet)
<1> DEFINE v == [i \in 1 .. 4 |-> IF q[i] = "=" THEN 0 ELSE Base64Value[q[i]]]
           n == Word(v[1], v[2], v[3], v[4])
           x == n \div 65536
           y == (n \div 256) % 256
           z == n % 256
           k == IF q[3] = "=" THEN 1 ELSE IF q[4] = "=" THEN 2 ELSE 3
           t == <<x, y, z>>
<1>1. \A i \in 1 .. 4 : v[i] \in 0 .. 63
  <2>1. \A i \in 1 .. 4 : q[i] = "=" \/ q[i] \in DOMAIN Base64Value
    BY DEF QuartetValid
  <2> QED BY <2>1, SixBits
<1>2. v[1] \in 0 .. 63 /\ v[2] \in 0 .. 63 /\ v[3] \in 0 .. 63 /\ v[4] \in 0 .. 63
  <2> HIDE DEF v
  <2> QED BY <1>1
<1>3. x \in Octet /\ y \in Octet /\ z \in Octet
  <2> DEFINE a == v[1]
             b == v[2]
             c == v[3]
             d == v[4]
  <2>1. a \in 0 .. 63 /\ b \in 0 .. 63 /\ c \in 0 .. 63 /\ d \in 0 .. 63
    BY <1>2
  <2> HIDE DEF v, a, b, c, d
  <2> DEFINE m == Word(a, b, c, d)
  <2>2. Three(m)
    BY Zenon, <2>1, ThreeBytes
  <2>3. m = n
    BY DEF a, b, c, d
  <2> HIDE DEF m, n
  <2> QED BY <2>2, <2>3 DEF Three
<1>4. k \in {1, 2, 3}
  OBVIOUS
<1>5. QuartetBytes(q) = SubSeq(t, 1, k)
  BY DEF QuartetBytes, Word
<1> HIDE DEF x, y, z, k
<1>6. t \in Seq(Octet) /\ Len(t) = 3
  BY <1>3
<1> HIDE DEF t
<1>7. SubSeq(t, 1, k) \in Seq(Octet)
  <2>1. \A i \in 1 .. k : t[i] \in Octet
    BY SMTT(40), <1>4, <1>6
  <2>2. k \in Int /\ 1 \in Int
    BY <1>4
  <2> QED BY <1>6, <2>1, <2>2, SubSeqProperties
<1> QED BY <1>5, <1>7

(* A valid payload decodes to octets. *)
LEMMA PayloadOctets ==
  ASSUME NEW s, Len(s) \in Nat, Base64Valid(s)
  PROVE  Base64Decode(s) \in Seq(Octet)
<1> DEFINE c == Chunks(s, 4)
           n == Len(c)
           p == [i \in 1 .. n |-> QuartetBytes(c[i])]
<1>1. n \in Nat
  BY ChunkCount
<1>2. Base64Decode(s) = FlattenSeq(p)
  BY DEF Base64Decode
<1>3. ASSUME NEW i \in 1 .. n PROVE QuartetBytes(c[i]) \in Seq(Octet)
  <2>1. QuartetValid(c[i], i = n)
    BY DEF Base64Valid
  <2> HIDE DEF c, n
  <2> DEFINE last == i = n
  <2>2. QuartetValid(c[i], last)
    BY <2>1
  <2> HIDE DEF last
  <2> QED BY <2>2, QuartetOctets
<1> HIDE DEF n, c
<1>4. p = [i \in 1 .. n |-> p[i]] /\ \A i \in 1 .. n : p[i] \in Seq(Octet)
  BY <1>3
<1> HIDE DEF p
<1> QED BY <1>1, <1>2, <1>4, FlattenTyped

(* What a decoder accepts is an answer. *)
LEMMA ValueTyped ==
  ASSUME NEW s, IsList(s), NEW d \in Decoders, Decode(d, s).result = "ok"
  PROVE  Decode(d, s).value \in Answers
<1> DEFINE c == ParseCsi(s)
           p == c.params
<1>1. p \in Seq(U16)
  BY ParseType, CsiFields
<1>2. \A n \in U16 : n \in Nat /\ (n < 256 => n \in 0 .. 255)
  BY DEF U16, U16Max
<1>0. ASSUME NEW q \in Seq(U16)
      PROVE  /\ q # <<>> => Head(q) \in U16 /\ Tail(q) \in Seq(U16)
             /\ Len(q) = 1 => q[1] \in U16
             /\ Len(q) = 2 => q[1] \in U16 /\ q[2] \in U16
  OBVIOUS
<1>3. CASE d = "da1"
  <2>1. p # <<>> /\ Decode(d, s).value = [kind |-> "da1", id |-> Head(p), capabilities |-> Tail(p)]
    BY Zenon, <1>3, CsiAccepts DEF CsiDecoders
  <2> HIDE DEF p
  <2>2. Head(p) \in U16 /\ Tail(p) \in Seq(U16)
    BY <1>0, <1>1, <2>1
  <2> QED BY <2>1, <2>2 DEF Answers
<1>4. CASE d = "dsr"
  <2>1. Len(p) = 2 /\ Decode(d, s).value = [kind |-> "dsr", row |-> p[1], col |-> p[2]]
    BY Zenon, <1>4, CsiAccepts DEF CsiDecoders
  <2> HIDE DEF p
  <2>2. p[1] \in U16 /\ p[2] \in U16
    BY <1>0, <1>1, <2>1
  <2> QED BY <2>1, <2>2 DEF Answers
<1>5. CASE d = "kitty"
  <2>1. Len(p) = 1 /\ p[1] < 256 /\ Decode(d, s).value = [kind |-> "kitty", flags |-> p[1]]
    BY Zenon, <1>5, CsiAccepts DEF CsiDecoders
  <2> HIDE DEF p
  <2>2. p[1] \in U16
    BY <1>0, <1>1, <2>1
  <2>3. p[1] \in 0 .. 255
    BY <1>2, <2>1, <2>2
  <2> QED BY <2>1, <2>3 DEF Answers
<1>6. CASE d = "decrpm"
  <2>1. Len(p) = 2 /\ Decode(d, s).value = [kind |-> "decrpm", mode |-> p[1], state |-> ModeState(p[2])]
    BY Zenon, <1>6, CsiAccepts DEF CsiDecoders
  <2> HIDE DEF p
  <2>2. p[1] \in U16 /\ p[2] \in U16
    BY <1>0, <1>1, <2>1
  <2>3. \A n \in Nat : ModeState(n) \in ToSet(ModeStates) \cup {"Other"}
    BY DEF ModeState, ModeStates, ToSet
  <2> QED BY <1>2, <2>1, <2>2, <2>3 DEF Answers
<1>7. CASE d = "osc52"
  <2>1. /\ s[6] \in Selections /\ Stop(s) \in Stops(s) /\ Base64Valid(Payload52(s))
        /\ Decode(d, s) = Taken(s)
    BY <1>7, OscDecode, OscAccepts
  <2>2. Decode(d, s).value = [kind |-> "osc52", selection |-> s[6], payload |-> Base64Decode(Payload52(s))]
    BY <2>1 DEF Taken, Ok
  <2>3. Len(Payload52(s)) \in Nat
    <3> DEFINE m == 8
               n == Stop(s) - 1
    <3>1. m \in Nat \ {0} /\ n \in Nat /\ n <= Len(s)
      BY <2>1 DEF Stops, IsList
    <3>2. Len(SubSeq(s, m, n)) \in Nat
      <4> HIDE DEF m, n
      <4> QED BY <3>1, Slice
    <3> QED BY Zenon, <3>2 DEF Payload52
  <2>4. Base64Decode(Payload52(s)) \in Seq(0 .. 255)
    BY <2>1, <2>3, PayloadOctets DEF Octet
  <2> QED BY <2>1, <2>2, <2>4 DEF Answers
<1> QED BY <1>3, <1>4, <1>5, <1>6, <1>7 DEF Decoders

(* TypeOK, inductively: with the streams, and the answers as a sequence. *)
CodecTypes ==
  /\ StreamInv
  /\ result \in {"idle", "writing", "ok", "error", "panic"}
  /\ promised \in Nat /\ wrote \in Nat /\ queries \in Nat
  /\ batches \in 0 .. Len(Batches) /\ noise \in 0 .. MaxNoise
  /\ heard \in Seq(Answers)

(* Writing announces and counts numbers. *)
LEMMA TypesWritten ==
  ASSUME CodecTypes, StreamInv', Begin \/ EncodeItem \/ WriterFails \/ EncodeDone
  PROVE  CodecTypes'
<1>0. /\ todo \in Seq(Item) /\ promised \in Nat /\ wrote \in Nat /\ queries \in Nat
      /\ batches \in 0 .. Len(Batches) /\ noise \in 0 .. MaxNoise /\ heard \in Seq(Answers)
      /\ result \in {"idle", "writing", "ok", "error", "panic"}
  BY DEF CodecTypes, StreamInv
<1>1. Len(Batches) \in Nat
  BY CodecAssumption DEF CodecAssumption
<1>2. ASSUME todo # <<>> PROVE Len(EncodeDyn(Head(todo))) \in Nat
  <2>1. Head(todo) \in Item
    BY <1>0, <1>2
  <2> QED BY <2>1, EncodeSize DEF IsList
<1>3. CASE Begin
  <2>1. promised' \in Nat
    <3>1. PICK batch \in Batches[batches + 1] : todo' = batch /\ promised' = EncodedLenAll(batch)
      BY <1>3 DEF Begin
    <3>2. batch \in Seq(Item)
      BY <3>1 DEF StreamInv
    <3> QED BY <3>1, <3>2, TotalNat
  <2>2. /\ wrote' = 0 /\ result' = "writing" /\ batches' = batches + 1 /\ batches < Len(Batches)
        /\ UNCHANGED <<queries, noise, heard>>
    BY <1>3 DEF Begin, readVars
  <2> QED BY <1>0, <1>1, <2>1, <2>2 DEF CodecTypes
<1>4. CASE EncodeItem
  <2>1. todo # <<>> /\ wrote' = wrote + Len(EncodeDyn(Head(todo)))
        /\ result' \in {"writing", "panic"} /\ queries' \in {queries, queries + 1, queries + 0}
        /\ UNCHANGED <<promised, batches, noise, heard>>
    BY <1>4 DEF EncodeItem, readVars
  <2>2. wrote' \in Nat /\ queries' \in Nat
    BY <1>0, <1>2, <2>1
  <2> QED BY <1>0, <2>1, <2>2 DEF CodecTypes
<1>5. CASE WriterFails
  <2>1. wrote' \in Nat
    <3>1. \E k \in 0 .. (Len(EncodeDyn(Head(todo))) - 1) : wrote' = wrote + k
      BY <1>5 DEF WriterFails
    <3> QED BY <1>0, <3>1
  <2>2. result' = "error" /\ UNCHANGED <<promised, batches, queries, noise, heard>>
    BY <1>5 DEF WriterFails, readVars
  <2> QED BY <1>0, <2>1, <2>2 DEF CodecTypes
<1>6. CASE EncodeDone
  <2>1. result' = "ok" /\ UNCHANGED <<promised, wrote, batches, queries, noise, heard>>
    BY <1>6 DEF EncodeDone, readVars
  <2> QED BY <1>0, <2>1 DEF CodecTypes
<1> QED BY <1>3, <1>4, <1>5, <1>6

(* What is taken from the inbox is an answer. *)
LEMMA TypesRead ==
  ASSUME CodecTypes, StreamInv',
         TerminalObeys \/ (\E bytes \in Noise : PressKey(bytes)) \/ Arrive \/ Take \/ Drop
  PROVE  CodecTypes'
<1>0. /\ promised \in Nat /\ wrote \in Nat /\ queries \in Nat
      /\ batches \in 0 .. Len(Batches) /\ noise \in 0 .. MaxNoise /\ heard \in Seq(Answers)
      /\ result \in {"idle", "writing", "ok", "error", "panic"}
  BY DEF CodecTypes
<1>1. MaxNoise \in Nat
  BY CodecAssumption DEF CodecAssumption
<1>2. UNCHANGED <<result, batches, promised, wrote, queries>>
  BY DEF TerminalObeys, PressKey, Arrive, Take, Drop, writeVars
<1>3. noise' \in 0 .. MaxNoise
  <2>1. noise' = noise \/ (noise < MaxNoise /\ noise' = noise + 1)
    BY DEF TerminalObeys, PressKey, Arrive, Take, Drop
  <2> QED BY <1>0, <1>1, <2>1
<1>4. heard' \in Seq(Answers)
  <2>1. CASE Take
    <3>1. PICK d \in Accepted : heard' = Append(heard, Decode(d, inbox).value)
      BY <2>1 DEF Take
    <3> DEFINE value == Decode(d, inbox).value
    <3>2. value \in Answers
      BY <3>1, ValueTyped DEF Accepted, CodecTypes, StreamInv
    <3> HIDE DEF value
    <3>3. Append(heard, value) \in Seq(Answers)
      BY <1>0, <3>2
    <3> QED BY <3>1, <3>3 DEF value
  <2>2. CASE UNCHANGED heard
    BY <1>0, <2>2
  <2> QED BY <2>1, <2>2 DEF TerminalObeys, PressKey, Arrive, Drop, readVars
<1> QED BY <1>0, <1>2, <1>3, <1>4 DEF CodecTypes

(* TypeOK: every number and name the program decodes is in the range of its *)
(* Rust type, whatever arrived, and the terminal's cursor is on the screen. *)
THEOREM CodecTyped == Spec => []TypeOK
<1>1. Init => CodecTypes
  <2> SUFFICES ASSUME Init PROVE CodecTypes
    OBVIOUS
  <2>1. Len(Batches) \in Nat /\ MaxNoise \in Nat /\ <<>> \in Seq(Answers)
    BY CodecAssumption DEF CodecAssumption
  <2> QED BY <2>1, StreamInit DEF Init, CodecTypes
<1>2. CodecTypes /\ [Next]_vars => CodecTypes'
  <2> SUFFICES ASSUME CodecTypes, [Next]_vars PROVE CodecTypes'
    OBVIOUS
  <2>1. StreamInv'
    BY StreamStep DEF CodecTypes
  <2>2. CASE Next
    BY <2>1, <2>2, TypesWritten, TypesRead DEF Next
  <2>3. CASE UNCHANGED vars
    BY <2>1, <2>3 DEF CodecTypes, vars, writeVars, readVars
  <2> QED BY <2>2, <2>3
<1>3. CodecTypes => TypeOK
  <2> SUFFICES ASSUME CodecTypes PROVE TypeOK
    OBVIOUS
  <2>1. \A i \in 1 .. Len(heard) : heard[i] \in Answers
    BY DEF CodecTypes
  <2>2. ScreenOK(screen) /\ ScreenOK(asked)
    BY DEF CodecTypes, StreamInv
  <2>3. /\ DOMAIN screen = DOMAIN BlankScreen /\ DOMAIN asked = DOMAIN BlankScreen
        /\ screen.at \in (1 .. ScreenSize) \X (1 .. ScreenSize)
        /\ asked.at \in (1 .. ScreenSize) \X (1 .. ScreenSize)
    BY <2>2 DEF ScreenOK, Cells
  <2> QED BY <2>1, <2>3 DEF TypeOK, CodecTypes
<1> QED BY <1>1, <1>2, <1>3, PTL DEF Spec

-----------------------------------------------------------------------------
(* Bytes as a set: what a text is, for the provers.                         *)

(* The bytes, those the modules name among them, and lists of them.         *)
Strings == STRING
Named ==
  {ESC, BEL, "[", "]", "\\", ";", ":", "?", "<", "=", ">", "$", "%", "!", " ", "*", "~", "/",
   "A", "B", "C", "D", "H", "J", "K", "R", "c", "d", "e", "f", "h", "i", "l", "m", "n", "p",
   "u", "y"}
Byte == Strings \cup Digits \cup ToSet(Base64Alphabet) \cup Named
Text == Seq(Byte)

(* Strings are bytes. *)
LEMMA TextOf == ASSUME NEW s, s \in Seq(STRING) PROVE s \in Text
<1>1. s \in Seq(Strings)
  BY Zenon DEF Strings
<1> QED BY <1>1 DEF Text, Byte

(* One more element after two lists. *)
LEMMA FoldNext ==
  ASSUME NEW Val, NEW E, NEW w, ListOf(w, E), NEW u, ListOf(u, E), NEW x, x \in E,
         NEW base, base \in Val, NEW m, m \in Val, NEW step, StepOf(step, Val, E),
         Fold(step, base, w) = Fold(step, m, u)
  PROVE  Fold(step, base, Append(w, x)) = Fold(step, m, Append(u, x))
<1>1. Fold(step, base, Append(w, x)) = step[<<Fold(step, base, w), x>>]
  BY FoldAppend
<1>2. Fold(step, m, Append(u, x)) = step[<<Fold(step, m, u), x>>]
  BY FoldAppend
<1> QED BY <1>1, <1>2

(* A fold over two lists in turn. *)
LEMMA FoldCat ==
  ASSUME NEW Val, NEW E, NEW s, ListOf(s, E), NEW t, ListOf(t, E), NEW base, base \in Val,
         NEW step, StepOf(step, Val, E)
  PROVE  /\ Fold(step, base, s) \in Val
         /\ Fold(step, base, s \o t) = Fold(step, Fold(step, base, s), t)
<1> DEFINE m == Fold(step, base, s)
           Q == {u \in Seq(E) : Fold(step, base, s \o u) = Fold(step, m, u)}
<1>1. m \in Val
  BY FoldTyped
<1>2. <<>> \in Q
  <2>1. s \o <<>> = s /\ <<>> \in Seq(E)
    BY ConcatEmptySeq DEF ListOf
  <2>2. Fold(step, m, <<>>) = m
    BY FoldEmpty
  <2> QED BY <2>1, <2>2
<1>3. ASSUME NEW u, u \in Seq(E), NEW x, x \in E, u \in Q PROVE Append(u, x) \in Q
  <2> DEFINE w == s \o u
  <2>1. /\ ListOf(w, E) /\ ListOf(u, E) /\ Append(u, x) \in Seq(E)
        /\ s \o Append(u, x) = Append(w, x) /\ Fold(step, base, w) = Fold(step, m, u)
    BY <1>3 DEF ListOf
  <2> HIDE DEF w, m, Q
  <2>2. Fold(step, base, Append(w, x)) = Fold(step, m, Append(u, x))
    BY <1>1, <1>3, <2>1, FoldNext
  <2> QED BY Zenon, <2>1, <2>2 DEF Q
<1>4. \A u \in Seq(E), x \in E : u \in Q => Append(u, x) \in Q
  <2> HIDE DEF Q
  <2> QED BY <1>3
<1>5. t \in Q
  <2> HIDE DEF Q
  <2> QED BY <1>2, <1>4, ListsInductive
<1> QED BY <1>1, <1>5

(* A fold over one element. *)
LEMMA FoldOne ==
  ASSUME NEW Val, NEW E, NEW x \in E, NEW base \in Val, NEW step, StepOf(step, Val, E)
  PROVE  Fold(step, base, <<x>>) = step[<<base, x>>] /\ step[<<base, x>>] \in Val
<1> DEFINE none == <<>>
<1>1. <<x>> = Append(none, x) /\ ListOf(none, E)
  BY DEF ListOf
<1>3. Fold(step, base, none) = base
  BY FoldEmpty
<1> HIDE DEF none
<1>2. Fold(step, base, Append(none, x)) = step[<<Fold(step, base, none), x>>]
  BY <1>1, FoldAppend
<1> QED BY Zenon, <1>1, <1>2, <1>3 DEF StepOf

(* n lists of elements of E *)
ListsOf(s, n, E) == s = [i \in 1 .. n |-> s[i]] /\ \A i \in 1 .. n : ListOf(s[i], E)

FlattensOn(s, r, n, E) ==
  FlattenSeq(s) \in Seq(E) /\ FlattenSeq(r) = FlattenSeq(s) \o r[n + 1]

(* The pieces of a flattened list, one more. *)
LEMMA FlattenAppend ==
  ASSUME NEW E, NEW n \in Nat, NEW s, ListsOf(s, n, E), NEW r, ListsOf(r, n + 1, E),
         \A i \in 1 .. n : r[i] = s[i]
  PROVE  FlattensOn(s, r, n, E)
<1>1. s = [i \in 1 .. n |-> s[i]] /\ Len(s) = n
  <2>1. s = [i \in 1 .. n |-> s[i]]
    BY DEF ListsOf
  <2> QED BY <2>1
<1>7. r = [i \in 1 .. n + 1 |-> r[i]] /\ Len(r) = n + 1
  <2>1. r = [i \in 1 .. n + 1 |-> r[i]]
    BY DEF ListsOf
  <2> QED BY <2>1
<1>8. \A i \in 1 .. n : s[i] \in Seq(E)
  BY DEF ListsOf, ListOf
<1>2. FlattenSeq(s) \in Seq(E)
  BY <1>1, <1>8, FlattenTyped
<1>3. PICK g : Flattens(g, r, n + 1) /\ FlattenSeq(r) = g[n + 1]
  <2>1. Len(r) \in Nat \ {0}
    BY <1>7
  <2> QED BY Zenon, <1>7, <2>1, FlattenRule
<1>4. \A i \in 1 .. n + 1 : g[i] = IF i = 1 THEN r[i] ELSE g[i - 1] \o r[i]
  BY Zenon, <1>3 DEF Flattens
<1>5. CASE n = 0
  <2>1. s = <<>> /\ FlattenSeq(s) = <<>>
    BY <1>1, <1>5 DEF FlattenSeq
  <2>2. g[1] = r[1]
    BY <1>4, <1>5
  <2>3. <<>> \o r[n + 1] = r[n + 1]
    <3>1. ListOf(r[n + 1], E)
      BY DEF ListsOf
    <3> QED BY <3>1 DEF ListOf
  <2>4. FlattenSeq(r) = r[n + 1]
    BY <1>3, <1>5, <2>2
  <2>5. FlattenSeq(r) = FlattenSeq(s) \o r[n + 1]
    BY Zenon, <2>1, <2>3, <2>4
  <2> QED BY <1>2, <2>5 DEF FlattensOn
<1>6. CASE n # 0
  <2>1. PICK f : Flattens(f, s, n) /\ FlattenSeq(s) = f[n]
    BY Zenon, <1>1, <1>6, FlattenRule
  <2>2. \A i \in 1 .. n : f[i] = IF i = 1 THEN s[i] ELSE f[i - 1] \o s[i]
    BY Zenon, <2>1 DEF Flattens
  <2> DEFINE Q == {i \in Nat : i \in 1 .. n => f[i] = g[i]}
  <2>3. 0 \in Q
    OBVIOUS
  <2>4. ASSUME NEW i \in Nat, i \in Q PROVE i + 1 \in Q
    <3> SUFFICES ASSUME i + 1 \in 1 .. n PROVE f[i + 1] = g[i + 1]
      OBVIOUS
    <3>1. f[i + 1] = IF i = 0 THEN s[i + 1] ELSE f[i] \o s[i + 1]
      BY <2>2
    <3>2. g[i + 1] = IF i = 0 THEN r[i + 1] ELSE g[i] \o r[i + 1]
      <4> DEFINE k == i + 1
      <4>1. k \in 1 .. n + 1 /\ k - 1 = i /\ (k = 1 <=> i = 0)
        OBVIOUS
      <4> HIDE DEF k
      <4>2. g[k] = IF k = 1 THEN r[k] ELSE g[k - 1] \o r[k]
        BY <1>4, <4>1
      <4> QED BY <4>1, <4>2 DEF k
    <3>3. i # 0 => f[i] = g[i]
      BY <2>4
    <3> QED BY <3>1, <3>2, <3>3
  <2>5. \A i \in Nat : i \in Q
    <3> HIDE DEF Q
    <3> QED BY <2>3, <2>4, NumbersInductive
  <2>6. f[n] = g[n]
    BY <1>6, <2>5
  <2>7. g[n + 1] = g[n] \o r[n + 1]
    <3> DEFINE k == n + 1
    <3>1. k \in 1 .. n + 1 /\ k - 1 = n /\ k # 1
      BY <1>6
    <3> HIDE DEF k
    <3>2. g[k] = IF k = 1 THEN r[k] ELSE g[k - 1] \o r[k]
      BY Zenon, <1>4, <3>1
    <3> QED BY Zenon, <3>1, <3>2 DEF k
  <2> QED BY <1>2, <1>3, <1>6, <2>1, <2>6, <2>7 DEF FlattensOn
<1> QED BY <1>5, <1>6

-----------------------------------------------------------------------------
(* Numerals: what itoa writes is read back as the same number.              *)

NumStep == [q \in Nat \X Digits |-> q[1] * 10 + DigitValue[q[2]]]

(* A digit more makes a number of a number. *)
LEMMA NumStepType == StepOf(NumStep, Nat, Digits)
<1>1. \A n \in Nat, d \in 0 .. 9 : n * 10 + d \in Nat
  OBVIOUS
<1> QED BY <1>1, DigitRange DEF StepOf, NumStep

(* Num, as a fold. *)
LEMMA NumIsFold ==
  ASSUME NEW s, ListOf(s, Digits)
  PROVE  Num(s) = Fold(NumStep, 0, s)
<1> DEFINE step == NumStep
           base == 0
           Val == Nat
           E == Digits
<1>1. base \in Val /\ StepOf(step, Val, E)
  BY NumStepType
<1>2. \E a : FoldedBy(a, Val, step, base, s)
  <2> HIDE DEF step, Val, base, E
  <2>1. ListOf(s, E)
    BY DEF E
  <2> QED BY <1>1, <2>1, FoldRule
<1>3. PICK a : FoldedBy(a, Val, step, base, s)
  BY <1>2
<1>4. Len(s) \in Nat /\ DOMAIN s = 1 .. Len(s) /\ \A i \in DOMAIN s : s[i] \in E
  BY DEF ListOf
<1>5. ASSUME NEW T \in SUBSET DOMAIN s, T # {}
      PROVE  a[T] = a[T \ {Max(T)}] * 10 + DigitValue[s[Max(T)]]
  <2>1. Max(T) \in DOMAIN s
    BY Zenon, <1>4, <1>5, GreatestNumber
  <2>2. a[T] = step[<<a[T \ {Max(T)}], s[Max(T)]>>]
    <3> HIDE DEF step, base, Val
    <3> QED BY Zenon, <1>3, <1>5 DEF FoldedBy, FoldsOver
  <2>3. a[T \ {Max(T)}] \in Val /\ s[Max(T)] \in E
    <3> HIDE DEF step, base, Val, E
    <3> QED BY <1>3, <1>4, <2>1 DEF FoldedBy
  <2> QED BY <2>2, <2>3 DEF NumStep
<1>6. a = [T \in SUBSET DOMAIN s |-> IF T = {} THEN 0 ELSE a[T \ {Max(T)}] * 10 + DigitValue[s[Max(T)]]]
  <2>1. a[{}] = 0 /\ a = [T \in SUBSET DOMAIN s |-> a[T]]
    <3> HIDE DEF step, Val
    <3> QED BY <1>3 DEF FoldedBy, FoldsOver
  <2> HIDE DEF step, Val, base, E
  <2> QED BY Zenon, <1>5, <2>1
<1>7. PICK b : /\ b = [T \in SUBSET DOMAIN s |->
                       IF T = {} THEN 0 ELSE b[T \ {Max(T)}] * 10 + DigitValue[s[Max(T)]]]
               /\ Num(s) = b[DOMAIN s]
  <2> HIDE DEF step, Val, base, E
  <2>1. \E b : b = [T \in SUBSET DOMAIN s |->
                     IF T = {} THEN 0 ELSE b[T \ {Max(T)}] * 10 + DigitValue[s[Max(T)]]]
    BY Zenon, <1>6
  <2> QED BY Zenon, <2>1 DEF Num, FoldLeft, MapThenFoldSet
<1>8. a[{}] = b[{}] /\ AgreeOnLast(s, a, b) /\ IsSeq(s)
  <2> HIDE DEF step, Val, base, E
  <2> QED BY Zenon, <1>4, <1>6, <1>7 DEF AgreeOnLast, IsSeq
<1>9. \A T \in SUBSET DOMAIN s : a[T] = b[T]
  BY <1>8, FoldsAgree
<1> QED BY Zenon, <1>3, <1>7, <1>9 DEF FoldedBy

(* One more digit. *)
LEMMA NumAppend ==
  ASSUME NEW s, ListOf(s, Digits), NEW d, d \in Digits
  PROVE  /\ Num(s) \in Nat /\ Num(<<>>) = 0
         /\ Num(Append(s, d)) = Num(s) * 10 + DigitValue[d]
<1> DEFINE q == Append(s, d)
           none == <<>>
           step == NumStep
           zero == 0
           Val == Nat
<1>1. ListOf(q, Digits) /\ ListOf(none, Digits)
  BY DEF ListOf
<1>2. zero \in Val /\ StepOf(step, Val, Digits)
  BY NumStepType
<1>3. /\ Num(s) = Fold(step, zero, s) /\ Num(q) = Fold(step, zero, q)
      /\ Num(none) = Fold(step, zero, none)
  <2> HIDE DEF q, none
  <2> QED BY <1>1, NumIsFold
<1>4. Fold(step, zero, Append(s, d)) = step[<<Fold(step, zero, s), d>>] /\ Fold(step, zero, s) \in Val
  <2> HIDE DEF step, Val, zero, q
  <2> QED BY <1>2, FoldAppend
<1>5. Fold(step, zero, none) = zero
  BY FoldEmpty
<1> QED BY <1>3, <1>4, <1>5 DEF NumStep

(* One to five digits. *)
LEMMA NumOne ==
  ASSUME NEW a \in Digits
  PROVE  Num(<<a>>) = DigitValue[a]
<1>1. <<a>> = Append(<<>>, a) /\ ListOf(<<>>, Digits)
  BY DEF ListOf
<1>2. Num(<<>>) = 0 /\ Num(Append(<<>>, a)) = Num(<<>>) * 10 + DigitValue[a]
  BY Zenon, <1>1, NumAppend
<1>3. DigitValue[a] \in 0 .. 9
  BY DigitRange
<1> QED BY <1>1, <1>2, <1>3

(* Numerals of two to five digits, in Horner form. *)
LEMMA NumTwo ==
  ASSUME NEW a \in Digits, NEW b \in Digits
  PROVE  Num(<<a, b>>)
           = DigitValue[a] * 10 + DigitValue[b]
<1>1. <<a, b>> = Append(<<a>>, b) /\ ListOf(<<a>>, Digits)
  BY DEF ListOf
<1>2. Num(<<a, b>>) = Num(<<a>>) * 10 + DigitValue[b]
  BY Zenon, <1>1, NumAppend
<1>3. Num(<<a>>) = DigitValue[a]
  BY NumOne
<1> QED BY <1>2, <1>3

(* Three digits. *)
LEMMA NumThree ==
  ASSUME NEW a \in Digits, NEW b \in Digits, NEW c \in Digits
  PROVE  Num(<<a, b, c>>)
           = (DigitValue[a] * 10 + DigitValue[b]) * 10 + DigitValue[c]
<1>1. <<a, b, c>> = Append(<<a, b>>, c) /\ ListOf(<<a, b>>, Digits)
  BY DEF ListOf
<1>2. Num(<<a, b, c>>) = Num(<<a, b>>) * 10 + DigitValue[c]
  BY Zenon, <1>1, NumAppend
<1>3. Num(<<a, b>>) = DigitValue[a] * 10 + DigitValue[b]
  BY NumTwo
<1> QED BY <1>2, <1>3

(* Four digits. *)
LEMMA NumFour ==
  ASSUME NEW a \in Digits, NEW b \in Digits, NEW c \in Digits, NEW d \in Digits
  PROVE  Num(<<a, b, c, d>>)
           = ((DigitValue[a] * 10 + DigitValue[b]) * 10 + DigitValue[c]) * 10 + DigitValue[d]
<1>1. <<a, b, c, d>> = Append(<<a, b, c>>, d) /\ ListOf(<<a, b, c>>, Digits)
  BY DEF ListOf
<1>2. Num(<<a, b, c, d>>) = Num(<<a, b, c>>) * 10 + DigitValue[d]
  BY Zenon, <1>1, NumAppend
<1>3. Num(<<a, b, c>>) = (DigitValue[a] * 10 + DigitValue[b]) * 10 + DigitValue[c]
  BY NumThree
<1> QED BY <1>2, <1>3

(* Five digits. *)
LEMMA NumFive ==
  ASSUME NEW a \in Digits, NEW b \in Digits, NEW c \in Digits, NEW d \in Digits, NEW e \in Digits
  PROVE  Num(<<a, b, c, d, e>>)
           = (((DigitValue[a] * 10 + DigitValue[b]) * 10 + DigitValue[c]) * 10 + DigitValue[d]) * 10 + DigitValue[e]
<1>1. <<a, b, c, d, e>> = Append(<<a, b, c, d>>, e) /\ ListOf(<<a, b, c, d>>, Digits)
  BY DEF ListOf
<1>2. Num(<<a, b, c, d, e>>) = Num(<<a, b, c, d>>) * 10 + DigitValue[e]
  BY Zenon, <1>1, NumAppend
<1>3. Num(<<a, b, c, d>>) = ((DigitValue[a] * 10 + DigitValue[b]) * 10 + DigitValue[c]) * 10 + DigitValue[d]
  BY NumFour
<1> QED BY <1>2, <1>3

(* The digit of a number below ten. *)
Digit(k) == DigitBytes[(k % 10) + 1]

(* The last digit of a number is a digit, and stands for it mod ten. *)
LEMMA DigitOf ==
  ASSUME NEW k \in Nat
  PROVE  Digit(k) \in Digits /\ DigitValue[Digit(k)] = k % 10
<1>1. k % 10 \in 0 .. 9
  OBVIOUS
<1>2. ASSUME NEW j \in 0 .. 9
      PROVE  DigitBytes[j + 1] \in Digits /\ DigitValue[DigitBytes[j + 1]] = j
  <2> DEFINE x == DigitBytes[j + 1]
             m == j + 1
  <2>1. \A i \in 1 .. 10 : DigitBytes[i] \in Digits
    <3>1. DOMAIN DigitBytes = 1 .. 10
      BY DEF DigitBytes
    <3> QED BY <3>1 DEF Digits, ToSet
  <2>2. \A i \in 1 .. 10 : DigitBytes[i] = x => i = m
    BY DEF DigitBytes
  <2>3. m \in 1 .. 10 /\ m - 1 = j /\ x = DigitBytes[m]
    OBVIOUS
  <2> HIDE DEF x, m
  <2>4. x \in Digits /\ (CHOOSE i \in 1 .. 10 : DigitBytes[i] = x) = m
    BY <2>1, <2>2, <2>3
  <2>5. DigitValue[x] = (CHOOSE i \in 1 .. 10 : DigitBytes[i] = x) - 1
    BY <2>4 DEF DigitValue
  <2> QED BY Zenon, <2>3, <2>4, <2>5 DEF x
<1> QED BY <1>1, <1>2 DEF Digit

(* The digits of a number, most significant first. *)
LEMMA ItoaDigits ==
  ASSUME NEW n \in FiveDigits
  PROVE  /\ DecLen(n) = 1 => Itoa(n) = <<Digit(n)>> /\ n < 10
         /\ DecLen(n) = 2 => Itoa(n) = <<Digit(n \div 10), Digit(n)>> /\ n < 100
         /\ DecLen(n) = 3 =>
              Itoa(n) = <<Digit(n \div 100), Digit(n \div 10), Digit(n)>> /\ n < 1000
         /\ DecLen(n) = 4 =>
              /\ Itoa(n) = <<Digit(n \div 1000), Digit(n \div 100), Digit(n \div 10), Digit(n)>>
              /\ n < 10000
         /\ DecLen(n) = 5 =>
              Itoa(n) = <<Digit(n \div 10000), Digit(n \div 1000), Digit(n \div 100),
                          Digit(n \div 10), Digit(n)>>
         /\ DecLen(n) \in 1 .. 5
<1>1. 10 ^ 0 = 1 /\ 10 ^ 1 = 10 /\ 10 ^ 2 = 100 /\ 10 ^ 3 = 1000 /\ 10 ^ 4 = 10000
  OBVIOUS
<1>2. n \div 1 = n /\ n \in Nat
  BY DEF FiveDigits
<1> DEFINE p(k) == 10 ^ k
<1>3. \A k \in 1 .. 5 : DecLen(n) = k => Itoa(n) = [i \in 1 .. k |-> Digit(n \div p(k - i))]
  BY DEF Itoa, Digit
<1>4. p(0) = 1 /\ p(1) = 10 /\ p(2) = 100 /\ p(3) = 1000 /\ p(4) = 10000
  BY <1>1
<1> HIDE DEF p
<1>5. DecLen(n) = 1 => Itoa(n) = <<Digit(n)>>
  BY <1>2, <1>3, <1>4
<1>6. DecLen(n) = 2 => Itoa(n) = <<Digit(n \div 10), Digit(n)>>
  BY <1>2, <1>3, <1>4
<1>7. DecLen(n) = 3 => Itoa(n) = <<Digit(n \div 100), Digit(n \div 10), Digit(n)>>
  BY <1>2, <1>3, <1>4
<1>8. DecLen(n) = 4 =>
        Itoa(n) = <<Digit(n \div 1000), Digit(n \div 100), Digit(n \div 10), Digit(n)>>
  BY <1>2, <1>3, <1>4
<1>9. DecLen(n) = 5 =>
        Itoa(n) = <<Digit(n \div 10000), Digit(n \div 1000), Digit(n \div 100),
                    Digit(n \div 10), Digit(n)>>
  BY <1>2, <1>3, <1>4
<1>10. /\ DecLen(n) = 1 => n < 10
       /\ DecLen(n) = 2 => n < 100
       /\ DecLen(n) = 3 => n < 1000
       /\ DecLen(n) = 4 => n < 10000
       /\ DecLen(n) \in 1 .. 5
  BY <1>2 DEF DecLen
<1> QED BY <1>5, <1>6, <1>7, <1>8, <1>9, <1>10

(* A number is its last digit and what is before it. *)
LEMMA DivTen ==
  ASSUME NEW n \in Nat
  PROVE  n = (n \div 10) * 10 + (n % 10) /\ n % 10 \in 0 .. 9 /\ n \div 10 \in Nat
OBVIOUS

(* Dividing by ten once more. *)
LEMMA DivAgain ==
  ASSUME NEW n \in Nat
  PROVE  /\ (n \div 10) \div 10 = n \div 100
         /\ (n \div 100) \div 10 = n \div 1000
         /\ (n \div 1000) \div 10 = n \div 10000
OBVIOUS

(* itoa3 and itoa5, read back. *)
LEMMA NumItoa ==
  ASSUME NEW n \in FiveDigits
  PROVE  /\ ListOf(Itoa(n), Digits) /\ Itoa(n) # <<>>
         /\ Num(Itoa(n)) = n
<1> DEFINE a == n \div 10000
           b == n \div 1000
           c == n \div 100
           d == n \div 10
<1>1. n \in Nat /\ n <= 99999
  BY DEF FiveDigits
<1>2. a \in Nat /\ b \in Nat /\ c \in Nat /\ d \in Nat /\ a <= 9
  BY <1>1
<1>3. d \div 10 = c /\ c \div 10 = b /\ b \div 10 = a
  BY <1>1, DivAgain
<1>4. /\ n < 10 => d = 0
      /\ n < 100 => c = 0
      /\ n < 1000 => b = 0
      /\ n < 10000 => a = 0
  BY <1>1
<1>5. n = d * 10 + (n % 10) /\ n % 10 \in 0 .. 9
  BY <1>1, DivTen
<1>6. /\ d = c * 10 + (d % 10) /\ d % 10 \in 0 .. 9
      /\ c = b * 10 + (c % 10) /\ c % 10 \in 0 .. 9
      /\ b = a * 10 + (b % 10) /\ b % 10 \in 0 .. 9
  <2> HIDE DEF a, b, c, d
  <2> QED BY <1>2, <1>3, DivTen
<1>9. a % 10 = a
  <2> HIDE DEF a
  <2> QED BY <1>2
<1>7. /\ Digit(n) \in Digits /\ DigitValue[Digit(n)] = n % 10
      /\ Digit(d) \in Digits /\ DigitValue[Digit(d)] = d % 10
      /\ Digit(c) \in Digits /\ DigitValue[Digit(c)] = c % 10
      /\ Digit(b) \in Digits /\ DigitValue[Digit(b)] = b % 10
      /\ Digit(a) \in Digits /\ DigitValue[Digit(a)] = a % 10
  <2> HIDE DEF a, b, c, d
  <2> QED BY <1>1, <1>2, DigitOf
<1>8. /\ DecLen(n) = 1 => Itoa(n) = <<Digit(n)>> /\ n < 10
      /\ DecLen(n) = 2 => Itoa(n) = <<Digit(d), Digit(n)>> /\ n < 100
      /\ DecLen(n) = 3 => Itoa(n) = <<Digit(c), Digit(d), Digit(n)>> /\ n < 1000
      /\ DecLen(n) = 4 => Itoa(n) = <<Digit(b), Digit(c), Digit(d), Digit(n)>> /\ n < 10000
      /\ DecLen(n) = 5 => Itoa(n) = <<Digit(a), Digit(b), Digit(c), Digit(d), Digit(n)>>
      /\ DecLen(n) \in 1 .. 5
  BY ItoaDigits
<1> HIDE DEF a, b, c, d
<1> DEFINE u == Digit(n)
           v == Digit(d)
           w == Digit(c)
           x == Digit(b)
           y == Digit(a)
<1> USE DEF ListOf
<1>10. /\ u \in Digits /\ v \in Digits /\ w \in Digits /\ x \in Digits /\ y \in Digits
       /\ DigitValue[u] = n % 10 /\ DigitValue[v] = d % 10 /\ DigitValue[w] = c % 10
       /\ DigitValue[x] = b % 10 /\ DigitValue[y] = a % 10
  BY <1>7
<1>11. /\ DecLen(n) = 1 => Itoa(n) = <<u>>
       /\ DecLen(n) = 2 => Itoa(n) = <<v, u>>
       /\ DecLen(n) = 3 => Itoa(n) = <<w, v, u>>
       /\ DecLen(n) = 4 => Itoa(n) = <<x, w, v, u>>
       /\ DecLen(n) = 5 => Itoa(n) = <<y, x, w, v, u>>
  BY <1>8
<1> HIDE DEF u, v, w, x, y
<1>12. /\ Num(<<u>>) = n % 10
       /\ Num(<<v, u>>) = (d % 10) * 10 + (n % 10)
       /\ Num(<<w, v, u>>) = ((c % 10) * 10 + (d % 10)) * 10 + (n % 10)
       /\ Num(<<x, w, v, u>>) = (((b % 10) * 10 + (c % 10)) * 10 + (d % 10)) * 10 + (n % 10)
       /\ Num(<<y, x, w, v, u>>)
            = ((((a % 10) * 10 + (b % 10)) * 10 + (c % 10)) * 10 + (d % 10)) * 10 + (n % 10)
  <2>1. Num(<<u>>) = DigitValue[u]
    BY <1>10, NumOne
  <2>2. Num(<<v, u>>) = DigitValue[v] * 10 + DigitValue[u]
    BY <1>10, NumTwo
  <2>3. Num(<<w, v, u>>) = (DigitValue[w] * 10 + DigitValue[v]) * 10 + DigitValue[u]
    BY <1>10, NumThree
  <2>4. Num(<<x, w, v, u>>)
          = ((DigitValue[x] * 10 + DigitValue[w]) * 10 + DigitValue[v]) * 10 + DigitValue[u]
    BY <1>10, NumFour
  <2>5. Num(<<y, x, w, v, u>>)
          = (((DigitValue[y] * 10 + DigitValue[x]) * 10 + DigitValue[w]) * 10 + DigitValue[v])
              * 10 + DigitValue[u]
    BY <1>10, NumFive
  <2> QED BY <1>10, <2>1, <2>2, <2>3, <2>4, <2>5
<1>13. /\ n < 10 => n % 10 = n
       /\ n < 100 => d % 10 = d
       /\ n < 1000 => c % 10 = c
       /\ n < 10000 => b % 10 = b
  BY <1>1, <1>2, <1>4, <1>5, <1>6
<1>16. DecLen(n) \in {1, 2, 3, 4, 5}
  BY <1>8
<1>14. Num(Itoa(n)) = n
  <2>1. CASE DecLen(n) = 1
    BY <1>8, <1>11, <1>12, <1>13, <2>1
  <2>2. CASE DecLen(n) = 2
    BY <1>2, <1>5, <1>8, <1>11, <1>12, <1>13, <2>2
  <2>3. CASE DecLen(n) = 3
    BY <1>2, <1>5, <1>6, <1>8, <1>11, <1>12, <1>13, <2>3
  <2>4. CASE DecLen(n) = 4
    BY <1>2, <1>5, <1>6, <1>8, <1>11, <1>12, <1>13, <2>4
  <2>5. CASE DecLen(n) = 5
    BY <1>2, <1>5, <1>6, <1>9, <1>11, <1>12, <2>5
  <2> QED BY <1>16, <2>1, <2>2, <2>3, <2>4, <2>5
<1>15. Itoa(n) \in Seq(Digits) /\ Itoa(n) # <<>>
  <2>1. /\ <<u>> \in Seq(Digits) /\ <<v, u>> \in Seq(Digits) /\ <<w, v, u>> \in Seq(Digits)
        /\ <<x, w, v, u>> \in Seq(Digits) /\ <<y, x, w, v, u>> \in Seq(Digits)
    BY <1>10
  <2>2. /\ <<u>> # <<>> /\ <<v, u>> # <<>> /\ <<w, v, u>> # <<>>
        /\ <<x, w, v, u>> # <<>> /\ <<y, x, w, v, u>> # <<>>
    OBVIOUS
  <2> QED BY Zenon, <1>11, <1>16, <2>1, <2>2
<1> QED BY <1>14, <1>15

-----------------------------------------------------------------------------
(* parse_csi, reading what a terminal writes.                               *)

(* Two texts end to end, byte by byte. *)
LEMMA Cat ==
  ASSUME NEW s, s \in Text, NEW t, t \in Text
  PROVE  /\ s \o t \in Text /\ Len(s \o t) = Len(s) + Len(t)
         /\ Len(s) \in Nat /\ Len(t) \in Nat
         /\ \A i \in 1 .. Len(s) : (s \o t)[i] = s[i]
         /\ \A i \in 1 .. Len(t) : (s \o t)[Len(s) + i] = t[i]
BY DEF Text

(* A scan goes on where it stopped. *)
LEMMA ScanCat ==
  ASSUME NEW start \in CsiState, NEW s, s \in Text, NEW t, t \in Text
  PROVE  CsiScan(start, s \o t) = CsiScan(CsiScan(start, s), t) /\ CsiScan(start, s) \in CsiState
<1> DEFINE step == CsiStep(Byte)
           q == s \o t
           m == Fold(step, start, s)
<1>1. ListOf(s, Byte) /\ ListOf(t, Byte) /\ ListOf(q, Byte)
  BY Cat DEF Text, ListOf
<1>2. StepOf(step, CsiState, Byte)
  BY CsiStepType
<1>3. m \in CsiState /\ Fold(step, start, s \o t) = Fold(step, m, t)
  <2> HIDE DEF step
  <2> QED BY <1>1, <1>2, FoldCat
<1>4. CsiScan(start, q) = Fold(step, start, q)
  <2> HIDE DEF q
  <2> QED BY <1>1, ScanIsFold
<1>5. CsiScan(start, s) = m
  BY <1>1, ScanIsFold
<1> HIDE DEF step, m
<1>6. CsiScan(m, t) = Fold(step, m, t)
  <2>1. CsiScan(m, t) = Fold(CsiStep(Byte), m, t)
    BY <1>1, <1>3, ScanIsFold
  <2> QED BY <2>1 DEF step
<1> QED BY <1>3, <1>4, <1>5, <1>6

(* A scan of no byte, and of one. *)
LEMMA ScanOne ==
  ASSUME NEW start \in CsiState, NEW x \in Byte
  PROVE  CsiScan(start, <<>>) = start /\ CsiScan(start, <<x>>) = CsiByte(start, x)
<1> DEFINE none == <<>>
<1>1. ListOf(none, Byte) /\ <<x>> = Append(none, x)
  BY DEF ListOf
<1> HIDE DEF none
<1>2. CsiScan(start, <<>>) = start /\ CsiScan(start, Append(none, x)) = CsiByte(CsiScan(start, none), x)
  BY <1>1, ScanFacts
<1> QED BY <1>1, <1>2 DEF none

(* A scan that has stopped stays. *)
LEMMA ScanStays ==
  ASSUME NEW start \in CsiState, start.at # "body", NEW t, t \in Text
  PROVE  CsiScan(start, t) = start
<1> DEFINE Q == {u \in Seq(Byte) : CsiScan(start, u) = start}
<1>1. <<>> \in Q
  <2>1. ListOf(<<>>, Byte) /\ ESC \in Byte
    BY DEF ListOf, Byte, Named, ESC
  <2> QED BY <2>1, ScanFacts
<1>2. ASSUME NEW u \in Seq(Byte), NEW x \in Byte, u \in Q PROVE Append(u, x) \in Q
  <2>1. ListOf(u, Byte)
    BY DEF ListOf
  <2>2. CsiScan(start, Append(u, x)) = CsiByte(CsiScan(start, u), x)
    BY <2>1, ScanFacts
  <2>3. CsiScan(start, u) = start
    BY <1>2
  <2>4. CsiByte(start, x) = start
    BY Zenon DEF CsiByte
  <2> QED BY <2>2, <2>3, <2>4
<1>3. \A u \in Seq(Byte), x \in Byte : u \in Q => Append(u, x) \in Q
  <2> HIDE DEF Q
  <2> QED BY <1>2
<1>4. t \in Q
  <2>1. ListOf(t, Byte)
    BY DEF Text, ListOf
  <2> HIDE DEF Q
  <2> QED BY <1>1, <1>3, <2>1, ListsInductive
<1> QED BY <1>4

(* Whether the parameters are marked private, and whether a digit of the    *)
(* next one has been read.                                                  *)
Marked(p) == p = "private"
Some(h) == h = "digits"

Scanning(p, ps, n, h, i, k) ==
  [at |-> "body", private |-> Marked(p), params |-> ps, current |-> n, haveDigit |-> Some(h),
   intermediate |-> i, final |-> "none", consumed |-> k]

(* With no digit of the next parameter read, and with some. *)
Fresh(p, ps, i, k) == Scanning(p, ps, 0, "none", i, k)
Amid(p, ps, n, i, k) == Scanning(p, ps, n, "digits", i, k)

Scanned(p, ps, i, b, k) ==
  [at |-> "done", private |-> Marked(p), params |-> ps, current |-> 0, haveDigit |-> FALSE,
   intermediate |-> i, final |-> b, consumed |-> k]

MayScan(p, ps, n, i, k) ==
  /\ ps \in Seq(U16) /\ n \in Between
  /\ i \in Intermediates \cup {"none"} /\ k \in Nat

(* What a state in mid-sequence is made of. *)
LEMMA MayScanParts ==
  ASSUME NEW p, NEW ps, NEW n, NEW i, NEW k, MayScan(p, ps, n, i, k)
  PROVE  /\ n \in Nat /\ n \in Between /\ k \in Nat /\ ListOf(ps, U16)
         /\ Clamp(n) \in U16 /\ ListOf(Append(ps, Clamp(n)), U16)
<1>1. n \in Between /\ k \in Nat /\ ps \in Seq(U16)
  BY DEF MayScan
<1>2. n \in Nat /\ Clamp(n) \in U16
  BY <1>1, NumberRange
<1>3. Append(ps, Clamp(n)) \in Seq(U16)
  BY <1>1, <1>2
<1> QED BY <1>1, <1>2, <1>3 DEF ListOf

(* It stays one when a parameter ends, or is read. *)
LEMMA MayScanOn ==
  ASSUME NEW p, NEW ps, NEW n, NEW i, NEW k, MayScan(p, ps, n, i, k)
  PROVE  /\ MayScan(p, ps, 0, i, k + 1)
         /\ MayScan(p, Append(ps, Clamp(n)), 0, i, k + 1)
         /\ MayScan(p, Append(ps, Clamp(n)), 0, "$", k + 1)
         /\ \A m \in Between, l \in Nat : MayScan(p, ps, m, i, l)
<1>1. n \in Between /\ k + 1 \in Nat /\ ps \in Seq(U16) /\ i \in Intermediates \cup {"none"}
  BY DEF MayScan
<1>2. Append(ps, Clamp(n)) \in Seq(U16)
  BY MayScanParts DEF ListOf
<1>3. 0 \in Between
  BY NumberRange
<1>4. "$" \in Intermediates
  BY DEF Intermediates
<1> HIDE DEF MayScan
<1>5. MayScan(p, ps, 0, i, k + 1)
  BY <1>1, <1>3 DEF MayScan
<1>6. MayScan(p, Append(ps, Clamp(n)), 0, i, k + 1)
  BY <1>1, <1>2, <1>3 DEF MayScan
<1>7. MayScan(p, Append(ps, Clamp(n)), 0, "$", k + 1)
  BY <1>1, <1>2, <1>3, <1>4 DEF MayScan
<1>8. \A m \in Between, l \in Nat : MayScan(p, ps, m, i, l)
  BY <1>1 DEF MayScan
<1> QED BY <1>5, <1>6, <1>7, <1>8

(* States of the scan, by their fields. *)
LEMMA SameState ==
  ASSUME NEW s \in CsiState, NEW t \in CsiState, s.at = t.at, s.private = t.private,
         s.params = t.params, s.current = t.current, s.haveDigit = t.haveDigit,
         s.intermediate = t.intermediate, s.final = t.final, s.consumed = t.consumed
  PROVE  s = t
BY DEF CsiState

(* The states of the parser in and after a sequence. *)
LEMMA ScanningType ==
  ASSUME NEW p, NEW ps, NEW n, NEW i, NEW k, MayScan(p, ps, n, i, k), NEW h
  PROVE  /\ Scanning(p, ps, n, h, i, k) \in CsiState
         /\ \A b \in Finals : Scanned(p, ps, i, b, k) \in CsiState
BY NumberRange DEF MayScan, Scanning, Scanned, CsiState, Marked, Some

(* One more byte is consumed: the other fields stay. *)
LEMMA ReadFields ==
  ASSUME NEW s \in CsiState, NEW r, r = [s EXCEPT !.consumed = @ + 1]
  PROVE  /\ r \in CsiState /\ r.at = s.at /\ r.private = s.private /\ r.params = s.params
         /\ r.current = s.current /\ r.haveDigit = s.haveDigit
         /\ r.intermediate = s.intermediate /\ r.final = s.final /\ r.consumed = s.consumed + 1
BY DEF CsiState

(* A parameter is pushed: the other fields stay. *)
LEMMA PushFields ==
  ASSUME NEW s \in CsiState, NEW r, r = Push(s)
  PROVE  /\ r \in CsiState /\ r.at = s.at /\ r.private = s.private
         /\ r.params = Append(s.params, Clamp(s.current))
         /\ r.current = 0 /\ r.haveDigit = FALSE
         /\ r.intermediate = s.intermediate /\ r.final = s.final /\ r.consumed = s.consumed
<1>1. r \in CsiState
  BY PushType
<1>2. r = [s EXCEPT !.params = Append(@, Clamp(s.current)), !.current = 0, !.haveDigit = FALSE]
  BY DEF Push
<1> QED BY <1>1, <1>2 DEF CsiState

(* The next byte, by its class. *)
LEMMA ScanDigit ==
  ASSUME NEW p, NEW ps, NEW n, NEW i, NEW k, MayScan(p, ps, n, i, k), NEW h,
         NEW d \in Digits
  PROVE  CsiByte(Scanning(p, ps, n, h, i, k), d)
           = Scanning(p, ps, Saturated(n * 10 + DigitValue[d]), "digits", i, k + 1)
<1> DEFINE s == Scanning(p, ps, n, h, i, k)
           read == [s EXCEPT !.consumed = @ + 1]
           m == Saturated(n * 10 + DigitValue[d])
           now == CsiByte(s, d)
           then == Scanning(p, ps, m, "digits", i, k + 1)
<1>1. s \in CsiState /\ m \in Between
  <2>1. n \in Nat /\ DigitValue[d] \in Nat
    <3>1. n \in Nat
      BY MayScanParts
    <3>2. DigitValue[d] \in 0 .. 9
      BY DigitRange
    <3> QED BY <3>1, <3>2
  <2>2. n * 10 + DigitValue[d] \in Nat
    BY <2>1
  <2> QED BY <2>2, ScanningType, NumberRange
<1>2. then \in CsiState
  <2>1. MayScan(p, ps, m, i, k + 1)
    BY <1>1 DEF MayScan
  <2> HIDE DEF m
  <2> QED BY <2>1, ScanningType
<1>3. /\ s.at = "body" /\ s.private = Marked(p) /\ s.params = ps /\ s.current = n
      /\ s.intermediate = i /\ s.final = "none" /\ s.consumed = k
  BY DEF Scanning, Some
<1>4. /\ then.at = "body" /\ then.private = Marked(p) /\ then.params = ps /\ then.current = m
      /\ then.haveDigit = TRUE
      /\ then.intermediate = i /\ then.final = "none" /\ then.consumed = k + 1
  BY Zenon DEF Scanning, Some
<1> HIDE DEF s, then
<1>5. /\ read \in CsiState /\ read.at = "body" /\ read.private = Marked(p) /\ read.params = ps
      /\ read.current = n /\ read.intermediate = i /\ read.final = "none"
      /\ read.consumed = k + 1
  BY <1>1, <1>3, ReadFields
<1>6. now = [read EXCEPT !.haveDigit = TRUE, !.current = Saturated(@ * 10 + DigitValue[d])]
  BY Zenon, <1>3, ByteClasses DEF CsiByte
<1> HIDE DEF read
<1>7. now = [read EXCEPT !.haveDigit = TRUE, !.current = m]
  BY <1>5, <1>6
<1> HIDE DEF now, m
<1>8. /\ now \in CsiState /\ now.at = "body" /\ now.private = Marked(p) /\ now.params = ps
      /\ now.current = m /\ now.haveDigit = TRUE /\ now.intermediate = i
      /\ now.final = "none" /\ now.consumed = k + 1
  BY Zenon, <1>1, <1>5, <1>7 DEF CsiState
<1>9. now = then
  BY Zenon, <1>2, <1>4, <1>8, SameState
<1> QED BY <1>9 DEF now, then, s, m

(* ";" ends a parameter. *)
LEMMA ScanSemicolon ==
  ASSUME NEW p, NEW ps, NEW n, NEW i, NEW k, MayScan(p, ps, n, i, k), Len(ps) < MaxParams
  PROVE  /\ CsiByte(Scanning(p, ps, n, "digits", i, k), ";")
              = Scanning(p, Append(ps, Clamp(n)), 0, "none", i, k + 1)
         /\ MayScan(p, Append(ps, Clamp(n)), 0, i, k + 1)
<1> DEFINE s == Scanning(p, ps, n, "digits", i, k)
           read == [s EXCEPT !.consumed = @ + 1]
           more == Append(ps, Clamp(n))
           now == CsiByte(s, ";")
           then == Scanning(p, more, 0, "none", i, k + 1)
<1>1. s \in CsiState /\ MayScan(p, more, 0, i, k + 1)
  BY ScanningType, MayScanOn
<1> HIDE DEF more
<1>2. then \in CsiState
  BY <1>1, ScanningType
<1>3. /\ s.at = "body" /\ s.private = Marked(p) /\ s.params = ps /\ s.current = n
      /\ s.intermediate = i /\ s.final = "none" /\ s.consumed = k
  BY DEF Scanning, Some
<1>4. /\ then.at = "body" /\ then.private = Marked(p) /\ then.params = more /\ then.current = 0
      /\ then.haveDigit = FALSE
      /\ then.intermediate = i /\ then.final = "none" /\ then.consumed = k + 1
  BY Zenon DEF Scanning, Some
<1> HIDE DEF s, then
<1>5. /\ read \in CsiState /\ read.at = "body" /\ read.private = Marked(p) /\ read.params = ps
      /\ read.current = n /\ read.intermediate = i /\ read.final = "none"
      /\ read.consumed = k + 1
  BY <1>1, <1>3, ReadFields
<1>6. now = Push(read)
  <2>1. ~(Len(ps) >= MaxParams)
    BY DecodeAssumption DEF MayScan, DecodeAssumption
  <2> QED BY Zenon, <1>3, <2>1, ByteClasses DEF CsiByte
<1> HIDE DEF read, now
<1>8. /\ now \in CsiState /\ now.at = "body" /\ now.private = Marked(p) /\ now.params = more
      /\ now.current = 0 /\ now.haveDigit = FALSE /\ now.intermediate = i
      /\ now.final = "none" /\ now.consumed = k + 1
  BY Zenon, <1>5, <1>6, PushFields DEF more
<1>9. now = then
  BY Zenon, <1>2, <1>4, <1>8, SameState
<1> QED BY Zenon, <1>1, <1>9 DEF now, then, s, more

(* "$" ends a parameter and is an intermediate. *)
LEMMA ScanDollar ==
  ASSUME NEW p, NEW ps, NEW n, NEW k, MayScan(p, ps, n, "none", k), Len(ps) < MaxParams
  PROVE  /\ CsiByte(Scanning(p, ps, n, "digits", "none", k), "$")
              = Scanning(p, Append(ps, Clamp(n)), 0, "none", "$", k + 1)
         /\ MayScan(p, Append(ps, Clamp(n)), 0, "$", k + 1)
<1> DEFINE s == Scanning(p, ps, n, "digits", "none", k)
           read == [s EXCEPT !.consumed = @ + 1]
           more == Append(ps, Clamp(n))
           now == CsiByte(s, "$")
           then == Scanning(p, more, 0, "none", "$", k + 1)
<1>0. "$" \in Intermediates /\ "$" \notin Digits /\ "$" # ";"
  BY Zenon, ByteClasses DEF Intermediates
<1>1. s \in CsiState /\ MayScan(p, more, 0, "$", k + 1)
  BY <1>0, ScanningType, MayScanOn
<1> HIDE DEF more
<1>2. then \in CsiState
  BY <1>1, ScanningType
<1>3. /\ s.at = "body" /\ s.private = Marked(p) /\ s.params = ps /\ s.current = n /\ s.haveDigit = TRUE
      /\ s.intermediate = "none" /\ s.final = "none" /\ s.consumed = k
  BY Zenon DEF Scanning, Some
<1>4. /\ then.at = "body" /\ then.private = Marked(p) /\ then.params = more /\ then.current = 0
      /\ then.haveDigit = FALSE
      /\ then.intermediate = "$" /\ then.final = "none" /\ then.consumed = k + 1
  BY Zenon DEF Scanning, Some
<1> HIDE DEF s, then
<1>5. /\ read \in CsiState /\ read.at = "body" /\ read.private = Marked(p) /\ read.params = ps
      /\ read.current = n /\ read.intermediate = "none" /\ read.final = "none"
      /\ read.consumed = k + 1
  BY <1>1, <1>3, ReadFields
<1>6. now = [Push(read) EXCEPT !.intermediate = "$"]
  <2>1. ~(Len(ps) >= MaxParams)
    BY DecodeAssumption DEF MayScan, DecodeAssumption
  <2>2. /\ s.at = "body" /\ "$" \notin Digits /\ "$" # ";" /\ "$" \in Intermediates
        /\ ~(s.intermediate # "none" \/ (s.haveDigit /\ Len(s.params) >= MaxParams))
        /\ s.haveDigit /\ "$" \notin Finals
    BY Zenon, <1>0, <1>3, <2>1, ByteClasses
  <2> QED BY <2>2, Zenon DEF CsiByte
<1> HIDE DEF read, now
<1> DEFINE pushed == Push(read)
<1>7. /\ pushed \in CsiState /\ pushed.at = "body" /\ pushed.private = Marked(p) /\ pushed.params = more
      /\ pushed.current = 0 /\ pushed.haveDigit = FALSE
      /\ pushed.final = "none" /\ pushed.consumed = k + 1
  BY Zenon, <1>5, PushFields DEF more
<1>8. now = [pushed EXCEPT !.intermediate = "$"]
  BY <1>6
<1> HIDE DEF pushed
<1>10. /\ now \in CsiState /\ now.at = "body" /\ now.private = Marked(p) /\ now.params = more
       /\ now.current = 0 /\ now.haveDigit = FALSE /\ now.intermediate = "$"
       /\ now.final = "none" /\ now.consumed = k + 1
  BY <1>0, <1>7, <1>8 DEF CsiState
<1>9. now = then
  BY Zenon, <1>2, <1>4, <1>10, SameState
<1> QED BY <1>1, <1>9 DEF now, then, s, more

(* A final byte, after a number and after an intermediate byte. *)
LEMMA ScanFinal ==
  ASSUME NEW p, NEW ps, NEW n, NEW k, MayScan(p, ps, n, "none", k), Len(ps) < MaxParams,
         NEW b \in Finals
  PROVE  /\ CsiByte(Scanning(p, ps, n, "digits", "none", k), b)
              = Scanned(p, Append(ps, Clamp(n)), "none", b, k + 1)
         /\ Scanned(p, Append(ps, Clamp(n)), "none", b, k + 1) \in CsiState
<1> DEFINE s == Scanning(p, ps, n, "digits", "none", k)
           read == [s EXCEPT !.consumed = @ + 1]
           more == Append(ps, Clamp(n))
           now == CsiByte(s, b)
           then == Scanned(p, more, "none", b, k + 1)
<1>0. b \notin Digits /\ b # ";" /\ b \notin Intermediates
  BY Zenon, ByteClasses
<1>1. s \in CsiState /\ MayScan(p, more, 0, "none", k + 1)
  BY ScanningType, MayScanOn
<1> HIDE DEF more
<1>2. then \in CsiState
  BY <1>1, ScanningType
<1>3. /\ s.at = "body" /\ s.private = Marked(p) /\ s.params = ps /\ s.current = n /\ s.haveDigit = TRUE
      /\ s.intermediate = "none" /\ s.final = "none" /\ s.consumed = k
  BY Zenon DEF Scanning, Some
<1>4. /\ then.at = "done" /\ then.private = Marked(p) /\ then.params = more /\ then.current = 0
      /\ then.haveDigit = FALSE
      /\ then.intermediate = "none" /\ then.final = b /\ then.consumed = k + 1
  BY DEF Scanned
<1> HIDE DEF s, then
<1>5. /\ read \in CsiState /\ read.at = "body" /\ read.private = Marked(p) /\ read.params = ps
      /\ read.current = n /\ read.intermediate = "none" /\ read.final = "none"
      /\ read.consumed = k + 1
  BY <1>1, <1>3, ReadFields
<1>6. now = [Push(read) EXCEPT !.at = "done", !.final = b]
  <2>1. ~(Len(ps) >= MaxParams)
    BY DecodeAssumption DEF MayScan, DecodeAssumption
  <2> QED BY Zenon, <1>0, <1>3, <2>1 DEF CsiByte, FlushesAtFinal
<1> HIDE DEF read, now
<1> DEFINE pushed == Push(read)
<1>7. /\ pushed \in CsiState /\ pushed.private = Marked(p) /\ pushed.params = more
      /\ pushed.current = 0 /\ pushed.haveDigit = FALSE
      /\ pushed.intermediate = "none" /\ pushed.consumed = k + 1
  BY Zenon, <1>5, PushFields DEF more
<1>8. now = [pushed EXCEPT !.at = "done", !.final = b]
  BY <1>6
<1> HIDE DEF pushed
<1>10. /\ now \in CsiState /\ now.at = "done" /\ now.private = Marked(p) /\ now.params = more
       /\ now.current = 0 /\ now.haveDigit = FALSE /\ now.intermediate = "none"
       /\ now.final = b /\ now.consumed = k + 1
  BY Zenon, <1>7, <1>8 DEF CsiState
<1>9. now = then
  BY Zenon, <1>2, <1>4, <1>10, SameState
<1> QED BY <1>2, <1>9 DEF now, then, s, more

(* A final byte after "$" ends the sequence, with no parameter more. *)
LEMMA ScanMarked ==
  ASSUME NEW p, NEW ps, NEW k, MayScan(p, ps, 0, "$", k), NEW b \in Finals
  PROVE  /\ CsiByte(Scanning(p, ps, 0, "none", "$", k), b) = Scanned(p, ps, "$", b, k + 1)
         /\ Scanned(p, ps, "$", b, k + 1) \in CsiState
<1> DEFINE s == Scanning(p, ps, 0, "none", "$", k)
           read == [s EXCEPT !.consumed = @ + 1]
           now == CsiByte(s, b)
           then == Scanned(p, ps, "$", b, k + 1)
<1>0. b \notin Digits /\ b # ";" /\ b \notin Intermediates
  BY Zenon, ByteClasses
<1>1. s \in CsiState /\ MayScan(p, ps, 0, "$", k + 1)
  BY ScanningType, MayScanOn
<1>2. then \in CsiState
  BY <1>1, ScanningType
<1>3. /\ s.at = "body" /\ s.private = Marked(p) /\ s.params = ps /\ s.current = 0 /\ s.haveDigit = FALSE
      /\ s.intermediate = "$" /\ s.final = "none" /\ s.consumed = k
  BY Zenon DEF Scanning, Some
<1>4. /\ then.at = "done" /\ then.private = Marked(p) /\ then.params = ps /\ then.current = 0
      /\ then.haveDigit = FALSE
      /\ then.intermediate = "$" /\ then.final = b /\ then.consumed = k + 1
  BY DEF Scanned
<1> HIDE DEF s, then
<1>5. /\ read \in CsiState /\ read.at = "body" /\ read.private = Marked(p) /\ read.params = ps
      /\ read.current = 0 /\ read.haveDigit = FALSE
      /\ read.intermediate = "$" /\ read.final = "none"
      /\ read.consumed = k + 1
  BY <1>1, <1>3, ReadFields
<1>6. now = [read EXCEPT !.at = "done", !.final = b]
  BY Zenon, <1>0, <1>3 DEF CsiByte, FlushesAtFinal
<1> HIDE DEF read, now
<1>10. /\ now \in CsiState /\ now.at = "done" /\ now.private = Marked(p) /\ now.params = ps
       /\ now.current = 0 /\ now.haveDigit = FALSE /\ now.intermediate = "$"
       /\ now.final = b /\ now.consumed = k + 1
  BY Zenon, <1>5, <1>6 DEF CsiState
<1>9. now = then
  BY Zenon, <1>2, <1>4, <1>10, SameState
<1> QED BY <1>2, <1>9 DEF now, then, s

(* A saturated number goes on as the number itself would. *)
LEMMA SaturatedOnce ==
  ASSUME NEW n \in Nat, NEW d \in 0 .. 9
  PROVE  /\ Saturated(Saturated(n) * 10 + d) = Saturated(n * 10 + d)
         /\ Clamp(Saturated(n)) = Clamp(n) /\ Saturated(n) \in Between
<1>1. U16Max \in Nat /\ U16Max > 0
  BY DEF U16Max
<1> QED BY <1>1 DEF Saturated, Clamp, Between

(* A digit in front of a parameter, and one in it. *)
LEMMA NextDigit ==
  ASSUME NEW p, NEW ps, NEW n, NEW i, NEW k, MayScan(p, ps, n, i, k), NEW d \in Digits
  PROVE  /\ n = 0 => CsiByte(Fresh(p, ps, i, k), d)
                        = Amid(p, ps, Saturated(n * 10 + DigitValue[d]), i, k + 1)
         /\ CsiByte(Amid(p, ps, n, i, k), d)
              = Amid(p, ps, Saturated(n * 10 + DigitValue[d]), i, k + 1)
<1>1. CsiByte(Scanning(p, ps, n, "digits", i, k), d)
        = Scanning(p, ps, Saturated(n * 10 + DigitValue[d]), "digits", i, k + 1)
  BY ScanDigit
<1>2. CsiByte(Scanning(p, ps, n, "none", i, k), d)
        = Scanning(p, ps, Saturated(n * 10 + DigitValue[d]), "digits", i, k + 1)
  BY ScanDigit
<1> QED BY <1>1, <1>2 DEF Fresh, Amid

(* The states of the parser between and in parameters. *)
LEMMA FreshType ==
  ASSUME NEW p, NEW ps, NEW n, NEW i, NEW k, MayScan(p, ps, n, i, k)
  PROVE  Amid(p, ps, n, i, k) \in CsiState /\ (n = 0 => Fresh(p, ps, i, k) \in CsiState)
BY ScanningType DEF Fresh, Amid

(* The digits of a numeral, accumulated. *)
LEMMA ScanDigits ==
  ASSUME NEW p, NEW ps, NEW i, NEW k, MayScan(p, ps, 0, i, k),
         NEW s, ListOf(s, Digits), s # <<>>
  PROVE  CsiScan(Fresh(p, ps, i, k), s) = Amid(p, ps, Saturated(Num(s)), i, k + Len(s))
<1> DEFINE start == Fresh(p, ps, i, k)
           Reads(u) == CsiScan(start, u) = Amid(p, ps, Saturated(Num(u)), i, k + Len(u))
           Q == {u \in Seq(Digits) : u = <<>> \/ Reads(u)}
<1>0. start \in CsiState /\ Digits \subseteq Byte
  BY FreshType DEF Byte
<1>1. <<>> \in Q
  OBVIOUS
<1>2. ASSUME NEW u, u \in Seq(Digits), NEW x, x \in Digits, u \in Q PROVE Append(u, x) \in Q
  <2> DEFINE w == Append(u, x)
             m == Saturated(Num(u))
             l == k + Len(u)
  <2>1. ListOf(u, Byte) /\ x \in Byte /\ ListOf(u, Digits) /\ w \in Seq(Digits)
        /\ w # <<>> /\ Len(w) = Len(u) + 1 /\ Len(u) \in Nat /\ l + 1 = k + Len(w)
    <3>1. k \in Nat
      BY MayScanParts
    <3>2. ListOf(u, Byte) /\ x \in Byte
      BY <1>0, <1>2 DEF ListOf
    <3>3. u \in Seq(Digits) /\ x \in Digits
      BY <1>2
    <3> HIDE DEF Q, m
    <3>4. w \in Seq(Digits) /\ w # <<>> /\ Len(w) = Len(u) + 1 /\ Len(u) \in Nat
      <4>1. w \in Seq(Digits) /\ Len(w) = Len(u) + 1 /\ Len(u) \in Nat
        BY <3>3
      <4>2. Len(<<>>) = 0
        OBVIOUS
      <4> HIDE DEF w
      <4> QED BY <4>1, <4>2
    <3>5. l + 1 = k + Len(w)
      BY <3>1, <3>4
    <3> QED BY <3>2, <3>3, <3>4, <3>5 DEF ListOf
  <2>2. CsiScan(start, Append(u, x)) = CsiByte(CsiScan(start, u), x) /\ CsiScan(start, <<>>) = start
    <3> HIDE DEF start
    <3> QED BY <1>0, <2>1, ScanFacts
  <2>5. Num(u) \in Nat /\ Num(w) = Num(u) * 10 + DigitValue[x] /\ Num(<<>>) = 0
    BY <1>2, <2>1, NumAppend
  <2>6. Saturated(m * 10 + DigitValue[x]) = Saturated(Num(w)) /\ m \in Between
    BY Zenon, <1>2, <2>5, DigitRange, SaturatedOnce
  <2>7. MayScan(p, ps, m, i, l)
    BY <2>1, <2>6 DEF MayScan
  <2>9. x \in Digits /\ (u = <<>> \/ Reads(u))
    BY <1>2
  <2>10. u = <<>> => m = 0 /\ l = k
    <3>1. Saturated(0) = 0
      BY DEF Saturated, U16Max
    <3>2. k \in Nat
      BY DEF MayScan
    <3> QED BY <2>5, <3>1, <3>2
  <2>3. u = <<>> \/ CsiScan(start, u) = Amid(p, ps, m, i, l)
    BY <2>9
  <2> HIDE DEF w, m, l, Q, Reads
  <2>4. /\ m = 0 => CsiByte(Fresh(p, ps, i, l), x)
                       = Amid(p, ps, Saturated(m * 10 + DigitValue[x]), i, l + 1)
        /\ CsiByte(Amid(p, ps, m, i, l), x)
             = Amid(p, ps, Saturated(m * 10 + DigitValue[x]), i, l + 1)
    BY <2>7, <2>9, NextDigit
  <2>11. CsiByte(CsiScan(start, u), x) = Amid(p, ps, Saturated(m * 10 + DigitValue[x]), i, l + 1)
    BY <2>2, <2>3, <2>4, <2>10
  <2> HIDE DEF start
  <2>8. CsiScan(start, w) = Amid(p, ps, Saturated(Num(w)), i, k + Len(w))
    BY <2>1, <2>2, <2>6, <2>11 DEF w
  <2> QED BY <2>1, <2>8 DEF w, Q, Reads
<1>3. \A u \in Seq(Digits), x \in Digits : u \in Q => Append(u, x) \in Q
  <2> HIDE DEF Q
  <2> QED BY <1>2
<1>4. s \in Q
  <2> HIDE DEF Q
  <2> QED BY <1>1, <1>3, ListsInductive
<1> QED BY <1>4

(* A number. *)
LEMMA ScanNumber ==
  ASSUME NEW p, NEW ps, NEW i, NEW k, MayScan(p, ps, 0, i, k), NEW n \in FiveDigits
  PROVE  /\ CsiScan(Fresh(p, ps, i, k), Itoa(n)) = Amid(p, ps, Saturated(n), i, k + Len(Itoa(n)))
         /\ MayScan(p, ps, Saturated(n), i, k + Len(Itoa(n)))
         /\ Itoa(n) \in Text /\ Len(Itoa(n)) \in Nat /\ Len(Itoa(n)) > 0
         /\ Itoa(n)[1] \in Digits
<1> DEFINE q == Itoa(n)
<1>1. ListOf(q, Digits) /\ q # <<>> /\ Num(q) = n
  BY NumItoa
<1> HIDE DEF q
<1>2. CsiScan(Fresh(p, ps, i, k), q) = Amid(p, ps, Saturated(Num(q)), i, k + Len(q))
  BY <1>1, ScanDigits
<1>4. Digits \subseteq Byte
  BY DEF Byte
<1>5. q \in Text /\ Len(q) \in Nat /\ Len(q) > 0 /\ q[1] \in Digits
  BY <1>1, <1>4 DEF ListOf, Text
<1>6. Saturated(n) \in Between
  BY FiveNat, NumberRange
<1>7. k + Len(q) \in Nat
  BY <1>5 DEF MayScan
<1>8. MayScan(p, ps, Saturated(n), i, k + Len(q))
  BY <1>6, <1>7 DEF MayScan
<1> QED BY <1>1, <1>2, <1>5, <1>8 DEF q

-----------------------------------------------------------------------------
(* parse_csi, more bytes at a time.                                         *)

(* A text is a list. *)
LEMMA TextList == ASSUME NEW s, s \in Text PROVE IsList(s) /\ Len(s) \in Nat
<1>1. s \in Seq(Byte)
  BY DEF Text
<1> QED BY <1>1, ListIn

(* A slice of a text that goes on. *)
LEMMA SliceCat ==
  ASSUME NEW s, s \in Text, NEW t, t \in Text, NEW m \in Nat \ {0}, m <= Len(s) + 1
  PROVE  /\ SubSeq(s \o t, m, Len(s \o t)) = SubSeq(s, m, Len(s)) \o t
         /\ SubSeq(s, m, Len(s)) \in Text
<1> DEFINE a == SubSeq(s \o t, m, Len(s \o t))
           b == SubSeq(s, m, Len(s))
           q == s \o t
           n == Len(s)
<1>1. /\ q \in Text /\ Len(q) = n + Len(t) /\ n \in Nat /\ Len(t) \in Nat
      /\ \A i \in 1 .. n : q[i] = s[i]
      /\ \A i \in 1 .. Len(t) : q[n + i] = t[i]
  BY Cat
<1>2. b \in Text
  BY DEF Text
<1>3. a \in Text
  <2>1. SubSeq(q, m, Len(q)) \in Text
    <3> HIDE DEF q
    <3> QED BY <1>1 DEF Text
  <2> QED BY <2>1
<1>4. Len(b) = n - m + 1 /\ \A i \in 1 .. Len(b) : b[i] = s[m + i - 1]
  BY <1>1 DEF Text
<1>5. Len(a) = Len(q) - m + 1 /\ \A i \in 1 .. Len(a) : a[i] = q[m + i - 1]
  <2>1. /\ Len(SubSeq(q, m, Len(q))) = Len(q) - m + 1
        /\ \A i \in 1 .. Len(q) - m + 1 : SubSeq(q, m, Len(q))[i] = q[m + i - 1]
    <3> HIDE DEF q
    <3> QED BY <1>1 DEF Text
  <2> QED BY <2>1
<1> HIDE DEF a, b, q, n
<1> DEFINE c == b \o t
<1>9. b \in Text /\ t \in Text
  BY <1>2
<1>6. /\ c \in Text /\ Len(c) = Len(b) + Len(t) /\ Len(b) \in Nat
      /\ \A i \in 1 .. Len(b) : c[i] = b[i]
      /\ \A i \in 1 .. Len(t) : c[Len(b) + i] = t[i]
  <2>1. c \in Text /\ Len(c) = Len(b) + Len(t) /\ Len(b) \in Nat
    BY <1>9, Cat
  <2>2. \A i \in 1 .. Len(b) : c[i] = b[i]
    BY <1>9, Cat
  <2>3. \A i \in 1 .. Len(t) : c[Len(b) + i] = t[i]
    BY <1>9, Cat
  <2> QED BY <2>1, <2>2, <2>3
<1> HIDE DEF c
<1>7. Len(a) = Len(c)
  BY <1>1, <1>4, <1>5, <1>6
<1>8. ASSUME NEW i \in 1 .. Len(a) PROVE a[i] = c[i]
  <2>1. CASE i <= Len(b)
    <3>1. i \in 1 .. Len(b) /\ m + i - 1 \in 1 .. n
      <4>1. Len(b) = n - m + 1 /\ n \in Nat /\ i \in Nat /\ i >= 1
        BY <1>1, <1>4, <1>8
      <4> QED BY <2>1, <4>1
    <3> QED BY <1>1, <1>4, <1>5, <1>6, <1>8, <3>1
  <2>2. CASE i > Len(b)
    <3> DEFINE j == i - Len(b)
    <3>1. j \in 1 .. Len(t) /\ Len(b) + j = i /\ n + j = m + i - 1
      BY <1>1, <1>4, <1>6, <1>7, <2>2
    <3> HIDE DEF j
    <3> QED BY Zenon, <1>1, <1>5, <1>6, <1>8, <3>1
  <2> QED BY <1>1, <1>6, <2>1, <2>2
<1>10. a = c
  BY <1>3, <1>6, <1>7, <1>8 DEF Text
<1> QED BY <1>2, <1>10 DEF a, b, c, q, n

(* Once three bytes are there, the next ones only go on with the scan. *)
LEMMA ParseMore ==
  ASSUME NEW s, s \in Text, Len(s) >= 3, NEW t, t \in Text
  PROVE  /\ ParseCsi(s \o t) = CsiScan(ParseCsi(s), t) /\ ParseCsi(s) \in CsiState
         /\ s \o t \in Text /\ Len(s \o t) = Len(s) + Len(t) /\ (s \o t)[1] = s[1]
<1> DEFINE q == s \o t
           bad == [CsiStart(FALSE) EXCEPT !.at = "malformed"]
           start == CsiStart(Private(s))
           m == BodyFrom(s)
           b == SubSeq(s, m, Len(s))
<1>1. /\ q \in Text /\ Len(q) = Len(s) + Len(t) /\ Len(s) \in Nat /\ Len(t) \in Nat
      /\ \A i \in 1 .. Len(s) : q[i] = s[i]
  BY Cat
<1>2. q[1] = s[1] /\ q[2] = s[2] /\ q[3] = s[3] /\ Len(q) >= 3
  BY <1>1
<1>3. IsList(s) /\ IsList(q)
  BY <1>1, TextList
<1>4. ParseCsi(s) \in CsiState
  BY <1>3, ParseType
<1>5. CASE <<s[1], s[2]>> # CSI
  <2>1. ParseCsi(s) = bad
    <3>1. Len(s) >= 2
      BY <1>1
    <3> QED BY Zenon, <1>3, <1>5, <3>1, ParseCases
  <2>2. ParseCsi(q) = bad
    <3>1. Len(q) >= 2 /\ <<q[1], q[2]>> # CSI
      BY <1>1, <1>2, <1>5
    <3> HIDE DEF q
    <3> QED BY Zenon, <1>3, <3>1, ParseCases
  <2>3. bad \in CsiState /\ bad.at # "body"
    <3> DEFINE base == CsiStart(FALSE)
    <3>1. base \in CsiState /\ bad \in CsiState
      BY Zenon, CsiStartType
    <3>2. bad = [base EXCEPT !.at = "malformed"]
      OBVIOUS
    <3> HIDE DEF base, bad
    <3>3. bad.at = "malformed"
      BY <3>1, <3>2 DEF CsiState
    <3> QED BY <3>1, <3>3
  <2> HIDE DEF bad
  <2>4. CsiScan(bad, t) = bad
    BY <2>3, ScanStays
  <2> QED BY <1>1, <1>2, <1>4, <2>1, <2>2, <2>4
<1>6. CASE <<s[1], s[2]>> = CSI
  <2>1. ParseCsi(s) = CsiScan(start, b)
    <3>1. Len(s) >= 2
      BY <1>1
    <3> QED BY Zenon, <1>3, <1>6, <3>1, ParseCases
  <2>2. start \in CsiState
    BY StartType
  <2>3. (Private(q) <=> Private(s)) /\ BodyFrom(q) = m
    BY <1>1, <1>2 DEF Private, BodyFrom
  <2>4. CsiStart(Private(q)) = start
    <3>1. CASE Private(s)
      BY <2>3, <3>1, Zenon
    <3>2. CASE ~Private(s)
      <4>1. Private(s) = FALSE /\ Private(q) = FALSE
        BY <2>3, <3>2 DEF Private
      <4> QED BY <4>1, Zenon
    <3> QED BY <3>1, <3>2
  <2>5. ParseCsi(q) = CsiScan(start, SubSeq(q, m, Len(q)))
    <3>1. <<q[1], q[2]>> = CSI /\ Len(q) >= 2
      BY <1>1, <1>2, <1>6
    <3>2. ParseCsi(q) = CsiScan(CsiStart(Private(q)), SubSeq(q, BodyFrom(q), Len(q)))
      <4> HIDE DEF q
      <4> QED BY Zenon, <1>3, <3>1, ParseCases
    <3> HIDE DEF start, m
    <3> QED BY <2>3, <2>4, <3>2
  <2>6. m \in Nat \ {0} /\ m <= Len(s) + 1
    BY <1>1 DEF BodyFrom
  <2>7. SubSeq(q, m, Len(q)) = b \o t /\ b \in Text
    <3> HIDE DEF m
    <3> QED BY Zenon, <2>6, SliceCat
  <2> HIDE DEF start, m, b
  <2>8. CsiScan(start, b \o t) = CsiScan(CsiScan(start, b), t)
    BY <2>2, <2>7, ScanCat
  <2> QED BY Zenon, <1>1, <1>2, <1>4, <2>1, <2>5, <2>7, <2>8
<1> QED BY <1>5, <1>6

(* The first bytes. *)
LEMMA FreshStart ==
  CsiStart(FALSE) = Fresh("public", <<>>, "none", 2) /\ CsiStart(TRUE) = Fresh("private", <<>>, "none", 3)
BY Zenon DEF CsiStart, Fresh, Scanning, Marked, Some

(* The states in which the parameters begin. *)
LEMMA MayStart == MayScan("public", <<>>, 0, "none", 2) /\ MayScan("private", <<>>, 0, "none", 3)
<1>1. 0 \in Between
  BY NumberRange
<1>2. <<>> \in Seq(U16)
  OBVIOUS
<1> QED BY <1>1, <1>2 DEF MayScan

(* The introducer of a control sequence. *)
LEMMA CsiText ==
  ESC \in Byte /\ "[" \in Byte /\ "?" \in Byte /\ CSI \in Text /\ Len(CSI) = 2 /\ CSI[1] = ESC
<1>1. ESC \in Byte /\ "[" \in Byte /\ "?" \in Byte
  BY DEF Byte, Named
<1>2. <<ESC, "[">> \in Seq(Byte) /\ Len(<<ESC, "[">>) = 2
  BY <1>1
<1> QED BY <1>1, <1>2 DEF CSI, Text

(* A pair and one more. *)
LEMMA ThreeOf ==
  ASSUME NEW a, NEW b, NEW c
  PROVE  <<a, b>> \o <<c>> = <<a, b, c>>
<1> DEFINE S == {a, b, c}
<1>1. <<a, b>> \in Seq(S) /\ c \in S
  OBVIOUS
<1>2. Append(<<a, b>>, c) = <<a, b>> \o <<c>>
  BY <1>1, AppendIsConcat
<1>3. <<a, b, c>> = Append(<<a, b>>, c)
  BY <1>1
<1> QED BY Zenon, <1>2, <1>3

(* "?" makes a sequence private. *)
LEMMA ParsePrivate ==
  LET s == CSI \o <<"?">>
  IN s \in Text /\ Len(s) = 3 /\ s[1] = ESC /\ ParseCsi(s) = Fresh("private", <<>>, "none", 3)
<1> DEFINE s == CSI \o <<"?">>
<1>1. s = <<ESC, "[", "?">>
  BY ThreeOf DEF CSI
<1>2. s \in Text /\ Len(s) = 3 /\ s[1] = ESC /\ s[2] = "[" /\ s[3] = "?"
  <2>1. ASSUME NEW a \in Byte, NEW b \in Byte, NEW c \in Byte
        PROVE  /\ <<a, b, c>> \in Seq(Byte) /\ Len(<<a, b, c>>) = 3
               /\ <<a, b, c>>[1] = a /\ <<a, b, c>>[2] = b /\ <<a, b, c>>[3] = c
    OBVIOUS
  <2> HIDE DEF s
  <2> QED BY <1>1, <2>1, CsiText DEF Text
<1> HIDE DEF s
<1>3. IsList(s)
  BY <1>2, TextList
<1>4. Private(s) /\ BodyFrom(s) = 4
  BY <1>2 DEF Private, BodyFrom
<1>5. SubSeq(s, 4, 3) = <<>>
  BY <1>2, SubSeqEmpty
<1>6. ParseCsi(s) = CsiScan(CsiStart(Private(s)), SubSeq(s, BodyFrom(s), Len(s)))
  <2>1. Len(s) >= 2 /\ <<s[1], s[2]>> = CSI
    BY <1>2 DEF CSI
  <2> QED BY Zenon, <1>3, <2>1, ParseCases
<1>7. CsiStart(Private(s)) = CsiStart(TRUE)
  BY <1>4, Zenon
<1> DEFINE start == CsiStart(TRUE)
<1>8. start \in CsiState
  BY Zenon, CsiStartType
<1>9. ParseCsi(s) = CsiScan(start, <<>>)
  BY Zenon, <1>2, <1>4, <1>5, <1>6, <1>7
<1> HIDE DEF start
<1>10. CsiScan(start, <<>>) = start
  BY Zenon, <1>8, CsiText, ScanOne
<1>11. start = Fresh("private", <<>>, "none", 3)
  BY Zenon, FreshStart DEF start
<1> QED BY <1>2, <1>9, <1>10, <1>11 DEF s

Unmarked(t) == Len(t) > 0 /\ t[1] # "?"

(* Without "?" it is public. *)
LEMMA ParsePublic ==
  ASSUME NEW t, t \in Text, Unmarked(t)
  PROVE  LET s == CSI \o t
         IN /\ s \in Text /\ Len(s) = 2 + Len(t) /\ s[1] = ESC
            /\ ParseCsi(s) = CsiScan(Fresh("public", <<>>, "none", 2), t)
<1> DEFINE s == CSI \o t
           start == CsiStart(FALSE)
<1>1. /\ s \in Text /\ Len(s) = 2 + Len(t) /\ Len(t) \in Nat
      /\ \A i \in 1 .. 2 : s[i] = CSI[i]
      /\ \A i \in 1 .. Len(t) : s[2 + i] = t[i]
  <2> DEFINE c == CSI
  <2>1. c \in Text /\ Len(c) = 2
    BY CsiText
  <2> HIDE DEF c
  <2> DEFINE q == c \o t
  <2>2. /\ q \in Text /\ Len(q) = Len(c) + Len(t) /\ Len(t) \in Nat
        /\ \A i \in 1 .. Len(c) : q[i] = c[i]
        /\ \A i \in 1 .. Len(t) : q[Len(c) + i] = t[i]
    <3>1. c \in Text
      BY <2>1
    <3> QED BY <3>1, Cat
  <2> HIDE DEF q
  <2>3. /\ q \in Text /\ Len(q) = 2 + Len(t) /\ Len(t) \in Nat
        /\ \A i \in 1 .. 2 : q[i] = c[i]
        /\ \A i \in 1 .. Len(t) : q[2 + i] = t[i]
    BY <2>1, <2>2
  <2> QED BY <2>3 DEF c, q
<1>2. s[1] = CSI[1] /\ s[2] = CSI[2] /\ s[3] = t[1] /\ Len(s) >= 3
  <2>1. Len(t) > 0
    BY DEF Unmarked
  <2> HIDE DEF s
  <2> QED BY <1>1, <2>1
<1>0. SubSeq(s, 3, Len(s)) = SubSeq(CSI, 3, 2) \o t
  <2> DEFINE c == CSI
  <2>1. c \in Text /\ Len(c) = 2
    BY CsiText
  <2> HIDE DEF c
  <2>2. SubSeq(c \o t, 3, Len(c \o t)) = SubSeq(c, 3, 2) \o t
    <3>1. 3 \in Nat \ {0} /\ 3 <= Len(c) + 1
      BY <2>1
    <3>2. SubSeq(c \o t, 3, Len(c \o t)) = SubSeq(c, 3, Len(c)) \o t
      BY Zenon, <2>1, <3>1, SliceCat
    <3> QED BY Zenon, <2>1, <3>2
  <2> QED BY Zenon, <2>2 DEF c
<1> HIDE DEF s
<1>3. IsList(s)
  BY <1>1, TextList
<1>4. Private(s) = FALSE /\ BodyFrom(s) = 3
  BY <1>2 DEF Private, BodyFrom, Unmarked
<1>5. SubSeq(CSI, 3, 2) = <<>> /\ <<>> \o t = t
  <2>1. SubSeq(CSI, 3, 2) = <<>>
    BY CsiText, SubSeqEmpty
  <2>2. <<>> \o t = t
    BY ConcatEmptySeq DEF Text
  <2> QED BY <2>1, <2>2
<1>6. ParseCsi(s) = CsiScan(CsiStart(Private(s)), SubSeq(s, BodyFrom(s), Len(s)))
  <2>1. Len(s) >= 2 /\ <<s[1], s[2]>> = CSI
    BY <1>1, <1>2 DEF CSI
  <2> QED BY Zenon, <1>3, <2>1, ParseCases
<1>7. CsiStart(Private(s)) = start
  BY <1>4, Zenon
<1>8. ParseCsi(s) = CsiScan(start, t)
  <2> HIDE DEF start
  <2> QED BY Zenon, <1>0, <1>4, <1>5, <1>6, <1>7
<1>9. start = Fresh("public", <<>>, "none", 2)
  BY Zenon, FreshStart
<1> HIDE DEF start
<1> QED BY <1>1, <1>2, <1>8, <1>9, CsiText DEF s

-----------------------------------------------------------------------------
(* What has been read of an answer: a text that parse_csi has followed so   *)
(* far, to its last byte.                                                   *)

At(s, st) == s \in Text /\ Len(s) >= 3 /\ s[1] = ESC /\ ParseCsi(s) = st

AtFresh(s, p, ps, i) == At(s, Fresh(p, ps, i, Len(s))) /\ MayScan(p, ps, 0, i, Len(s))
AtAmid(s, p, ps, n, i) == At(s, Amid(p, ps, n, i, Len(s))) /\ MayScan(p, ps, n, i, Len(s))
AtEnd(s, p, ps, i, b) == At(s, Scanned(p, ps, i, b, Len(s))) /\ Len(s) >= 4

(* One byte more. *)
LEMMA AtNext ==
  ASSUME NEW s, NEW st, At(s, st), NEW x \in Byte
  PROVE  LET q == s \o <<x>>
         IN At(q, CsiByte(st, x)) /\ Len(q) = Len(s) + 1 /\ Len(s) \in Nat
<1> DEFINE t == <<x>>
           q == s \o t
<1>1. t \in Text /\ Len(t) = 1
  <2>1. <<x>> \in Seq(Byte) /\ Len(<<x>>) = 1
    OBVIOUS
  <2> QED BY <2>1 DEF Text
<1>2. s \in Text /\ Len(s) >= 3 /\ s[1] = ESC /\ ParseCsi(s) = st
  BY DEF At
<1>6. CsiScan(ParseCsi(s), t) = CsiByte(ParseCsi(s), x)
  <2>1. ParseCsi(s) \in CsiState
    BY <1>2, TextList, ParseType
  <2> QED BY <2>1, ScanOne
<1> HIDE DEF t
<1>3. /\ ParseCsi(q) = CsiScan(ParseCsi(s), t) /\ q \in Text
      /\ Len(q) = Len(s) + Len(t) /\ q[1] = s[1]
  BY Zenon, <1>1, <1>2, ParseMore
<1>4. Len(s) \in Nat
  BY <1>2, TextList
<1>5. ParseCsi(q) = CsiByte(st, x)
  BY <1>2, <1>3, <1>6
<1> HIDE DEF q
<1>7. At(q, CsiByte(st, x)) /\ Len(q) = Len(s) + 1
  BY <1>1, <1>2, <1>3, <1>4, <1>5 DEF At
<1> QED BY <1>4, <1>7 DEF q, t

(* ESC [ ? is where private parameters begin. *)
LEMMA AtPrivate == AtFresh(CSI \o <<"?">>, "private", <<>>, "none")
<1> DEFINE s == CSI \o <<"?">>
<1>1. s \in Text /\ Len(s) = 3 /\ s[1] = ESC /\ ParseCsi(s) = Fresh("private", <<>>, "none", 3)
  BY ParsePrivate
<1> HIDE DEF s
<1>2. AtFresh(s, "private", <<>>, "none")
  BY <1>1, MayStart DEF AtFresh, At
<1> QED BY <1>2 DEF s

(* The first parameter of a public sequence. *)
LEMMA AtPublic ==
  ASSUME NEW n \in FiveDigits
  PROVE  AtAmid(CSI \o Itoa(n), "public", <<>>, Saturated(n), "none")
<1> DEFINE t == Itoa(n)
           s == CSI \o t
<1>1. /\ CsiScan(Fresh("public", <<>>, "none", 2), t)
           = Amid("public", <<>>, Saturated(n), "none", 2 + Len(t))
      /\ MayScan("public", <<>>, Saturated(n), "none", 2 + Len(t))
      /\ t \in Text /\ Len(t) \in Nat /\ Len(t) > 0 /\ t[1] \in Digits
  BY MayStart, ScanNumber
<1> HIDE DEF t
<1>2. Unmarked(t)
  <2>1. "?" \notin Digits
    BY Zenon, ByteClasses
  <2> QED BY <1>1, <2>1 DEF Unmarked
<1>3. /\ s \in Text /\ Len(s) = 2 + Len(t) /\ s[1] = ESC
      /\ ParseCsi(s) = CsiScan(Fresh("public", <<>>, "none", 2), t)
  BY <1>1, <1>2, ParsePublic
<1> HIDE DEF s
<1>4. Len(s) >= 3
  BY <1>1, <1>3
<1>5. ParseCsi(s) = Amid("public", <<>>, Saturated(n), "none", Len(s))
  BY <1>1, <1>3
<1>6. MayScan("public", <<>>, Saturated(n), "none", Len(s))
  BY <1>1, <1>3
<1>7. AtAmid(s, "public", <<>>, Saturated(n), "none")
  BY <1>3, <1>4, <1>5, <1>6 DEF AtAmid, At
<1> QED BY <1>7 DEF s, t

(* The next parameter, as itoa writes it. *)
LEMMA AtNumber ==
  ASSUME NEW s, NEW p, NEW ps, NEW i, AtFresh(s, p, ps, i), NEW n \in FiveDigits
  PROVE  AtAmid(s \o Itoa(n), p, ps, Saturated(n), i)
<1> DEFINE t == Itoa(n)
           q == s \o t
           k == Len(s)
<1>0. /\ s \in Text /\ Len(s) >= 3 /\ s[1] = ESC /\ ParseCsi(s) = Fresh(p, ps, i, k)
      /\ MayScan(p, ps, 0, i, k)
  BY DEF AtFresh, At
<1>1. /\ CsiScan(Fresh(p, ps, i, k), t) = Amid(p, ps, Saturated(n), i, k + Len(t))
      /\ MayScan(p, ps, Saturated(n), i, k + Len(t))
      /\ t \in Text /\ Len(t) \in Nat
  BY <1>0, ScanNumber
<1> HIDE DEF t
<1>2. /\ ParseCsi(q) = CsiScan(ParseCsi(s), t) /\ q \in Text
      /\ Len(q) = k + Len(t) /\ q[1] = s[1]
  BY <1>0, <1>1, ParseMore
<1>3. k \in Nat
  BY <1>0, TextList
<1> HIDE DEF q
<1>4. Len(q) >= 3
  BY <1>0, <1>1, <1>2, <1>3
<1> HIDE DEF k
<1>5. ParseCsi(q) = Amid(p, ps, Saturated(n), i, Len(q)) /\ MayScan(p, ps, Saturated(n), i, Len(q))
  BY <1>0, <1>1, <1>2
<1>6. AtAmid(q, p, ps, Saturated(n), i)
  BY <1>0, <1>2, <1>4, <1>5 DEF AtAmid, At
<1> QED BY <1>6 DEF q, t

(* A parameter of one digit. *)
LEMMA AtDigit ==
  ASSUME NEW s, NEW p, NEW ps, NEW i, AtFresh(s, p, ps, i), NEW d \in Digits
  PROVE  AtAmid(s \o <<d>>, p, ps, DigitValue[d], i)
<1> DEFINE q == s \o <<d>>
           k == Len(s)
           v == DigitValue[d]
<1>0. At(s, Fresh(p, ps, i, k)) /\ MayScan(p, ps, 0, i, k)
  BY DEF AtFresh
<1>1. CsiByte(Fresh(p, ps, i, k), d) = Amid(p, ps, Saturated(0 * 10 + v), i, k + 1)
  BY SMTT(40), <1>0, NextDigit
<1>2. Saturated(0 * 10 + v) = v /\ v \in Between
  <2>1. v \in 0 .. 9
    BY DigitRange
  <2> HIDE DEF v
  <2> QED BY <2>1 DEF Saturated, U16Max, Between
<1>3. d \in Byte
  BY DEF Byte
<1>4. At(q, CsiByte(Fresh(p, ps, i, k), d)) /\ Len(q) = k + 1 /\ k \in Nat
  BY <1>0, <1>3, AtNext
<1>5. MayScan(p, ps, v, i, k + 1)
  <2>1. v \in Between /\ k + 1 \in Nat
    BY <1>2, <1>4
  <2>2. MayScan(p, ps, 0, i, k)
    BY <1>0
  <2> HIDE DEF v, k
  <2> QED BY Zenon, <2>1, <2>2, MayScanOn
<1> HIDE DEF q, v
<1> QED BY <1>1, <1>2, <1>4, <1>5 DEF AtAmid, q, v

(* ";": the next parameter begins. *)
LEMMA AtSemicolon ==
  ASSUME NEW s, NEW p, NEW ps, NEW n, NEW i, AtAmid(s, p, ps, n, i), Len(ps) < MaxParams
  PROVE  AtFresh(s \o <<";">>, p, Append(ps, Clamp(n)), i)
<1> DEFINE q == s \o <<";">>
           k == Len(s)
           more == Append(ps, Clamp(n))
<1>0. At(s, Amid(p, ps, n, i, k)) /\ MayScan(p, ps, n, i, k)
  BY DEF AtAmid
<1>1. CsiByte(Amid(p, ps, n, i, k), ";") = Fresh(p, more, i, k + 1) /\ MayScan(p, more, 0, i, k + 1)
  <2>1. MayScan(p, ps, n, i, k)
    BY <1>0
  <2> HIDE DEF k, more
  <2>2. /\ CsiByte(Scanning(p, ps, n, "digits", i, k), ";")
             = Scanning(p, more, 0, "none", i, k + 1)
        /\ MayScan(p, more, 0, i, k + 1)
    BY Zenon, <2>1, ScanSemicolon DEF more
  <2> QED BY Zenon, <2>2 DEF Amid, Fresh
<1>2. ";" \in Byte
  BY DEF Byte, Named
<1>3. At(q, CsiByte(Amid(p, ps, n, i, k), ";")) /\ Len(q) = k + 1
  BY Zenon, <1>0, <1>2, AtNext
<1> HIDE DEF q, more
<1> QED BY Zenon, <1>1, <1>3 DEF AtFresh, q, more

(* "$": no parameter more. *)
LEMMA AtDollar ==
  ASSUME NEW s, NEW p, NEW ps, NEW n, AtAmid(s, p, ps, n, "none"), Len(ps) < MaxParams
  PROVE  AtFresh(s \o <<"$">>, p, Append(ps, Clamp(n)), "$")
<1> DEFINE q == s \o <<"$">>
           k == Len(s)
           more == Append(ps, Clamp(n))
<1>0. At(s, Amid(p, ps, n, "none", k)) /\ MayScan(p, ps, n, "none", k)
  BY DEF AtAmid
<1>1. /\ CsiByte(Amid(p, ps, n, "none", k), "$") = Fresh(p, more, "$", k + 1)
      /\ MayScan(p, more, 0, "$", k + 1)
  BY <1>0, ScanDollar DEF Amid, Fresh
<1>2. "$" \in Byte
  BY DEF Byte, Named
<1>3. At(q, CsiByte(Amid(p, ps, n, "none", k), "$")) /\ Len(q) = k + 1
  BY <1>0, <1>2, AtNext
<1> HIDE DEF q, more
<1> QED BY <1>1, <1>3 DEF AtFresh, q, more

(* The final byte, right after a parameter. *)
LEMMA AtFinal ==
  ASSUME NEW s, NEW p, NEW ps, NEW n, AtAmid(s, p, ps, n, "none"), Len(ps) < MaxParams,
         NEW b \in Finals \cap Byte
  PROVE  AtEnd(s \o <<b>>, p, Append(ps, Clamp(n)), "none", b)
<1> DEFINE q == s \o <<b>>
           k == Len(s)
           more == Append(ps, Clamp(n))
<1>0. At(s, Amid(p, ps, n, "none", k)) /\ MayScan(p, ps, n, "none", k)
  BY DEF AtAmid
<1>1. CsiByte(Amid(p, ps, n, "none", k), b) = Scanned(p, more, "none", b, k + 1)
  BY <1>0, ScanFinal DEF Amid
<1>3. At(q, CsiByte(Amid(p, ps, n, "none", k), b)) /\ Len(q) = k + 1
  BY <1>0, AtNext
<1>4. Len(q) >= 4
  <2>1. k \in Nat /\ k >= 3
    BY <1>0, TextList DEF At
  <2> QED BY <1>3, <2>1
<1> HIDE DEF q, more
<1> QED BY <1>1, <1>3, <1>4 DEF AtEnd, q, more

(* The final byte, after "$". *)
LEMMA AtMarked ==
  ASSUME NEW s, NEW p, NEW ps, AtFresh(s, p, ps, "$"), NEW b \in Finals \cap Byte
  PROVE  AtEnd(s \o <<b>>, p, ps, "$", b)
<1> DEFINE q == s \o <<b>>
           k == Len(s)
<1>0. At(s, Fresh(p, ps, "$", k)) /\ MayScan(p, ps, 0, "$", k)
  BY DEF AtFresh
<1>1. CsiByte(Fresh(p, ps, "$", k), b) = Scanned(p, ps, "$", b, k + 1)
  BY <1>0, ScanMarked DEF Fresh
<1>3. At(q, CsiByte(Fresh(p, ps, "$", k), b)) /\ Len(q) = k + 1
  BY <1>0, AtNext
<1>4. Len(q) >= 4
  <2>1. k \in Nat /\ k >= 3
    BY <1>0, TextList DEF At
  <2> QED BY <1>3, <2>1
<1> HIDE DEF q
<1> QED BY <1>1, <1>3, <1>4 DEF AtEnd, q

-----------------------------------------------------------------------------
(* The four CSI answers, read back.                                         *)

(* What parse_csi returns of a sequence read to its end. *)
LEMMA EndFields ==
  ASSUME NEW s, NEW p, NEW ps, NEW i, NEW b, AtEnd(s, p, ps, i, b)
  PROVE  LET c == ParseCsi(s)
         IN /\ c.at = "done" /\ c.params = ps
            /\ c.intermediate = i /\ c.final = b /\ c.consumed = Len(s)
            /\ p = "private" => c.private
            /\ p = "public" => ~c.private
<1>1. ParseCsi(s) = Scanned(p, ps, i, b, Len(s))
  BY DEF AtEnd, At
<1>2. LET c == Scanned(p, ps, i, b, Len(s))
      IN /\ c.at = "done" /\ c.params = ps
         /\ c.intermediate = i /\ c.final = b /\ c.consumed = Len(s)
  BY DEF Scanned
<1>3. Scanned(p, ps, i, b, Len(s)).private = (p = "private")
  BY DEF Scanned, Marked
<1>4. Scanned(p, ps, i, b, Len(s)).private <=> p = "private"
  BY Zenon, <1>3
<1> QED BY <1>1, <1>2, <1>4, Zenon

(* decode of a cursor report. *)
LEMMA DecodeDsr ==
  ASSUME NEW s, NEW ps, AtEnd(s, "public", ps, "none", "R"), Len(ps) = 2
  PROVE  Decode("dsr", s) = Ok([kind |-> "dsr", row |-> ps[1], col |-> ps[2]], Len(s))
<1> DEFINE c == ParseCsi(s)
<1>1. /\ c.at = "done" /\ ~c.private /\ c.params = ps
      /\ c.intermediate = "none" /\ c.final = "R" /\ c.consumed = Len(s)
  BY EndFields
<1>2. Decode("dsr", s) = Dsr(s)
  BY DEF Decode
<1>3. Dsr(s) = Ok([kind |-> "dsr", row |-> c.params[1], col |-> c.params[2]], c.consumed)
  <2>1. Len(c.params) = 2 /\ c.at # "body"
    BY <1>1
  <2> QED BY <1>1, <2>1, Zenon DEF Dsr, CsiDecode
<1> HIDE DEF c
<1> QED BY <1>1, <1>2, <1>3

(* decode of the kitty flags. *)
LEMMA DecodeKitty ==
  ASSUME NEW s, NEW ps, AtEnd(s, "private", ps, "none", "u"), Len(ps) = 1, ps[1] < 256
  PROVE  Decode("kitty", s) = Ok([kind |-> "kitty", flags |-> ps[1]], Len(s))
<1> DEFINE c == ParseCsi(s)
<1>1. /\ c.at = "done" /\ c.private /\ c.params = ps
      /\ c.intermediate = "none" /\ c.final = "u" /\ c.consumed = Len(s)
  BY EndFields
<1>2. Decode("kitty", s) = KittyReply(s)
  BY DEF Decode
<1>3. KittyReply(s) = Ok([kind |-> "kitty", flags |-> c.params[1]], c.consumed)
  <2>1. Len(c.params) = 1 /\ c.at # "body" /\ c.params[1] < 256
    BY <1>1
  <2> QED BY <1>1, <2>1, Zenon DEF KittyReply, CsiDecode
<1> HIDE DEF c
<1> QED BY <1>1, <1>2, <1>3

(* decode of a mode report. *)
LEMMA DecodeDecrpm ==
  ASSUME NEW s, NEW ps, AtEnd(s, "private", ps, "$", "y"), Len(ps) = 2
  PROVE  Decode("decrpm", s)
           = Ok([kind |-> "decrpm", mode |-> ps[1], state |-> ModeState(ps[2])], Len(s))
<1> DEFINE c == ParseCsi(s)
<1>1. /\ c.at = "done" /\ c.private /\ c.params = ps
      /\ c.intermediate = "$" /\ c.final = "y" /\ c.consumed = Len(s)
  BY EndFields
<1>2. Decode("decrpm", s) = Decrpm(s)
  BY DEF Decode
<1>3. Decrpm(s) = Ok([kind |-> "decrpm", mode |-> c.params[1], state |-> ModeState(c.params[2])],
                     c.consumed)
  <2>1. Len(c.params) = 2 /\ c.at # "body"
    BY <1>1
  <2> QED BY <1>1, <2>1, Zenon DEF Decrpm, CsiDecode
<1> HIDE DEF c
<1> QED BY <1>1, <1>2, <1>3

(* decode of the device attributes. *)
LEMMA DecodeDa1 ==
  ASSUME NEW s, NEW ps, AtEnd(s, "private", ps, "none", "c"), ps # <<>>
  PROVE  Decode("da1", s)
           = Ok([kind |-> "da1", id |-> Head(ps), capabilities |-> Tail(ps)], Len(s))
<1> DEFINE c == ParseCsi(s)
<1>1. /\ c.at = "done" /\ c.private /\ c.params = ps
      /\ c.intermediate = "none" /\ c.final = "c" /\ c.consumed = Len(s)
  BY EndFields
<1>2. Decode("da1", s) = Da1(s)
  BY DEF Decode
<1>3. Da1(s) = Ok([kind |-> "da1", id |-> Head(c.params), capabilities |-> Tail(c.params)],
                  c.consumed)
  <2>1. c.params # <<>> /\ c.at # "body"
    BY <1>1
  <2> QED BY <1>1, <2>1, Zenon DEF Da1, CsiDecode
<1> HIDE DEF c
<1> QED BY <1>1, <1>2, <1>3

(* A u16 has five digits at most, and no saturation or clamp changes it. *)
LEMMA Fitting ==
  ASSUME NEW n, n \in U16
  PROVE  n \in FiveDigits /\ Clamp(Saturated(n)) = n /\ Clamp(n) = n
<1>1. U16Max \in Nat /\ n \in Nat /\ n <= U16Max
  BY SMTT(40) DEF U16, U16Max
<1>2. n \in FiveDigits
  BY DEF U16, U16Max, FiveDigits
<1> QED BY SMTT(40), <1>1, <1>2 DEF Clamp, Saturated

(* The final bytes of the answers. *)
LEMMA FinalBytes ==
  "R" \in Finals \cap Byte /\ "c" \in Finals \cap Byte /\ "u" \in Finals \cap Byte
    /\ "y" \in Finals \cap Byte
<1>1. "R" \in Byte /\ "c" \in Byte /\ "u" \in Byte /\ "y" \in Byte
  BY DEF Byte, Named
<1>2. "R" \in Finals /\ "c" \in Finals /\ "u" \in Finals /\ "y" \in Finals
  BY DEF Finals
<1> QED BY <1>1, <1>2

(* A cursor report is read to its end. *)
LEMMA DsrRead ==
  ASSUME NEW r \in U16, NEW c \in U16
  PROVE  LET s == CSI \o Itoa(r) \o <<";">> \o Itoa(c) \o <<"R">>
         IN AtEnd(s, "public", <<r, c>>, "none", "R")
<1> DEFINE m == Saturated(r)
           n == Saturated(c)
           a == CSI \o Itoa(r)
           b == a \o <<";">>
           d == b \o Itoa(c)
           e == d \o <<"R">>
<1>0. r \in FiveDigits /\ c \in FiveDigits /\ Clamp(m) = r /\ Clamp(n) = c
  BY Fitting
<1>1. AtAmid(a, "public", <<>>, m, "none")
  BY <1>0, AtPublic
<1> HIDE DEF a, m, n
<1> DEFINE one == Append(<<>>, Clamp(m))
           two == Append(one, Clamp(n))
<1>2. Len(<<>>) < MaxParams /\ Len(one) < MaxParams
  BY <1>0, DecodeAssumption DEF DecodeAssumption
<1>3. AtFresh(b, "public", one, "none")
  BY Zenon, <1>1, <1>2, AtSemicolon
<1> HIDE DEF b, one
<1>4. AtAmid(d, "public", one, n, "none")
  BY <1>0, <1>3, AtNumber DEF n
<1> HIDE DEF d
<1>5. AtEnd(e, "public", two, "none", "R")
  BY <1>2, <1>4, AtFinal, FinalBytes
<1>6. two = <<r, c>>
  <2>1. one = <<r>>
    BY <1>0 DEF one
  <2>2. two = Append(<<r>>, c)
    BY <1>0, <2>1
  <2> HIDE DEF two
  <2>3. <<r, c>> = Append(<<r>>, c)
    OBVIOUS
  <2> QED BY Zenon, <2>2, <2>3
<1> QED BY Zenon, <1>5, <1>6 DEF a, b, d, e

(* So are the kitty flags, *)
LEMMA KittyRead ==
  ASSUME NEW f \in 0 .. 255
  PROVE  LET s == CSI \o <<"?">> \o Itoa(f) \o <<"u">>
         IN AtEnd(s, "private", <<f>>, "none", "u")
<1> DEFINE m == Saturated(f)
           a == CSI \o <<"?">>
           b == a \o Itoa(f)
           e == b \o <<"u">>
<1>0. f \in FiveDigits /\ Clamp(m) = f
  <2>1. f \in U16
    BY DEF U16, U16Max
  <2> QED BY SMTT(40), <2>1, Fitting
<1>1. AtFresh(a, "private", <<>>, "none")
  BY AtPrivate
<1> HIDE DEF a
<1>2. Len(<<>>) < MaxParams
  BY DecodeAssumption DEF DecodeAssumption
<1>3. AtAmid(b, "private", <<>>, m, "none")
  BY <1>0, <1>1, AtNumber
<1> HIDE DEF b, m
<1> DEFINE one == Append(<<>>, Clamp(m))
<1>4. AtEnd(e, "private", one, "none", "u")
  BY Zenon, <1>2, <1>3, AtFinal, FinalBytes
<1>5. one = <<f>>
  BY <1>0
<1> QED BY <1>4, <1>5 DEF a, b, e

(* Two bytes, one after the other. *)
LEMMA TwoBytes ==
  ASSUME NEW s, s \in Text, NEW a \in Byte, NEW b \in Byte
  PROVE  s \o <<a, b>> = (s \o <<a>>) \o <<b>>
<1> DEFINE x == <<a>>
           y == <<b>>
<1>1. x \in Seq(Byte) /\ y \in Seq(Byte) /\ s \in Seq(Byte)
  BY DEF Text
<1>2. x \o y = <<a, b>>
  <2>1. Append(x, b) = x \o <<b>>
    BY <1>1, AppendIsConcat
  <2>2. <<a, b>> = Append(<<a>>, b)
    OBVIOUS
  <2> QED BY Zenon, <2>1, <2>2
<1> HIDE DEF x, y
<1>3. (s \o x) \o y = s \o (x \o y)
  BY <1>1, ConcatAssociative
<1> QED BY Zenon, <1>2, <1>3 DEF x, y

(* and a mode report. *)
LEMMA DecrpmRead ==
  ASSUME NEW m \in U16, NEW d \in Digits
  PROVE  LET s == CSI \o <<"?">> \o Itoa(m) \o <<";">> \o <<d>> \o <<"$", "y">>
         IN AtEnd(s, "private", <<m, DigitValue[d]>>, "$", "y")
<1> DEFINE v == DigitValue[d]
           n == Saturated(m)
           a == CSI \o <<"?">>
           b == a \o Itoa(m)
           c == b \o <<";">>
           e == c \o <<d>>
           f == e \o <<"$">>
           g == f \o <<"y">>
<1>0. m \in FiveDigits /\ Clamp(n) = m
  BY Fitting
<1>1. AtFresh(a, "private", <<>>, "none")
  BY AtPrivate
<1> HIDE DEF a
<1>2. AtAmid(b, "private", <<>>, n, "none")
  BY <1>0, <1>1, AtNumber
<1> HIDE DEF b, n
<1> DEFINE one == Append(<<>>, Clamp(n))
           two == Append(one, Clamp(v))
<1>3. Len(<<>>) < MaxParams /\ Len(one) < MaxParams
  BY <1>0, DecodeAssumption DEF DecodeAssumption
<1>4. AtFresh(c, "private", one, "none")
  BY Zenon, <1>2, <1>3, AtSemicolon
<1> HIDE DEF c, one
<1>5. AtAmid(e, "private", one, v, "none")
  BY <1>4, AtDigit
<1>6. e \in Text /\ "$" \in Byte /\ "y" \in Byte
  <2>1. e \in Text
    BY <1>5 DEF AtAmid, At
  <2> QED BY <2>1 DEF Byte, Named
<1>7. Clamp(v) = v
  <2>1. v \in 0 .. 9
    BY DigitRange
  <2> HIDE DEF v
  <2> QED BY <2>1 DEF Clamp, U16Max
<1> HIDE DEF e, v
<1>8. AtFresh(f, "private", two, "$")
  BY <1>3, <1>5, AtDollar
<1> HIDE DEF f, two
<1>9. AtEnd(g, "private", two, "$", "y")
  BY <1>8, AtMarked, FinalBytes
<1>10. e \o <<"$", "y">> = g
  BY <1>6, TwoBytes DEF f, g
<1>11. two = <<m, v>>
  <2>1. one = <<m>>
    BY <1>0 DEF one
  <2>2. two = Append(<<m>>, v)
    BY <1>7, <2>1 DEF two
  <2>3. <<m, v>> = Append(<<m>>, v)
    OBVIOUS
  <2> QED BY Zenon, <2>2, <2>3
<1> HIDE DEF g
<1>12. AtEnd(e \o <<"$", "y">>, "private", <<m, v>>, "$", "y")
  BY Zenon, <1>9, <1>10, <1>11
<1> QED BY Zenon, <1>12 DEF a, b, c, e, v

-----------------------------------------------------------------------------
(* The answer to a DA1 query.                                               *)

Attribute(n) == n < Len(DeviceAttributes)

Numerals(n) == [i \in 1 .. n |-> Itoa(DeviceAttributes[i])]
Clamped(n) == [i \in 1 .. n |-> Clamp(DeviceAttributes[i])]

(* Texts one after the other. *)
LEMMA Associate ==
  ASSUME NEW a, a \in Text, NEW b, b \in Text, NEW c, c \in Text
  PROVE  (a \o b) \o c = a \o (b \o c)
BY ConcatAssociative DEF Text

(* Two texts, one after the other. *)
LEMMA Together ==
  ASSUME NEW a, a \in Text, NEW b, b \in Text
  PROVE  a \o b \in Text /\ Len(a \o b) = Len(a) + Len(b) /\ Len(a) \in Nat /\ Len(b) \in Nat
BY DEF Text

(* A text that is not empty has a length. *)
LEMMA Bulky == ASSUME NEW x, x \in Text, x # <<>> PROVE Len(x) \in Nat /\ Len(x) # 0
<1>1. x \in Seq(Byte)
  BY DEF Text
<1> QED BY <1>1

(* A sum is not zero when one of its terms is not. *)
LEMMA MoreThanNone == \A m, n \in Nat : n # 0 => m + n # 0
OBVIOUS

(* What itoa writes is a text, not empty. *)
LEMMA NumeralText ==
  ASSUME NEW n \in FiveDigits
  PROVE  Itoa(n) \in Text /\ Itoa(n) # <<>> /\ Len(Itoa(n)) \in Nat /\ Len(Itoa(n)) > 0
<1>1. /\ Itoa(n) \in Text /\ Len(Itoa(n)) \in Nat /\ Len(Itoa(n)) > 0
  BY MayStart, ScanNumber
<1>2. Itoa(n) # <<>>
  BY NumItoa
<1> QED BY <1>1, <1>2

(* The device attributes: one at least, as many as the parser takes at most. *)
LEMMA DeviceFacts ==
  /\ DeviceAttributes \in Seq(FiveDigits)
  /\ Len(DeviceAttributes) \in Nat /\ Len(DeviceAttributes) >= 1
  /\ Len(DeviceAttributes) <= MaxParams /\ MaxParams \in Nat
  /\ \A i \in 1 .. Len(DeviceAttributes) : DeviceAttributes[i] \in FiveDigits
<1>1. DeviceAttributes \in Seq(FiveDigits)
  BY CodecAssumption DEF CodecAssumption
<1>2. Len(DeviceAttributes) \in 1 .. MaxParams
  BY CodecAssumption DEF CodecAssumption
<1>3. MaxParams \in Nat
  BY DecodeAssumption DEF DecodeAssumption
<1>4. \A i \in 1 .. Len(DeviceAttributes) : DeviceAttributes[i] \in FiveDigits
  BY <1>1
<1>5. Len(DeviceAttributes) \in Nat /\ Len(DeviceAttributes) >= 1 /\ Len(DeviceAttributes) <= MaxParams
  BY <1>2, <1>3
<1> QED BY <1>1, <1>3, <1>4, <1>5

(* A list with one more element. *)
LEMMA OneMore ==
  ASSUME NEW n \in Nat, NEW f, NEW g, IsList(f), IsList(g), Len(f) = n, Len(g) = n + 1,
         \A i \in 1 .. n : f[i] = g[i]
  PROVE  g = Append(f, g[n + 1])
<1> DEFINE h == Append(f, g[n + 1])
<1>2. IsList(h) /\ Len(h) = n + 1 /\ h[n + 1] = g[n + 1] /\ \A i \in 1 .. n : h[i] = f[i]
  BY ListAppend
<1> HIDE DEF h
<1>3. ASSUME NEW i \in 1 .. n + 1 PROVE g[i] = h[i]
  <2>1. CASE i \in 1 .. n
    BY <1>2, <2>1
  <2>2. CASE i = n + 1
    BY <1>2, <2>2
  <2> QED BY <2>1, <2>2
<1>4. g = h
  BY <1>2, <1>3, SameList
<1> QED BY <1>4 DEF h

(* A byte is a text. *)
LEMMA OneByte == ASSUME NEW x \in Byte PROVE <<x>> \in Text /\ Len(<<x>>) = 1
BY DEF Text

(* The texts of two numbers, with a semicolon between them. *)
LEMMA BetweenTexts ==
  ASSUME NEW a, a \in Text, NEW j, j \in Text, NEW x, x \in Text, x # <<>>
  PROVE  LET w == j \o <<";">> \o x
         IN a \o w = ((a \o j) \o <<";">>) \o x /\ w \in Text /\ w # <<>>
<1> DEFINE semi == <<";">>
           v == j \o semi
           w == v \o x
<1>0. ";" \in Byte
  BY DEF Byte, Named
<1>1. semi \in Text
  BY Zenon, <1>0, OneByte
<1> HIDE DEF semi
<1>8. ASSUME NEW u, u \in Text PROVE (a \o u) \o x = a \o (u \o x)
  BY Associate
<1>4. v \in Text
  BY <1>1, Together
<1>3. a \o (v \o x) = ((a \o j) \o semi) \o x
  <2>1. (a \o j) \o semi = a \o v
    BY <1>1, Associate
  <2>2. (a \o v) \o x = a \o (v \o x)
    <3> HIDE DEF v
    <3> QED BY Zenon, <1>8, <1>4
  <2> QED BY <2>1, <2>2
<1>5. w \in Text /\ Len(w) = Len(v) + Len(x) /\ Len(v) \in Nat /\ Len(x) \in Nat
  <2> HIDE DEF v
  <2> QED BY <1>4, Together
<1>6. Len(x) # 0
  BY Bulky
<1>7. w # <<>>
  <2> DEFINE k == Len(w)
             m == Len(v)
             n == Len(x)
  <2>1. k = m + n /\ m \in Nat /\ n \in Nat /\ n # 0
    BY <1>5, <1>6
  <2>2. Len(<<>>) = 0
    OBVIOUS
  <2>3. k # 0
    <3> HIDE DEF k, m, n
    <3> QED BY <2>1, MoreThanNone
  <2> QED BY <2>2, <2>3
<1> QED BY Zenon, <1>3, <1>5, <1>7 DEF semi

(* The first attributes, written and clamped, are lists. *)
LEMMA NumeralsList == \A n \in Nat : IsList(Numerals(n)) /\ Len(Numerals(n)) = n
<1> SUFFICES ASSUME NEW n \in Nat PROVE IsList(Numerals(n)) /\ Len(Numerals(n)) = n
  OBVIOUS
<1> DEFINE f == Numerals(n)
<1>1. f = [i \in 1 .. n |-> f[i]]
  BY DEF Numerals
<1> HIDE DEF f
<1>2. IsList(f) /\ Size(f) = n
  BY <1>1, ListMade
<1> QED BY <1>2 DEF Size, f

(* The clamped ones. *)
LEMMA ClampedList == \A n \in Nat : IsList(Clamped(n)) /\ Len(Clamped(n)) = n
<1> SUFFICES ASSUME NEW n \in Nat PROVE IsList(Clamped(n)) /\ Len(Clamped(n)) = n
  OBVIOUS
<1> DEFINE f == Clamped(n)
<1>1. f = [i \in 1 .. n |-> f[i]]
  BY DEF Clamped
<1> HIDE DEF f
<1>2. IsList(f) /\ Size(f) = n
  BY <1>1, ListMade
<1> QED BY <1>2 DEF Size, f

(* One attribute more. *)
LEMMA NumeralsNext ==
  ASSUME NEW n \in Nat, Attribute(n)
  PROVE  LET x == Itoa(DeviceAttributes[n + 1])
         IN /\ Numerals(n) \in Seq(Text)
            /\ Numerals(n + 1) = Append(Numerals(n), x)
            /\ x \in Text /\ x # <<>>
            /\ Clamped(n + 1) = Append(Clamped(n), Clamp(DeviceAttributes[n + 1]))
<1> DEFINE D == DeviceAttributes
           x == Itoa(D[n + 1])
<1>1. \A i \in 1 .. n + 1 : D[i] \in FiveDigits
  BY DeviceFacts DEF Attribute
<1>2. \A i \in 1 .. n + 1 : Itoa(D[i]) \in Text
  BY <1>1, NumeralText
<1>3. x \in Text /\ x # <<>>
  <2>1. D[n + 1] \in FiveDigits
    BY <1>1
  <2> QED BY <2>1, NumeralText
<1>4. Numerals(n) \in Seq(Text)
  BY <1>2 DEF Numerals
<1>6. Numerals(n + 1) = Append(Numerals(n), x)
  <2> DEFINE f == Numerals(n)
             g == Numerals(n + 1)
  <2>1. (\A i \in 1 .. n : f[i] = g[i]) /\ g[n + 1] = x
    BY DEF Numerals
  <2>3. IsList(f) /\ Len(f) = n /\ IsList(g) /\ Len(g) = n + 1
    <3>1. n + 1 \in Nat
      OBVIOUS
    <3> QED BY <3>1, NumeralsList
  <2> HIDE DEF f, g
  <2>2. g = Append(f, g[n + 1])
    BY <2>1, <2>3, OneMore
  <2> QED BY <2>1, <2>2 DEF f, g
<1>7. Clamped(n + 1) = Append(Clamped(n), Clamp(DeviceAttributes[n + 1]))
  <2> DEFINE f == Clamped(n)
             g == Clamped(n + 1)
  <2>1. (\A i \in 1 .. n : f[i] = g[i]) /\ g[n + 1] = Clamp(DeviceAttributes[n + 1])
    BY DEF Clamped
  <2>3. IsList(f) /\ Len(f) = n /\ IsList(g) /\ Len(g) = n + 1
    <3>1. n + 1 \in Nat
      OBVIOUS
    <3> QED BY <3>1, ClampedList
  <2> HIDE DEF f, g
  <2>2. g = Append(f, g[n + 1])
    BY <2>1, <2>3, OneMore
  <2> QED BY <2>1, <2>2 DEF f, g
<1> QED BY <1>3, <1>4, <1>6, <1>7

(* A clamped number, whether it has been saturated first or not. *)
LEMMA ClampOnce == \A n \in FiveDigits : Clamp(Saturated(n)) = Clamp(n)
<1> SUFFICES ASSUME NEW n \in FiveDigits PROVE Clamp(Saturated(n)) = Clamp(n)
  OBVIOUS
<1>1. n \in Nat
  BY FiveNat
<1>2. 0 \in 0 .. 9
  OBVIOUS
<1> QED BY <1>1, <1>2, SaturatedOnce

(* The attributes are read up to any of them, by induction. *)
LEMMA Da1Params ==
  ASSUME NEW n \in Nat, Attribute(n)
  PROVE  LET s == CSI \o <<"?">> \o Join(Numerals(n + 1), ";")
         IN /\ AtAmid(s, "private", Clamped(n), Saturated(DeviceAttributes[n + 1]), "none")
            /\ Join(Numerals(n + 1), ";") \in Text /\ Join(Numerals(n + 1), ";") # <<>>
<1> DEFINE D == DeviceAttributes
           front == CSI \o <<"?">>
           J(k) == Join(Numerals(k), ";")
           Done(k) == /\ AtAmid(front \o J(k + 1), "private", Clamped(k), Saturated(D[k + 1]), "none")
                      /\ J(k + 1) \in Text /\ J(k + 1) # <<>>
           Q == {k \in Nat : Attribute(k) => Done(k)}
<1>0. ";" \in Byte
  BY DEF Byte, Named
<1>1. 0 \in Q
  <2> DEFINE x == Itoa(D[1])
  <2>1. Attribute(0) /\ D[1] \in FiveDigits
    BY DeviceFacts DEF Attribute
  <2>2. Numerals(0) = <<>> /\ Clamped(0) = <<>>
    BY DEF Numerals, Clamped
  <2>3. Numerals(1) = Append(<<>>, x) /\ x \in Text /\ x # <<>>
    <3>1. 0 \in Nat /\ 0 + 1 = 1
      OBVIOUS
    <3> QED BY Zenon, <2>1, <2>2, <3>1, NumeralsNext
  <2>4. J(1) = x
    <3>1. <<>> \in Seq(Text) /\ x \in Seq(Byte)
      BY <2>3 DEF Text
    <3> HIDE DEF x
    <3>2. Join(Append(<<>>, x), ";") = IF Join(<<>>, ";") = <<>> THEN x ELSE Join(<<>>, ";") \o <<";">> \o x
      BY Zenon, <1>0, <3>1, JoinAppend DEF Text
    <3> QED BY Zenon, <2>3, <3>2, JoinEmpty
  <2>5. AtFresh(front, "private", <<>>, "none")
    BY AtPrivate
  <2> HIDE DEF front
  <2>6. AtAmid(front \o x, "private", <<>>, Saturated(D[1]), "none")
    BY <2>1, <2>5, AtNumber
  <2> HIDE DEF x, J, D
  <2>7. Done(0)
    BY <2>2, <2>3, <2>4, <2>6
  <2> HIDE DEF Done
  <2> QED BY <2>7
<1>2. ASSUME NEW k \in Nat, k \in Q PROVE k + 1 \in Q
  <2> SUFFICES ASSUME Attribute(k + 1) PROVE Done(k + 1)
    <3> HIDE DEF Done
    <3> QED OBVIOUS
  <2> DEFINE m == k + 1
             x == Itoa(D[m + 1])
             t == front \o J(m)
             u == t \o <<";">>
  <2>0. m \in Nat /\ Attribute(m) /\ Attribute(k) /\ m >= 1
    BY DeviceFacts DEF Attribute
  <2>1. Done(k)
    BY Zenon, <1>2, <2>0
  <2>2. /\ AtAmid(t, "private", Clamped(k), Saturated(D[m]), "none")
        /\ J(m) \in Text /\ J(m) # <<>>
    BY Zenon, <2>1
  <2>3. /\ Numerals(m) \in Seq(Text) /\ Numerals(m + 1) = Append(Numerals(m), x)
        /\ x \in Text /\ x # <<>>
    <3> HIDE DEF m
    <3> QED BY <2>0, NumeralsNext
  <2>4. Clamped(m) = Append(Clamped(k), Clamp(D[m]))
    BY <2>0, NumeralsNext
  <2>5. D[m] \in FiveDigits /\ D[m + 1] \in FiveDigits
    <3> HIDE DEF m
    <3> QED BY <2>0, DeviceFacts DEF Attribute
  <2> HIDE DEF m, x
  <2>6. J(m + 1) = J(m) \o <<";">> \o x
    <3>1. x \in Seq(Byte) /\ Numerals(m) \in Seq(Seq(Byte))
      BY <2>3 DEF Text
    <3>2. Join(Append(Numerals(m), x), ";")
            = IF Join(Numerals(m), ";") = <<>> THEN x ELSE Join(Numerals(m), ";") \o <<";">> \o x
      BY Zenon, <1>0, <3>1, JoinAppend
    <3> QED BY Zenon, <2>2, <2>3, <3>2
  <2>7. AtFresh(u, "private", Clamped(m), "none")
    <3>1. Len(Clamped(k)) < MaxParams
      <4>1. Len(Clamped(k)) = k
        BY DEF Clamped
      <4> QED BY <2>0, <4>1, DeviceFacts DEF Attribute
    <3>2. AtFresh(u, "private", Append(Clamped(k), Clamp(Saturated(D[m]))), "none")
      <4> HIDE DEF t
      <4> QED BY Zenon, <2>2, <3>1, AtSemicolon
    <3> QED BY Zenon, <2>4, <2>5, <3>2, ClampOnce
  <2>8. AtAmid(u \o x, "private", Clamped(m), Saturated(D[m + 1]), "none")
    <3> HIDE DEF u
    <3> QED BY <2>5, <2>7, AtNumber DEF x
  <2>9. front \o J(m + 1) = u \o x /\ J(m + 1) \in Text /\ J(m + 1) # <<>>
    <3> DEFINE j == J(m)
               w == j \o <<";">> \o x
    <3>1. front \in Text
      BY AtPrivate DEF AtFresh, At
    <3>2. j \in Text /\ x \in Text /\ x # <<>>
      BY Zenon, <2>2, <2>3
    <3>3. front \o w = ((front \o j) \o <<";">>) \o x /\ w \in Text /\ w # <<>>
      <4> HIDE DEF j, front, u, x, J, t
      <4> QED BY Zenon, <3>1, <3>2, BetweenTexts
    <3>4. J(m + 1) = w /\ u = (front \o j) \o <<";">>
      <4> HIDE DEF front, x
      <4> QED BY Zenon, <2>6
    <3> HIDE DEF j, w, front, u, x, J, t
    <3> QED BY Zenon, <3>3, <3>4
  <2> HIDE DEF u, t, J, front, D
  <2>11. /\ AtAmid(front \o J(m + 1), "private", Clamped(m), Saturated(D[m + 1]), "none")
         /\ J(m + 1) \in Text /\ J(m + 1) # <<>>
    BY Zenon, <2>8, <2>9
  <2> QED BY <2>11 DEF m
<1>3. n \in Q
  <2>1. \A k \in Nat : k \in Q
    <3> HIDE DEF Q
    <3> QED BY <1>1, <1>2, NumbersInductive
  <2> QED BY Zenon, <2>1
<1>4. Done(n)
  BY Zenon, <1>3
<1> QED BY Zenon, <1>4

(* The device attributes are read to their end. *)
LEMMA Da1Read ==
  LET N == Len(DeviceAttributes)
      s == CSI \o <<"?">> \o Join(Numerals(N), ";") \o <<"c">>
  IN AtEnd(s, "private", Clamped(N), "none", "c")
<1> DEFINE D == DeviceAttributes
           N == Len(D)
           n == N - 1
           t == CSI \o <<"?">> \o Join(Numerals(N), ";")
           s == t \o <<"c">>
<1>0. n \in Nat /\ Attribute(n) /\ n + 1 = N /\ N \in Nat /\ N <= MaxParams /\ D[N] \in FiveDigits /\ MaxParams \in Nat
  BY DeviceFacts DEF Attribute
<1>1. AtAmid(t, "private", Clamped(n), Saturated(D[N]), "none")
  <2> HIDE DEF n
  <2>1. AtAmid(CSI \o <<"?">> \o Join(Numerals(n + 1), ";"), "private", Clamped(n), Saturated(D[n + 1]), "none")
    BY Zenon, <1>0, Da1Params
  <2> QED BY Zenon, <1>0, <2>1
<1>2. Clamped(N) = Append(Clamped(n), Clamp(D[N]))
  <2> HIDE DEF n
  <2>1. Clamped(n + 1) = Append(Clamped(n), Clamp(D[n + 1]))
    BY <1>0, NumeralsNext
  <2> QED BY <1>0, <2>1
<1>3. Len(Clamped(n)) < MaxParams
  <2> HIDE DEF n
  <2>1. Len(Clamped(n)) = n
    BY <1>0 DEF Clamped
  <2> QED BY <1>0, <2>1
<1>4. Clamp(Saturated(D[N])) = Clamp(D[N])
  BY <1>0, ClampOnce
<1> HIDE DEF t, n, N
<1>5. AtEnd(s, "private", Append(Clamped(n), Clamp(Saturated(D[N]))), "none", "c")
  BY <1>1, <1>3, AtFinal, FinalBytes
<1> QED BY Zenon, <1>2, <1>4, <1>5 DEF t, N

-----------------------------------------------------------------------------
(* Base64: what write_base64 writes, Osc52ReadResponse reads.               *)

(* Two lists in turn, at each place. *)
InTurn(s, t, q) ==
  /\ IsList(q) /\ Len(s) \in Nat /\ Len(t) \in Nat /\ Len(q) = Len(s) + Len(t)
  /\ \A i \in 1 .. Len(s) : q[i] = s[i]
  /\ \A i \in 1 .. Len(t) : q[Len(s) + i] = t[i]

(* \o joins two lists. *)
LEMMA ListsJoined == ASSUME NEW s, IsList(s), NEW t, IsList(t) PROVE InTurn(s, t, s \o t)
<1> DEFINE E == Range(s) \cup Range(t)
<1>1. s \in Seq(E) /\ t \in Seq(E)
  BY ListTyped
<1> HIDE DEF E
<1>2. /\ s \o t \in Seq(E) /\ Len(s) \in Nat /\ Len(t) \in Nat /\ Len(s \o t) = Len(s) + Len(t)
      /\ \A i \in 1 .. Len(s) : (s \o t)[i] = s[i]
      /\ \A i \in 1 .. Len(t) : (s \o t)[Len(s) + i] = t[i]
  BY <1>1
<1> QED BY Zenon, <1>2, ListIn DEF InTurn

(* Three. *)
AllInTurn(r, s, t, q) ==
  /\ IsList(q) /\ Len(q) = Len(r) + Len(s) + Len(t)
  /\ \A i \in 1 .. Len(r) : q[i] = r[i]
  /\ \A i \in 1 .. Len(s) : q[Len(r) + i] = s[i]
  /\ \A i \in 1 .. Len(t) : q[Len(r) + Len(s) + i] = t[i]

(* Three lists, joined. *)
LEMMA ThreeJoined ==
  ASSUME NEW r, IsList(r), NEW s, IsList(s), NEW t, IsList(t)
  PROVE  AllInTurn(r, s, t, (r \o s) \o t)
<1> DEFINE w == r \o s
           q == w \o t
<1>0. InTurn(r, s, w)
  BY ListsJoined
<1> HIDE DEF w
<1>1. /\ IsList(w) /\ Len(r) \in Nat /\ Len(s) \in Nat /\ Len(w) = Len(r) + Len(s)
      /\ \A i \in 1 .. Len(r) : w[i] = r[i]
      /\ \A i \in 1 .. Len(s) : w[Len(r) + i] = s[i]
  BY <1>0 DEF InTurn
<1>7. InTurn(w, t, q)
  BY <1>1, ListsJoined
<1> HIDE DEF q
<1>2. /\ IsList(q) /\ Len(w) \in Nat /\ Len(t) \in Nat /\ Len(q) = Len(w) + Len(t)
      /\ \A i \in 1 .. Len(w) : q[i] = w[i]
      /\ \A i \in 1 .. Len(t) : q[Len(w) + i] = t[i]
  BY <1>7 DEF InTurn
<1>3. ASSUME NEW i \in 1 .. Len(r) PROVE q[i] = r[i]
  <2>1. i \in 1 .. Len(w)
    BY <1>1
  <2> QED BY <1>1, <1>2, <2>1
<1>4. ASSUME NEW i \in 1 .. Len(s) PROVE q[Len(r) + i] = s[i]
  <2>1. Len(r) + i \in 1 .. Len(w)
    BY <1>1
  <2> QED BY <1>1, <1>2, <2>1
<1>5. \A i \in 1 .. Len(t) : q[Len(r) + Len(s) + i] = t[i]
  BY <1>1, <1>2
<1>6. Len(q) = Len(r) + Len(s) + Len(t)
  BY <1>1, <1>2
<1> HIDE DEF q
<1>8. AllInTurn(r, s, t, q)
  BY Zenon, <1>2, <1>3, <1>4, <1>5, <1>6 DEF AllInTurn
<1> QED BY <1>8 DEF q, w

Letters64 ==
  <<"A", "B", "C", "D", "E", "F", "G", "H", "I", "J", "K", "L", "M",
    "N", "O", "P", "Q", "R", "S", "T", "U", "V", "W", "X", "Y", "Z",
    "a", "b", "c", "d", "e", "f", "g", "h", "i", "j", "k", "l", "m",
    "n", "o", "p", "q", "r", "s", "t", "u", "v", "w", "x", "y", "z",
    "0", "1", "2", "3", "4", "5", "6", "7", "8", "9", "+", "/">>

(* The 64 letters are different, and none of them ends or pads a payload.   *)
LEMMA LettersDiffer ==
  /\ IsList(Letters64) /\ Len(Letters64) = 64
  /\ \A i, j \in 1 .. 64 : Letters64[i] = Letters64[j] => i = j
  /\ \A i \in 1 .. 64 : Letters64[i] \notin {"=", "?", BEL, ESC}
<1>1. Letters64 = [i \in 1 .. 64 |-> Letters64[i]]
  BY DEF Letters64
<1>2. IsList(Letters64) /\ Len(Letters64) = 64
  BY Zenon, <1>1, ListMade DEF Size
<1>3. \A i, j \in 1 .. 64 : Letters64[i] = Letters64[j] => i = j
  BY DEF Letters64
<1>4. \A i \in 1 .. 64 : Letters64[i] \notin {"=", "?", BEL, ESC}
  BY DEF Letters64, BEL, ESC
<1> QED BY Zenon, <1>2, <1>3, <1>4

(* The alphabet of base64, letter by letter. *)
LEMMA AlphabetIs == Base64Alphabet = Letters64
<1> DEFINE letters ==
             <<"A", "B", "C", "D", "E", "F", "G", "H", "I", "J", "K", "L", "M",
               "N", "O", "P", "Q", "R", "S", "T", "U", "V", "W", "X", "Y", "Z",
               "a", "b", "c", "d", "e", "f", "g", "h", "i", "j", "k", "l", "m",
               "n", "o", "p", "q", "r", "s", "t", "u", "v", "w", "x", "y", "z">>
           signs == <<"+", "/">>
           all == letters \o DigitBytes \o signs
<1>1. all = Base64Alphabet
  BY DEF Base64Alphabet
<1>2. IsList(letters) /\ Len(letters) = 52 /\ \A i \in 1 .. 52 : letters[i] = Letters64[i]
  <2>1. letters = [i \in 1 .. 52 |-> letters[i]]
    OBVIOUS
  <2>2. \A i \in 1 .. 52 : letters[i] = Letters64[i]
    BY DEF Letters64
  <2> HIDE DEF letters
  <2>3. IsList(letters) /\ Len(letters) = 52
    BY Zenon, <2>1, ListMade DEF Size
  <2> QED BY <2>2, <2>3
<1>3. IsList(DigitBytes) /\ Len(DigitBytes) = 10 /\ \A i \in 1 .. 10 : DigitBytes[i] = Letters64[52 + i]
  <2>1. DigitBytes = [i \in 1 .. 10 |-> DigitBytes[i]]
    BY DEF DigitBytes
  <2>2. \A i \in 1 .. 10 : DigitBytes[i] = Letters64[52 + i]
    BY DEF Letters64, DigitBytes
  <2>3. IsList(DigitBytes) /\ Len(DigitBytes) = 10
    BY Zenon, <2>1, ListMade DEF Size
  <2> QED BY <2>2, <2>3
<1>4. IsList(signs) /\ Len(signs) = 2 /\ \A i \in 1 .. 2 : signs[i] = Letters64[62 + i]
  <2>1. IsList(signs) /\ Len(signs) = 2
    BY ListLiteral DEF Literals, Size
  <2>2. \A i \in 1 .. 2 : signs[i] = Letters64[62 + i]
    BY DEF Letters64
  <2> QED BY <2>1, <2>2
<1> HIDE DEF letters, signs
<1>5. IsList(letters) /\ IsList(DigitBytes) /\ IsList(signs)
  BY <1>2, <1>3, <1>4
<1>0. AllInTurn(letters, DigitBytes, signs, (letters \o DigitBytes) \o signs)
  BY <1>5, ThreeJoined
<1>6. /\ IsList(all)
      /\ Len(all) = Len(letters) + Len(DigitBytes) + Len(signs)
      /\ \A i \in 1 .. Len(letters) : all[i] = letters[i]
      /\ \A i \in 1 .. Len(DigitBytes) : all[Len(letters) + i] = DigitBytes[i]
      /\ \A i \in 1 .. Len(signs) : all[Len(letters) + Len(DigitBytes) + i] = signs[i]
  <2> HIDE DEF all
  <2>1. AllInTurn(letters, DigitBytes, signs, all)
    BY <1>0 DEF all
  <2> QED BY <2>1 DEF AllInTurn
<1> HIDE DEF all
<1>7. /\ Len(all) = 64
      /\ \A i \in 1 .. 52 : all[i] = letters[i]
      /\ \A i \in 1 .. 10 : all[52 + i] = DigitBytes[i]
      /\ \A i \in 1 .. 2 : all[62 + i] = signs[i]
  BY <1>2, <1>3, <1>4, <1>6
<1>8. ASSUME NEW i \in 1 .. 64 PROVE all[i] = Letters64[i]
  <2>1. CASE i \in 1 .. 52
    BY <1>2, <1>7, <2>1
  <2>2. CASE i \in 53 .. 62
    <3> DEFINE j == i - 52
    <3>1. j \in 1 .. 10 /\ 52 + j = i
      BY <2>2
    <3> HIDE DEF j
    <3> QED BY <1>3, <1>7, <3>1
  <2>3. CASE i \in 63 .. 64
    <3> DEFINE j == i - 62
    <3>1. j \in 1 .. 2 /\ 62 + j = i
      BY <2>3
    <3> HIDE DEF j
    <3> QED BY <1>4, <1>7, <3>1
  <2> QED BY <2>1, <2>2, <2>3
<1>9. all = Letters64
  BY Zenon, <1>6, <1>7, <1>8, LettersDiffer, SameList
<1> QED BY <1>1, <1>9

(* Six bits, written and read. *)
LEMMA SixBack ==
  \A v \in 0 .. 63 :
    LET c == Base64Alphabet[v + 1]
    IN /\ c \in DOMAIN Base64Value /\ Base64Value[c] = v
       /\ c \notin {"=", "?", BEL, ESC} /\ c \in Byte
<1> SUFFICES ASSUME NEW v \in 0 .. 63
             PROVE  LET c == Base64Alphabet[v + 1]
                    IN /\ c \in DOMAIN Base64Value /\ Base64Value[c] = v
                       /\ c \notin {"=", "?", BEL, ESC} /\ c \in Byte
  OBVIOUS
<1> DEFINE A == Base64Alphabet
           m == v + 1
           c == A[m]
<1>1. /\ IsList(A) /\ Len(A) = 64
      /\ \A i, j \in 1 .. 64 : A[i] = A[j] => i = j
      /\ \A i \in 1 .. 64 : A[i] \notin {"=", "?", BEL, ESC}
  BY Zenon, AlphabetIs, LettersDiffer
<1>2. m \in 1 .. 64 /\ m - 1 = v
  OBVIOUS
<1>3. c \in ToSet(A)
  <2>1. DOMAIN A = 1 .. 64
    BY <1>1 DEF IsList
  <2> QED BY <1>2, <2>1 DEF ToSet
<1> HIDE DEF m
<1>4. (CHOOSE i \in 1 .. 64 : A[i] = c) = m
  BY <1>1, <1>2
<1>5. c \in DOMAIN Base64Value /\ Base64Value[c] = m - 1
  BY SMTT(40), <1>3, <1>4 DEF Base64Value
<1>6. c \in Byte
  BY <1>3 DEF Byte
<1>7. c \notin {"=", "?", BEL, ESC}
  BY <1>1, <1>2
<1> QED BY <1>2, <1>5, <1>6, <1>7 DEF m

(* Three octets as four times six bits, and back. *)
Packed(a, b, c) == a * 65536 + b * 256 + c

(* Three octets packed in a number, and taken from it again. *)
LEMMA PackedParts ==
  ASSUME NEW a \in Octet, NEW b \in Octet, NEW c \in Octet
  PROVE  LET n == Packed(a, b, c)
         IN /\ n \in Nat /\ n < 16777216
            /\ n \div 65536 = a /\ (n \div 256) % 256 = b /\ n % 256 = c
            /\ c = 0 => n % 64 = 0
            /\ b = 0 /\ c = 0 => (n \div 64) % 64 = 0
<1> DEFINE m == a * 256 + b
           n == m * 256 + c
<1>1. a \in Nat /\ b \in Nat /\ c \in Nat /\ a <= 255 /\ b <= 255 /\ c <= 255
  BY DEF Octet
<1>2. m \in Nat /\ m <= 65535 /\ m \div 256 = a /\ m % 256 = b
  BY <1>1
<1> HIDE DEF m
<1>3. n \in Nat /\ n < 16777216 /\ n \div 256 = m /\ n % 256 = c /\ n \div 65536 = m \div 256
  BY <1>1, <1>2
<1>4. n = Packed(a, b, c)
  BY <1>1 DEF Packed, m
<1>5. c = 0 => n % 64 = 0
  BY <1>2
<1>6. b = 0 /\ c = 0 => (n \div 64) % 64 = 0
  <2> SUFFICES ASSUME b = 0, c = 0 PROVE (n \div 64) % 64 = 0
    OBVIOUS
  <2>1. n = a * 65536
    BY <1>1, <1>4 DEF Packed
  <2> HIDE DEF n
  <2>2. n \div 64 = a * 1024
    BY <1>1, <2>1
  <2>3. (a * 1024) % 64 = 0
    BY <1>1
  <2> QED BY <2>2, <2>3
<1> HIDE DEF n
<1> QED BY <1>2, <1>3, <1>4, <1>5, <1>6

(* A number of 24 bits is its four sextets. *)
LEMMA Unpacked ==
  ASSUME NEW n \in Nat, n < 16777216
  PROVE  /\ Word((n \div 262144) % 64, (n \div 4096) % 64, (n \div 64) % 64, n % 64) = n
         /\ (n \div 262144) % 64 \in 0 .. 63 /\ (n \div 4096) % 64 \in 0 .. 63
         /\ (n \div 64) % 64 \in 0 .. 63 /\ n % 64 \in 0 .. 63
<1> DEFINE d == n % 64
           x == n \div 64
           c == x % 64
           y == x \div 64
           b == y % 64
           z == y \div 64
           a == z % 64
<1>1. n = x * 64 + d /\ x \in Nat /\ d \in 0 .. 63 /\ x < 262144
  OBVIOUS
<1>2. n \div 4096 = x \div 64 /\ n \div 262144 = x \div 4096
  OBVIOUS
<1> HIDE DEF x, d
<1>3. x = y * 64 + c /\ y \in Nat /\ c \in 0 .. 63 /\ y < 4096
  BY <1>1
<1>4. x \div 4096 = y \div 64
  BY <1>1
<1> HIDE DEF y, c
<1>5. y = z * 64 + b /\ z \in Nat /\ b \in 0 .. 63 /\ z < 64
  BY <1>3
<1> HIDE DEF z, b
<1>6. a = z /\ a \in 0 .. 63
  BY <1>5
<1> HIDE DEF a
<1>7. Word(a, b, c, d) = n
  BY <1>1, <1>3, <1>5, <1>6 DEF Word
<1> QED BY <1>1, <1>2, <1>3, <1>4, <1>5, <1>6, <1>7 DEF a, b, c, d, x, y, z

(* The sextets of a chunk. *)
LEMMA QuartetIs ==
  ASSUME NEW t, t \in Seq(Octet), Len(t) \in 1 .. 3,
         NEW n, n = Packed(t[1], IF 2 <= Len(t) THEN t[2] ELSE 0, IF 3 <= Len(t) THEN t[3] ELSE 0)
  PROVE  LET q == Quartet(t)
         IN /\ q = [i \in 1 .. 4 |-> q[i]]
            /\ n \in Nat /\ n < 16777216
            /\ q[1] = Base64Alphabet[((n \div 262144) % 64) + 1]
            /\ q[2] = Base64Alphabet[((n \div 4096) % 64) + 1]
            /\ q[3] = IF Len(t) = 1 THEN "=" ELSE Base64Alphabet[((n \div 64) % 64) + 1]
            /\ q[4] = IF Len(t) # 3 THEN "=" ELSE Base64Alphabet[(n % 64) + 1]
<1> DEFINE k == Len(t)
           byte(i) == IF i <= k THEN t[i] ELSE 0
           m == byte(1) * 65536 + byte(2) * 256 + byte(3)
           A == Base64Alphabet
           p(i) == 64 ^ i
           sextet(i) == A[((m \div p(4 - i)) % 64) + 1]
           q == Quartet(t)
<1>1. k = 1 \/ k = 2 \/ k = 3
  OBVIOUS
<1>2. m = n
  <2>1. 1 <= k
    BY <1>1
  <2> QED BY <2>1 DEF Packed
<1>3. q = [i \in 1 .. 4 |-> IF i <= k + 1 THEN sextet(i) ELSE "="]
  BY DEF Quartet
<1>4. p(0) = 1 /\ p(1) = 64 /\ p(2) = 4096 /\ p(3) = 262144
  <2>1. 64 ^ 0 = 1 /\ 64 ^ 1 = 64 /\ 64 ^ 2 = 4096 /\ 64 ^ 3 = 262144
    OBVIOUS
  <2> QED BY <2>1
<1>5. n \in Nat /\ n < 16777216
  <2> DEFINE a == t[1]
             b == IF 2 <= k THEN t[2] ELSE 0
             c == IF 3 <= k THEN t[3] ELSE 0
  <2>1. a \in Octet /\ b \in Octet /\ c \in Octet
    <3>1. 0 \in Octet
      BY DEF Octet
    <3>2. \A i \in 1 .. k : t[i] \in Octet
      OBVIOUS
    <3> HIDE DEF k
    <3> QED BY <1>1, <3>1, <3>2
  <2> HIDE DEF a, b, c
  <2>2. Packed(a, b, c) \in Nat /\ Packed(a, b, c) < 16777216
    BY <2>1, PackedParts
  <2> QED BY <2>2 DEF a, b, c
<1> HIDE DEF k, p, m, A
<1>6. n \div 1 = n
  BY <1>5
<1>7. /\ q[1] = IF 1 <= k + 1 THEN A[((m \div p(3)) % 64) + 1] ELSE "="
      /\ q[2] = IF 2 <= k + 1 THEN A[((m \div p(2)) % 64) + 1] ELSE "="
      /\ q[3] = IF 3 <= k + 1 THEN A[((m \div p(1)) % 64) + 1] ELSE "="
      /\ q[4] = IF 4 <= k + 1 THEN A[((m \div p(0)) % 64) + 1] ELSE "="
  BY <1>3
<1>8. q = [i \in 1 .. 4 |-> q[i]]
  BY <1>3
<1>9. /\ 1 <= k + 1 /\ 2 <= k + 1 /\ (3 <= k + 1 <=> k # 1) /\ (4 <= k + 1 <=> k = 3)
  BY <1>1
<1> HIDE DEF q
<1>10. /\ q[1] = A[((n \div 262144) % 64) + 1]
       /\ q[2] = A[((n \div 4096) % 64) + 1]
       /\ q[3] = IF k = 1 THEN "=" ELSE A[((n \div 64) % 64) + 1]
       /\ q[4] = IF k # 3 THEN "=" ELSE A[(n % 64) + 1]
  BY <1>2, <1>4, <1>6, <1>7, <1>9
<1> QED BY <1>5, <1>8, <1>10 DEF q, k, A

(* What a payload is written with. *)
PayloadBytes == Byte \ {BEL, ESC, "?"}

Pad(x) == IF x = "=" THEN 0 ELSE Base64Value[x]

(* One byte of a quartet: six bits, or padding that stands for none. *)
Sixth(x, v, gone) ==
  /\ v \in 0 .. 63
  /\ x = IF gone = "gone" THEN "=" ELSE Base64Alphabet[v + 1]
  /\ gone = "gone" => v = 0

(* What a byte of a quartet stands for. *)
LEMMA SixthFacts ==
  ASSUME NEW x, NEW v, NEW gone, Sixth(x, v, gone)
  PROVE  /\ Pad(x) = v /\ x \in PayloadBytes /\ (x = "=" <=> gone = "gone")
         /\ x = "=" \/ x \in DOMAIN Base64Value
<1>1. CASE gone = "gone"
  <2>1. x = "=" /\ v = 0
    BY <1>1 DEF Sixth
  <2>2. "=" \in PayloadBytes
    BY DEF PayloadBytes, Byte, Named, BEL, ESC
  <2> QED BY <1>1, <2>1, <2>2 DEF Pad
<1>2. CASE gone # "gone"
  <2>1. x = Base64Alphabet[v + 1] /\ v \in 0 .. 63
    BY <1>2 DEF Sixth
  <2>2. x \in DOMAIN Base64Value /\ Base64Value[x] = v /\ x \notin {"=", "?", BEL, ESC} /\ x \in Byte
    BY <2>1, SixBack
  <2> QED BY <1>2, <2>2 DEF Pad, PayloadBytes
<1> QED BY <1>1, <1>2

Gone(k, i) == IF i <= k + 1 THEN "there" ELSE "gone"

(* A slice of three from its front. *)
LEMMA FrontOfThree ==
  ASSUME NEW a, NEW b, NEW c, NEW k \in 1 .. 3
  PROVE  LET s == SubSeq(<<a, b, c>>, 1, k)
         IN IsList(s) /\ Len(s) = k /\ s[1] = a /\ (k >= 2 => s[2] = b) /\ (k = 3 => s[3] = c)
<1> DEFINE t == <<a, b, c>>
           m == 1
           s == SubSeq(t, m, k)
<1>1. IsList(t) /\ Len(t) = 3 /\ t[1] = a /\ t[2] = b /\ t[3] = c
  BY ListLiteral DEF Literals, Size
<1>2. m \in Nat \ {0} /\ k \in Nat /\ k <= 3 /\ m <= k /\ k - m + 1 = k /\ \A i \in 1 .. k : m + i - 1 = i
  OBVIOUS
<1> HIDE DEF t, m
<1>6. k \in Nat /\ k <= Len(t) /\ m \in Nat \ {0} /\ IsList(t)
  BY <1>1, <1>2
<1>3. /\ IsList(s) /\ Len(s) = (IF m <= k THEN k - m + 1 ELSE 0)
      /\ \A i \in 1 .. k - m + 1 : s[i] = t[m + i - 1]
  BY Zenon, <1>6, Slice
<1> HIDE DEF s
<1>4. \A i \in 1 .. k : s[i] = t[i]
  BY Zenon, <1>2, <1>3
<1>5. s[1] = a /\ (k >= 2 => s[2] = b) /\ (k = 3 => s[3] = c)
  BY <1>1, <1>4
<1> QED BY <1>2, <1>3, <1>5 DEF s, t, m

(* A quartet stands for the chunk it was written from. *)
LEMMA QuartetBack ==
  ASSUME NEW t, t \in Seq(Octet), Len(t) \in 1 .. 3, NEW last, Len(t) # 3 => last
  PROVE  LET q == Quartet(t)
         IN /\ q = [i \in 1 .. 4 |-> q[i]]
            /\ QuartetValid(q, last) /\ QuartetBytes(q) = t
            /\ \A i \in 1 .. 4 : q[i] \in PayloadBytes
<1> DEFINE q == Quartet(t)
           k == Len(t)
           a == t[1]
           b == IF 2 <= k THEN t[2] ELSE 0
           c == IF 3 <= k THEN t[3] ELSE 0
           n == Packed(a, b, c)
           s1 == (n \div 262144) % 64
           s2 == (n \div 4096) % 64
           s3 == (n \div 64) % 64
           s4 == n % 64
<1>1. k = 1 \/ k = 2 \/ k = 3
  OBVIOUS
<1>2. a \in Octet /\ b \in Octet /\ c \in Octet
  <2>1. 0 \in Octet
    BY DEF Octet
  <2>2. \A i \in 1 .. k : t[i] \in Octet
    OBVIOUS
  <2> HIDE DEF k
  <2> QED BY <1>1, <2>1, <2>2
<1>3. (k = 1 => b = 0 /\ c = 0) /\ (k = 2 => c = 0) /\ (k >= 2 => b = t[2]) /\ (k = 3 => c = t[3])
  OBVIOUS
<1>4. /\ q = [i \in 1 .. 4 |-> q[i]] /\ n \in Nat /\ n < 16777216
      /\ q[1] = Base64Alphabet[s1 + 1]
      /\ q[2] = Base64Alphabet[s2 + 1]
      /\ q[3] = IF k = 1 THEN "=" ELSE Base64Alphabet[s3 + 1]
      /\ q[4] = IF k # 3 THEN "=" ELSE Base64Alphabet[s4 + 1]
  BY QuartetIs
<1> HIDE DEF q, k, b, c
<1>5. /\ n \div 65536 = a /\ (n \div 256) % 256 = b /\ n % 256 = c
      /\ c = 0 => n % 64 = 0
      /\ b = 0 /\ c = 0 => (n \div 64) % 64 = 0
  <2> HIDE DEF a
  <2> QED BY <1>2, PackedParts
<1> HIDE DEF n
<1>6. /\ Word(s1, s2, s3, s4) = n
      /\ s1 \in 0 .. 63 /\ s2 \in 0 .. 63 /\ s3 \in 0 .. 63 /\ s4 \in 0 .. 63
  BY <1>4, Unpacked
<1>7. (k = 1 => s3 = 0 /\ s4 = 0) /\ (k = 2 => s4 = 0)
  BY <1>3, <1>5
<1> HIDE DEF s1, s2, s3, s4, a
<1>8. /\ Sixth(q[1], s1, "there") /\ Sixth(q[2], s2, "there")
      /\ Sixth(q[3], s3, Gone(k, 3)) /\ Sixth(q[4], s4, Gone(k, 4))
  <2>1. (Gone(k, 3) = "gone" <=> k = 1) /\ (Gone(k, 4) = "gone" <=> k # 3)
    BY <1>1 DEF Gone
  <2> QED BY <1>1, <1>4, <1>6, <1>7, <2>1 DEF Sixth
<1>9. /\ Pad(q[1]) = s1 /\ Pad(q[2]) = s2 /\ Pad(q[3]) = s3 /\ Pad(q[4]) = s4
      /\ q[1] # "=" /\ q[2] # "=" /\ (q[3] = "=" <=> Gone(k, 3) = "gone")
      /\ (q[4] = "=" <=> Gone(k, 4) = "gone")
      /\ \A i \in 1 .. 4 : q[i] \in PayloadBytes /\ (q[i] = "=" \/ q[i] \in DOMAIN Base64Value)
  <2>1. /\ Pad(q[1]) = s1 /\ q[1] \in PayloadBytes /\ q[1] # "="
        /\ (q[1] = "=" \/ q[1] \in DOMAIN Base64Value)
    BY <1>8, SixthFacts
  <2>2. /\ Pad(q[2]) = s2 /\ q[2] \in PayloadBytes /\ q[2] # "="
        /\ (q[2] = "=" \/ q[2] \in DOMAIN Base64Value)
    BY <1>8, SixthFacts
  <2>3. /\ Pad(q[3]) = s3 /\ q[3] \in PayloadBytes /\ (q[3] = "=" <=> Gone(k, 3) = "gone")
        /\ (q[3] = "=" \/ q[3] \in DOMAIN Base64Value)
    BY <1>8, SixthFacts
  <2>4. /\ Pad(q[4]) = s4 /\ q[4] \in PayloadBytes /\ (q[4] = "=" <=> Gone(k, 4) = "gone")
        /\ (q[4] = "=" \/ q[4] \in DOMAIN Base64Value)
    BY <1>8, SixthFacts
  <2>5. \A i \in 1 .. 4 : i = 1 \/ i = 2 \/ i = 3 \/ i = 4
    OBVIOUS
  <2> QED BY <2>1, <2>2, <2>3, <2>4, <2>5
<1>10. (q[3] = "=" <=> k = 1) /\ (q[4] = "=" <=> k # 3)
  BY <1>1, <1>9 DEF Gone
<1>11. QuartetValid(q, last)
  <2>1. k # 3 => last
    BY DEF k
  <2>2. /\ q[3] = "=" => q[4] = "="
        /\ q[3] = "=" \/ q[4] = "=" => last
    BY <1>1, <1>10, <2>1
  <2> QED BY <1>9, <2>2 DEF QuartetValid
<1>12. QuartetBytes(q) = SubSeq(<<a, b, c>>, 1, k)
  <2> DEFINE v == [i \in 1 .. 4 |-> IF q[i] = "=" THEN 0 ELSE Base64Value[q[i]]]
             w == Word(v[1], v[2], v[3], v[4])
  <2>1. v[1] = s1 /\ v[2] = s2 /\ v[3] = s3 /\ v[4] = s4
    BY <1>9 DEF Pad
  <2>2. QuartetBytes(q) = SubSeq(<<w \div 65536, (w \div 256) % 256, w % 256>>, 1,
                                 IF q[3] = "=" THEN 1 ELSE IF q[4] = "=" THEN 2 ELSE 3)
    BY DEF QuartetBytes, Word
  <2>3. w = n
    <3> HIDE DEF v
    <3> QED BY <1>6, <2>1
  <2>4. k = IF q[3] = "=" THEN 1 ELSE IF q[4] = "=" THEN 2 ELSE 3
    BY <1>1, <1>10
  <2> HIDE DEF w
  <2> QED BY <1>5, <2>2, <2>3, <2>4
<1>13. SubSeq(<<a, b, c>>, 1, k) = t
  <2> DEFINE s == SubSeq(<<a, b, c>>, 1, k)
  <2>1. IsList(s) /\ Len(s) = k /\ s[1] = a /\ (k >= 2 => s[2] = b) /\ (k = 3 => s[3] = c)
    <3>1. k \in 1 .. 3
      BY <1>1
    <3> QED BY <3>1, FrontOfThree
  <2> HIDE DEF s
  <2>2. s[1] = t[1] /\ (k >= 2 => s[2] = t[2]) /\ (k = 3 => s[3] = t[3])
    BY <1>1, <1>3, <2>1 DEF a
  <2>3. \A i \in 1 .. k : s[i] = t[i]
    <3>1. \A i \in 1 .. k : i = 1 \/ (i = 2 /\ k >= 2) \/ (i = 3 /\ k = 3)
      BY <1>1
    <3> QED BY <2>2, <3>1
  <2>4. IsList(t) /\ Len(t) = k
    BY ListIn DEF k
  <2>5. s = t
    BY <2>1, <2>3, <2>4, SameList
  <2> QED BY <2>5 DEF s
<1>14. QuartetBytes(q) = t
  BY <1>12, <1>13
<1>15. q = [i \in 1 .. 4 |-> q[i]] /\ \A i \in 1 .. 4 : q[i] \in PayloadBytes
  BY <1>4, <1>9
<1>16. Quartet(t) = q
  BY DEF q
<1> HIDE DEF q
<1> QED BY <1>11, <1>14, <1>15, <1>16

(* Where the pieces of a flattened list are. *)
Place(F, m, h, piece) ==
  /\ m[h - 1] \in Nat /\ m[h] = m[h - 1] + Len(piece) /\ Len(piece) \in Nat /\ m[h] <= Len(F)
  /\ \A j \in 1 .. Len(piece) : F[m[h - 1] + j] = piece[j]

Placed(F, s, m, i) == IsList(F) /\ Len(F) = m[i] /\ \A h \in 1 .. i : Place(F, m, h, s[h])

(* A piece keeps its place when more is added. *)
LEMMA PlaceStays ==
  ASSUME NEW F, NEW t, NEW q, InTurn(F, t, q), NEW m, NEW h, NEW piece, Place(F, m, h, piece)
  PROVE  Place(q, m, h, piece)
<1>1. /\ Len(F) \in Nat /\ Len(t) \in Nat /\ Len(q) = Len(F) + Len(t)
      /\ \A i \in 1 .. Len(F) : q[i] = F[i]
  BY DEF InTurn
<1>2. /\ m[h - 1] \in Nat /\ m[h] = m[h - 1] + Len(piece) /\ Len(piece) \in Nat /\ m[h] <= Len(F)
      /\ \A j \in 1 .. Len(piece) : F[m[h - 1] + j] = piece[j]
  BY DEF Place
<1>3. ASSUME NEW j \in 1 .. Len(piece) PROVE q[m[h - 1] + j] = piece[j]
  <2>1. m[h - 1] + j \in 1 .. Len(F)
    BY <1>1, <1>2
  <2> QED BY Zenon, <1>1, <1>2, <2>1
<1>4. m[h] <= Len(q)
  BY <1>1, <1>2
<1> QED BY <1>2, <1>3, <1>4 DEF Place

(* One piece more. *)
LEMMA PlacedNext ==
  ASSUME NEW s, NEW m, NEW i \in Nat, NEW F, Placed(F, s, m, i), IsList(s[i + 1]),
         m[i + 1] = m[i] + Len(s[i + 1])
  PROVE  Placed(F \o s[i + 1], s, m, i + 1)
<1> DEFINE t == s[i + 1]
           q == F \o t
           k == i + 1
<1>1. IsList(F) /\ Len(F) = m[i] /\ \A h \in 1 .. i : Place(F, m, h, s[h])
  BY DEF Placed
<1>2. IsList(t) /\ m[k] = m[i] + Len(t)
  OBVIOUS
<1>3. k \in Nat /\ k - 1 = i /\ \A h \in 1 .. k : h \in 1 .. i \/ h = k
  OBVIOUS
<1>0. t = s[k]
  OBVIOUS
<1> HIDE DEF t, k
<1>4. InTurn(F, t, q)
  BY <1>1, <1>2, ListsJoined
<1> HIDE DEF q
<1>5. /\ IsList(q) /\ Len(F) \in Nat /\ Len(t) \in Nat /\ Len(q) = Len(F) + Len(t)
      /\ \A j \in 1 .. Len(t) : q[Len(F) + j] = t[j]
  BY <1>4 DEF InTurn
<1>6. Place(q, m, k, t)
  <2>1. m[k - 1] = Len(F) /\ m[k] = Len(q)
    BY <1>1, <1>2, <1>3, <1>5
  <2> QED BY <1>1, <1>2, <1>5, <2>1 DEF Place
<1>7. ASSUME NEW h \in 1 .. k PROVE Place(q, m, h, s[h])
  <2>1. CASE h \in 1 .. i
    BY <1>1, <1>4, <2>1, PlaceStays
  <2>2. CASE h = k
    BY <1>0, <1>6, <2>2
  <2> QED BY <1>3, <2>1, <2>2
<1>8. Placed(q, s, m, k)
  BY <1>1, <1>2, <1>5, <1>7 DEF Placed
<1> QED BY <1>8 DEF q, k, t

(* FlattenSeq puts every piece in its place. *)
LEMMA FlattenPlaces ==
  ASSUME NEW n \in Nat, NEW s, s = [i \in 1 .. n |-> s[i]], NEW m, m[0] = 0,
         \A i \in 1 .. n : IsList(s[i]) /\ m[i] = m[i - 1] + Len(s[i])
  PROVE  Placed(FlattenSeq(s), s, m, n)
<1>0. Len(s) = n
  OBVIOUS
<1>1. Placed(<<>>, s, m, 0)
  <2>1. IsList(<<>>) /\ Len(<<>>) = 0 /\ 1 .. 0 = {}
    BY ListLiteral DEF Literals, Size
  <2> QED BY <2>1 DEF Placed
<1>2. CASE n = 0
  <2>1. FlattenSeq(s) = s /\ s = <<>>
    BY <1>0, <1>2 DEF FlattenSeq
  <2> QED BY <1>1, <1>2, <2>1
<1>3. CASE n # 0
  <2>1. PICK f : Flattens(f, s, n) /\ FlattenSeq(s) = f[n]
    BY Zenon, <1>0, <1>3, FlattenRule
  <2> DEFINE Fits(i) == i \in 1 .. n => Placed(f[i], s, m, i)
             Q == {i \in Nat : Fits(i)}
  <2>2. 0 \in Q
    OBVIOUS
  <2>3. ASSUME NEW i \in Nat, i \in Q PROVE i + 1 \in Q
    <3> SUFFICES ASSUME i + 1 \in 1 .. n PROVE Placed(f[i + 1], s, m, i + 1)
      OBVIOUS
    <3>1. f[i + 1] = IF i = 0 THEN s[i + 1] ELSE f[i] \o s[i + 1]
      <4> DEFINE k == i + 1
      <4>1. k \in 1 .. n /\ k - 1 = i /\ (k = 1 <=> i = 0)
        OBVIOUS
      <4> HIDE DEF k
      <4>2. f[k] = IF k = 1 THEN s[k] ELSE f[k - 1] \o s[k]
        BY Zenon, <2>1, <4>1 DEF Flattens
      <4> QED BY <4>1, <4>2 DEF k
    <3>2. IsList(s[i + 1]) /\ m[i + 1] = m[i] + Len(s[i + 1])
      <4> DEFINE k == i + 1
      <4>1. k \in 1 .. n /\ k - 1 = i
        OBVIOUS
      <4> HIDE DEF k
      <4>2. IsList(s[k]) /\ m[k] = m[k - 1] + Len(s[k])
        BY <4>1
      <4> QED BY <4>1, <4>2 DEF k
    <3>3. CASE i = 0
      <4> DEFINE t == s[i + 1]
      <4>1. Placed(<<>> \o t, s, m, i + 1)
        <5>1. Placed(<<>>, s, m, i)
          BY <1>1, <3>3
        <5> QED BY Zenon, <3>2, <5>1, PlacedNext
      <4>2. <<>> \o t = t
        <5>1. t \in Seq(Range(t))
          BY <3>2 DEF IsList
        <5> HIDE DEF t
        <5> QED BY <5>1, ConcatEmptySeq
      <4>3. f[i + 1] = t
        BY <3>1, <3>3
      <4> HIDE DEF t
      <4> QED BY <4>1, <4>2, <4>3
    <3>4. CASE i # 0
      <4>1. Placed(f[i], s, m, i)
        BY <2>3, <3>4
      <4>2. Placed(f[i] \o s[i + 1], s, m, i + 1)
        BY Zenon, <3>2, <4>1, PlacedNext
      <4> QED BY <3>1, <3>4, <4>2
    <3> QED BY <3>3, <3>4
  <2>4. \A i \in Nat : i \in Q
    <3> HIDE DEF Q
    <3> QED BY <2>2, <2>3, NumbersInductive
  <2>5. Placed(f[n], s, m, n)
    BY <1>3, <2>4
  <2> QED BY <2>1, <2>5
<1> QED BY <1>2, <1>3

(* A list over E. *)
LEMMA ListOver ==
  ASSUME NEW E, NEW t, IsList(t), \A j \in 1 .. Len(t) : t[j] \in E
  PROVE  t \in Seq(E)
<1>1. t \in Seq(Range(t)) /\ DOMAIN t = 1 .. Len(t)
  BY DEF IsList
<1>2. Range(t) \subseteq E
  BY <1>1 DEF Range
<1> QED BY <1>2, ListTyped

(* The last place of the i-th three of k octets. *)
Third(k, i) == IF 3 * i < k THEN 3 * i ELSE k
Threes(k) == (k + 2) \div 3

(* The i-th three of k octets, the last of which may be one or two. *)
LEMMA ThirdFacts ==
  ASSUME NEW k \in Nat, NEW i \in 1 .. Threes(k)
  PROVE  LET e == Third(k, i)
         IN /\ Threes(k) \in Nat /\ i \in Nat /\ i - 1 \in Nat /\ e \in Nat /\ e <= k
            /\ 3 * (i - 1) < e /\ e - 3 * (i - 1) \in 1 .. 3 /\ Third(k, i - 1) = 3 * (i - 1)
            /\ e = 3 * (i - 1) + (e - 3 * (i - 1))
            /\ e - 3 * (i - 1) # 3 => i = Threes(k)
<1> DEFINE n == Threes(k)
<1>1. n \in Nat /\ 3 * n >= k /\ 3 * n <= k + 2
  BY DEF Threes
<1> HIDE DEF n
<1>2. i \in 1 .. n
  BY DEF n
<1>3. i \in Nat /\ i - 1 \in Nat /\ 3 * (i - 1) = 3 * i - 3 /\ 3 * i <= 3 * n
  BY <1>1, <1>2
<1>4. 3 * i - 3 < k
  BY <1>1, <1>3
<1>5. i # n => 3 * i <= 3 * n - 3
  BY <1>1, <1>2
<1>6. i # n => 3 * i < k
  BY <1>1, <1>3, <1>5
<1> QED BY <1>1, <1>3, <1>4, <1>6 DEF Third, n

(* The chunks of a payload. *)
ChunkAt(p, t, i) ==
  /\ t \in Seq(Octet) /\ Len(t) \in 1 .. 3 /\ (Len(t) # 3 => i = Threes(Len(p)))
  /\ Len(t) = Third(Len(p), i) - 3 * (i - 1)
  /\ \A j \in 1 .. Len(t) : t[j] = p[3 * (i - 1) + j]

(* Chunks cuts a payload in threes. *)
LEMMA ChunkFacts ==
  ASSUME NEW p, p \in Seq(Octet)
  PROVE  /\ Len(Chunks(p, 3)) = Threes(Len(p))
         /\ Chunks(p, 3) = [i \in 1 .. Threes(Len(p)) |-> Chunks(p, 3)[i]]
         /\ \A i \in 1 .. Threes(Len(p)) : ChunkAt(p, Chunks(p, 3)[i], i)
<1> DEFINE k == Len(p)
           n == Threes(k)
           c == Chunks(p, 3)
<1>1. k \in Nat /\ IsList(p) /\ \A i \in 1 .. k : p[i] \in Octet
  BY ListIn
<1>2. n \in Nat
  BY <1>1 DEF Threes
<1>3. c = [i \in 1 .. n |-> SubSeq(p, (i - 1) * 3 + 1, Third(k, i))]
  <2>1. (k + 3 - 1) \div 3 = n /\ \A i \in 1 .. n : (IF i * 3 < k THEN i * 3 ELSE k) = Third(k, i)
    BY <1>1, <1>2 DEF Threes, Third
  <2> HIDE DEF n, k
  <2>2. c = [i \in 1 .. ((k + 3 - 1) \div 3) |-> SubSeq(p, (i - 1) * 3 + 1, IF i * 3 < k THEN i * 3 ELSE k)]
    BY DEF Chunks, k
  <2> QED BY <2>1, <2>2
<1> HIDE DEF c
<1>4. Len(c) = n /\ c = [i \in 1 .. n |-> c[i]]
  <2> DEFINE piece(i) == SubSeq(p, (i - 1) * 3 + 1, Third(k, i))
  <2> HIDE DEF n, piece
  <2>1. c = [i \in 1 .. n |-> piece(i)]
    BY <1>3 DEF piece
  <2>2. c = [i \in 1 .. n |-> c[i]]
    BY <2>1
  <2>3. Size(c) = n
    BY <1>2, <2>2, ListMade
  <2> QED BY Zenon, <2>2, <2>3 DEF Size
<1>5. ASSUME NEW i \in 1 .. n PROVE ChunkAt(p, c[i], i)
  <2> DEFINE e == Third(k, i)
             m == 3 * (i - 1) + 1
             t == SubSeq(p, m, e)
  <2>1. /\ i \in Nat /\ i - 1 \in Nat /\ e \in Nat /\ e <= k /\ e - 3 * (i - 1) \in 1 .. 3
        /\ e - 3 * (i - 1) # 3 => i = n
    BY <1>1, ThirdFacts
  <2>2. c[i] = t
    <3>1. (i - 1) * 3 + 1 = m
      BY <2>1
    <3> HIDE DEF n, m
    <3> QED BY Zenon, <1>3, <3>1
  <2> HIDE DEF e, n
  <2>3. m \in Nat \ {0} /\ m <= e /\ e - m + 1 = e - 3 * (i - 1) /\ e <= Len(p)
        /\ \A j \in Nat : m + j - 1 = 3 * (i - 1) + j
    BY <2>1
  <2> HIDE DEF m
  <2>4. /\ IsList(t) /\ Len(t) = (IF m <= e THEN e - m + 1 ELSE 0)
        /\ \A j \in 1 .. e - m + 1 : t[j] = p[m + j - 1]
    BY <1>1, <2>1, <2>3, Slice
  <2> HIDE DEF t, k
  <2>5. Len(t) = e - 3 * (i - 1) /\ \A j \in 1 .. Len(t) : t[j] = p[3 * (i - 1) + j]
    <3>1. Len(t) = e - m + 1
      BY <2>3, <2>4
    <3>2. ASSUME NEW j \in 1 .. Len(t) PROVE t[j] = p[3 * (i - 1) + j]
      <4>1. j \in 1 .. e - m + 1 /\ j \in Nat
        BY <2>1, <2>3, <3>1
      <4> QED BY <2>3, <2>4, <4>1
    <3> QED BY <2>3, <3>1, <3>2
  <2>6. \A j \in 1 .. Len(t) : 3 * (i - 1) + j \in 1 .. k
    BY <1>1, <2>1, <2>5
  <2>7. \A j \in 1 .. Len(t) : t[j] \in Octet
    BY <1>1, <2>5, <2>6
  <2>8. t \in Seq(Octet)
    BY <2>4, <2>7, ListOver
  <2>9. Len(t) \in 1 .. 3 /\ (Len(t) # 3 => i = n)
    BY <2>1, <2>5
  <2>10. ChunkAt(p, t, i)
    BY <2>5, <2>8, <2>9 DEF ChunkAt, e, n, k
  <2> QED BY <2>2, <2>10
<1> QED BY <1>4, <1>5 DEF n, c

(* The chunks of a payload, one after the other, are the payload. *)
LEMMA ChunksWhole ==
  ASSUME NEW p, p \in Seq(Octet)
  PROVE  FlattenSeq(Chunks(p, 3)) = p
<1> DEFINE k == Len(p)
           n == Threes(k)
           c == Chunks(p, 3)
           F == FlattenSeq(c)
           m == [i \in 0 .. n |-> Third(k, i)]
<1>1. c = [i \in 1 .. n |-> c[i]] /\ \A i \in 1 .. n : ChunkAt(p, c[i], i)
  BY ChunkFacts
<1>2. k \in Nat /\ IsList(p)
  BY ListIn
<1>3. n \in Nat /\ 3 * n >= k
  BY <1>2 DEF Threes
<1> HIDE DEF c
<1>4. m[0] = 0 /\ m[n] = k
  <2>1. Third(k, 0) = 0 /\ Third(k, n) = k
    <3> HIDE DEF n
    <3> QED BY <1>2, <1>3 DEF Third
  <2> HIDE DEF n
  <2> QED BY <1>3, <2>1
<1>5. ASSUME NEW i \in 1 .. n PROVE IsList(c[i]) /\ m[i] = m[i - 1] + Len(c[i]) /\ m[i - 1] = 3 * (i - 1)
  <2>1. c[i] \in Seq(Octet) /\ Len(c[i]) = Third(k, i) - 3 * (i - 1)
    BY <1>1 DEF ChunkAt
  <2>2. /\ Third(k, i - 1) = 3 * (i - 1) /\ Third(k, i) = 3 * (i - 1) + (Third(k, i) - 3 * (i - 1))
        /\ i \in 0 .. n /\ i - 1 \in 0 .. n
    <3>1. i \in 0 .. n /\ i - 1 \in 0 .. n
      BY <1>3
    <3> QED BY <1>2, <3>1, ThirdFacts
  <2>3. m[i] = Third(k, i) /\ m[i - 1] = Third(k, i - 1)
    <3> HIDE DEF n
    <3> QED BY <2>2
  <2> HIDE DEF m, n, k
  <2> QED BY <2>1, <2>2, <2>3, ListIn
<1> HIDE DEF m
<1>6. Placed(F, c, m, n)
  <2> HIDE DEF n
  <2> QED BY Zenon, <1>1, <1>3, <1>4, <1>5, FlattenPlaces
<1> HIDE DEF F
<1>7. IsList(F) /\ Len(F) = k /\ \A i \in 1 .. n : Place(F, m, i, c[i])
  BY <1>4, <1>6 DEF Placed
<1>8. ASSUME NEW x \in 1 .. k PROVE F[x] = p[x]
  <2> DEFINE i == (x - 1) \div 3 + 1
             j == ((x - 1) % 3) + 1
  <2>1. i \in Nat /\ i >= 1 /\ j \in 1 .. 3 /\ 3 * (i - 1) + j = x
    BY <1>2
  <2> HIDE DEF i, j
  <2>2. i <= n
    <3>1. 3 * (i - 1) < 3 * n
      BY <1>2, <1>3, <2>1
    <3> HIDE DEF n
    <3> QED BY <1>3, <2>1, <3>1
  <2>3. i \in 1 .. n
    <3> HIDE DEF n
    <3> QED BY <1>3, <2>1, <2>2
  <2>4. j \in 1 .. Len(c[i])
    <3>1. Len(c[i]) = Third(k, i) - 3 * (i - 1)
      BY <1>1, <2>3 DEF ChunkAt
    <3> HIDE DEF k
    <3> QED BY <1>2, <2>1, <3>1 DEF Third
  <2>5. c[i][j] = p[3 * (i - 1) + j]
    BY <1>1, <2>3, <2>4 DEF ChunkAt
  <2>6. F[m[i - 1] + j] = c[i][j]
    BY Zenon, <1>7, <2>3, <2>4 DEF Place
  <2>7. m[i - 1] = 3 * (i - 1)
    BY <1>5, <2>3
  <2> QED BY <2>1, <2>5, <2>6, <2>7
<1>9. F = p
  BY <1>2, <1>7, <1>8, SameList
<1> QED BY <1>9 DEF F, c

(* What is written for a payload, quartet by quartet. *)
LEMMA QuartetsPlaced ==
  ASSUME NEW p, p \in Seq(Octet)
  PROVE  LET n == Threes(Len(p))
             B == Base64(p)
         IN /\ n \in Nat /\ IsList(B) /\ Len(B) = 4 * n
            /\ \A i \in 1 .. n, j \in 1 .. 4 : B[4 * (i - 1) + j] = Quartet(Chunks(p, 3)[i])[j]
<1> DEFINE k == Len(p)
           n == Threes(k)
           c == Chunks(p, 3)
           q == [i \in 1 .. n |-> Quartet(c[i])]
           B == FlattenSeq(q)
           m == [i \in 0 .. n |-> 4 * i]
<1>1. Len(c) = n /\ \A i \in 1 .. n : ChunkAt(p, c[i], i)
  BY ChunkFacts
<1>2. n \in Nat
  <2>1. k \in Nat
    BY ListIn
  <2> HIDE DEF k
  <2> QED BY <2>1 DEF Threes
<1>3. Base64(p) = B
  BY Zenon, <1>1 DEF Base64
<1> HIDE DEF c, n
<1>4. q = [i \in 1 .. n |-> q[i]] /\ \A i \in 1 .. n : q[i] = Quartet(c[i])
  OBVIOUS
<1>5. m[0] = 0 /\ m[n] = 4 * n
  BY <1>2
<1>6. \A i \in 1 .. n : m[i] = m[i - 1] + 4 /\ m[i - 1] = 4 * (i - 1)
  <2> SUFFICES ASSUME NEW i \in 1 .. n PROVE m[i] = m[i - 1] + 4 /\ m[i - 1] = 4 * (i - 1)
    BY Zenon
  <2>1. i \in 0 .. n /\ i - 1 \in 0 .. n /\ i \in Nat
    BY <1>2
  <2> QED BY <2>1
<1> HIDE DEF q, m
<1>7. \A i \in 1 .. n : IsList(q[i]) /\ Len(q[i]) = 4
  <2> SUFFICES ASSUME NEW i \in 1 .. n PROVE IsList(q[i]) /\ Len(q[i]) = 4
    OBVIOUS
  <2> DEFINE t == c[i]
             x == Quartet(t)
  <2>1. x = [j \in 1 .. 4 |-> x[j]]
    BY DEF Quartet
  <2> HIDE DEF x
  <2>2. IsList(x) /\ Size(x) = 4
    BY Zenon, <2>1, ListMade
  <2> QED BY <1>4, <2>2 DEF Size, x
<1>8. Placed(B, q, m, n)
  <2>1. \A i \in 1 .. n : IsList(q[i]) /\ m[i] = m[i - 1] + Len(q[i])
    BY Zenon, <1>6, <1>7
  <2> QED BY Zenon, <1>2, <1>4, <1>5, <2>1, FlattenPlaces
<1> HIDE DEF B
<1>9. IsList(B) /\ Len(B) = 4 * n /\ \A i \in 1 .. n : Place(B, m, i, q[i])
  BY <1>5, <1>8 DEF Placed
<1>10. ASSUME NEW i \in 1 .. n, NEW j \in 1 .. 4 PROVE B[4 * (i - 1) + j] = Quartet(c[i])[j]
  <2>1. B[m[i - 1] + j] = q[i][j]
    BY Zenon, <1>7, <1>9 DEF Place
  <2> QED BY <1>4, <1>6, <2>1
<1> QED BY <1>2, <1>3, <1>9, <1>10 DEF n, c

(* A place among quartets. *)
LEMMA FourthPlace ==
  ASSUME NEW n \in Nat, NEW x \in 1 .. 4 * n
  PROVE  \E i \in 1 .. n, j \in 1 .. 4 : x = 4 * (i - 1) + j
<1> DEFINE i == (x - 1) \div 4 + 1
           j == ((x - 1) % 4) + 1
<1>1. i \in Nat /\ i >= 1 /\ j \in 1 .. 4 /\ 4 * (i - 1) + j = x
  OBVIOUS
<1> HIDE DEF i, j
<1>2. i <= n
  BY <1>1
<1> QED BY <1>1, <1>2

(* base64: what write_base64 writes for a payload is valid, has none of the *)
(* bytes that end it, and stands for that payload.                          *)
THEOREM Base64Back ==
  ASSUME NEW p, p \in Seq(Octet)
  PROVE  /\ Base64Valid(Base64(p)) /\ Base64Decode(Base64(p)) = p
         /\ Base64(p) \in Seq(PayloadBytes)
<1> DEFINE k == Len(p)
           n == Threes(k)
           c == Chunks(p, 3)
           B == Base64(p)
           D == Chunks(B, 4)
<1>1. /\ n \in Nat /\ IsList(B) /\ Len(B) = 4 * n
      /\ \A i \in 1 .. n, j \in 1 .. 4 : B[4 * (i - 1) + j] = Quartet(c[i])[j]
  BY QuartetsPlaced
<1>2. c = [i \in 1 .. n |-> c[i]] /\ \A i \in 1 .. n : ChunkAt(p, c[i], i)
  BY ChunkFacts
<1>3. FlattenSeq(c) = p
  BY ChunksWhole
<1>4. ASSUME NEW i \in 1 .. n
      PROVE  /\ Quartet(c[i]) = [j \in 1 .. 4 |-> Quartet(c[i])[j]]
             /\ QuartetBytes(Quartet(c[i])) = c[i] /\ QuartetValid(Quartet(c[i]), i = n)
             /\ \A j \in 1 .. 4 : Quartet(c[i])[j] \in PayloadBytes
  <2> DEFINE t == c[i]
             last == i = n
  <2>1. t \in Seq(Octet) /\ Len(t) \in 1 .. 3 /\ (Len(t) # 3 => last)
    BY <1>2 DEF ChunkAt
  <2> HIDE DEF last, t
  <2>2. /\ Quartet(t) = [j \in 1 .. 4 |-> Quartet(t)[j]]
        /\ QuartetBytes(Quartet(t)) = t /\ QuartetValid(Quartet(t), last)
        /\ \A j \in 1 .. 4 : Quartet(t)[j] \in PayloadBytes
    BY <2>1, QuartetBack
  <2> QED BY <2>2 DEF t, last
<1> HIDE DEF B, c, n
<1>5. B \in Seq(PayloadBytes)
  <2>1. ASSUME NEW x \in 1 .. Len(B) PROVE B[x] \in PayloadBytes
    <3>1. x \in 1 .. 4 * n
      BY <1>1
    <3>2. PICK i \in 1 .. n, j \in 1 .. 4 : x = 4 * (i - 1) + j
      BY Zenon, <1>1, <3>1, FourthPlace
    <3>3. B[x] = Quartet(c[i])[j]
      BY Zenon, <1>1, <3>2
    <3> QED BY Zenon, <1>4, <3>3
  <2> QED BY <1>1, <2>1, ListOver
<1>6. Len(D) = n /\ \A i \in 1 .. n : D[i] = Quartet(c[i])
  <2> DEFINE piece(i) == SubSeq(B, (i - 1) * 4 + 1, IF i * 4 < Len(B) THEN i * 4 ELSE Len(B))
  <2>1. D = [i \in 1 .. n |-> piece(i)]
    <3>1. (Len(B) + 4 - 1) \div 4 = n
      BY <1>1
    <3> QED BY <3>1 DEF Chunks
  <2> HIDE DEF D
  <2>2. ASSUME NEW i \in 1 .. n PROVE piece(i) = Quartet(c[i])
    <3> DEFINE m == 4 * (i - 1) + 1
               e == 4 * i
               q == Quartet(c[i])
               s == SubSeq(B, m, e)
    <3>1. /\ m \in Nat \ {0} /\ e \in Nat /\ e <= Len(B) /\ e - m + 1 = 4 /\ m <= e
          /\ (i - 1) * 4 + 1 = m /\ (IF i * 4 < Len(B) THEN i * 4 ELSE Len(B)) = e
          /\ \A j \in 1 .. 4 : m + j - 1 = 4 * (i - 1) + j
      BY <1>1
    <3> HIDE DEF m, e
    <3>2. piece(i) = s
      BY Zenon, <3>1
    <3>3. /\ IsList(s) /\ Len(s) = (IF m <= e THEN e - m + 1 ELSE 0)
          /\ \A j \in 1 .. e - m + 1 : s[j] = B[m + j - 1]
      BY <1>1, <3>1, Slice
    <3> HIDE DEF s, q, piece
    <3>4. Len(s) = 4 /\ \A j \in 1 .. 4 : s[j] = B[4 * (i - 1) + j]
      BY Zenon, <3>1, <3>3
    <3>5. IsList(q) /\ Len(q) = 4
      <4>1. q = [j \in 1 .. 4 |-> q[j]]
        BY Zenon, <1>4 DEF q
      <4>2. IsList(q) /\ Size(q) = 4
        BY Zenon, <4>1, ListMade
      <4> QED BY <4>2 DEF Size
    <3>6. \A j \in 1 .. 4 : s[j] = q[j]
      BY <1>1, <3>4 DEF q
    <3>7. s = q
      BY Zenon, <3>3, <3>4, <3>5, <3>6, SameList
    <3> QED BY <3>2, <3>7 DEF q
  <2> HIDE DEF piece
  <2>3. D = [i \in 1 .. n |-> D[i]] /\ \A i \in 1 .. n : D[i] = piece(i)
    BY <2>1
  <2>4. Size(D) = n
    BY <1>1, <2>3, ListMade
  <2> QED BY Zenon, <2>2, <2>3, <2>4 DEF Size
<1> HIDE DEF D
<1>7. Base64Valid(B)
  <2>1. Len(B) % 4 = 0
    BY <1>1
  <2>2. \A i \in 1 .. Len(D) : QuartetValid(D[i], i = Len(D))
    <3> SUFFICES ASSUME NEW i \in 1 .. Len(D) PROVE QuartetValid(D[i], i = Len(D))
      OBVIOUS
    <3> QED BY Zenon, <1>4, <1>6
  <2> QED BY <2>1, <2>2 DEF Base64Valid, D
<1>8. Base64Decode(B) = p
  <2> DEFINE r == [i \in 1 .. Len(D) |-> QuartetBytes(D[i])]
  <2>1. Base64Decode(B) = FlattenSeq(r)
    BY DEF Base64Decode, D
  <2>2. r = [i \in 1 .. n |-> QuartetBytes(D[i])]
    BY <1>6
  <2>3. \A i \in 1 .. n : QuartetBytes(D[i]) = c[i]
    BY Zenon, <1>4, <1>6
  <2>4. r = c
    <3> HIDE DEF r
    <3> QED BY <1>2, <2>2, <2>3
  <2> QED BY Zenon, <1>3, <2>1, <2>4
<1> QED BY <1>5, <1>7, <1>8 DEF B

(* The parts of three lists put together are found where they were put. *)
LEMMA PartsFound ==
  ASSUME NEW r, NEW s, NEW t, IsList(r), IsList(s), IsList(t), NEW q, AllInTurn(r, s, t, q)
  PROVE  /\ SubSeq(q, Len(r) + 1, Len(r) + Len(s)) = s
         /\ SubSeq(q, Len(r) + Len(s) + 1, Len(q)) = t
<1> DEFINE m == Len(r) + 1
           n == Len(r) + Len(s)
<1>1. Len(r) \in Nat /\ Len(s) \in Nat /\ Len(t) \in Nat
  BY ListIn DEF IsList
<1>2. /\ IsList(q) /\ Len(q) = Len(r) + Len(s) + Len(t)
      /\ \A i \in 1 .. Len(s) : q[Len(r) + i] = s[i]
      /\ \A i \in 1 .. Len(t) : q[Len(r) + Len(s) + i] = t[i]
  BY DEF AllInTurn
<1>3. /\ m \in Nat \ {0} /\ n \in Nat /\ n <= Len(q) /\ n + 1 \in Nat \ {0}
      /\ Len(q) \in Nat /\ Len(q) <= Len(q)
  BY <1>1, <1>2
<1>4. SubSeq(q, m, n) = s
  <2> DEFINE u == SubSeq(q, m, n)
  <2>1. /\ IsList(u) /\ Len(u) = IF m <= n THEN n - m + 1 ELSE 0
        /\ \A i \in 1 .. n - m + 1 : u[i] = q[m + i - 1]
    BY <1>2, <1>3, Slice
  <2> HIDE DEF u
  <2>2. Len(u) = Len(s)
    BY <1>1, <2>1
  <2>3. ASSUME NEW i \in 1 .. Len(u) PROVE u[i] = s[i]
    <3>1. i \in 1 .. n - m + 1 /\ m + i - 1 = Len(r) + i /\ i \in 1 .. Len(s)
      BY <1>1, <2>2
    <3> QED BY <1>2, <2>1, <3>1
  <2>4. u = s
    BY <2>1, <2>2, <2>3, SameList
  <2> QED BY <2>4 DEF u
<1>5. SubSeq(q, n + 1, Len(q)) = t
  <2> DEFINE k == n + 1
             e == Len(q)
             u == SubSeq(q, k, e)
  <2>1. /\ IsList(u) /\ Len(u) = IF k <= e THEN e - k + 1 ELSE 0
        /\ \A i \in 1 .. e - k + 1 : u[i] = q[k + i - 1]
    BY <1>2, <1>3, Slice
  <2> HIDE DEF u
  <2>2. Len(u) = Len(t)
    BY <1>1, <1>2, <2>1
  <2>3. ASSUME NEW i \in 1 .. Len(u) PROVE u[i] = t[i]
    <3>1. i \in 1 .. e - k + 1 /\ k + i - 1 = Len(r) + Len(s) + i /\ i \in 1 .. Len(t)
      BY <1>1, <1>2, <2>2
    <3> QED BY <1>2, <2>1, <3>1
  <2>4. u = t
    BY Zenon, <2>1, <2>2, <2>3, SameList
  <2> QED BY <2>4 DEF u
<1> QED BY <1>4, <1>5

OscFront == OSC \o <<"5", "2", ";", "c", ";">>

(* What a clipboard answer begins with, byte by byte. *)
LEMMA FrontBytes ==
  LET a == OscFront
  IN /\ IsList(a) /\ Len(a) = 7 /\ a[1] = ESC /\ a[2] = "]" /\ a[3] = "5" /\ a[4] = "2"
     /\ a[5] = ";" /\ a[6] = "c" /\ a[7] = ";"
<1> DEFINE b == <<"5", "2", ";", "c", ";">>
<1>1. IsList(b) /\ Len(b) = 5
  BY Zenon, FiveBytes DEF Size
<1>2. b[1] = "5" /\ b[2] = "2" /\ b[3] = ";" /\ b[4] = "c" /\ b[5] = ";"
  OBVIOUS
<1> HIDE DEF b
<1>3. InTurn(OSC, b, OSC \o b) /\ Len(OSC) = 2
  BY <1>1, FrameSize, ListsJoined DEF Size
<1>4. OSC[1] = ESC /\ OSC[2] = "]"
  BY DEF OSC
<1> DEFINE a == OSC \o b
<1>5. a = OscFront
  BY DEF OscFront, b
<1> HIDE DEF a
<1>6. /\ IsList(a) /\ Len(a) = 7 /\ a[1] = OSC[1] /\ a[2] = OSC[2]
      /\ \A i \in 1 .. 5 : a[2 + i] = b[i]
  BY <1>1, <1>3 DEF InTurn, a
<1>7. /\ a[2 + 1] = b[1] /\ a[2 + 2] = b[2] /\ a[2 + 3] = b[3] /\ a[2 + 4] = b[4]
      /\ a[2 + 5] = b[5]
  BY <1>6
<1>8. a[3] = b[1] /\ a[4] = b[2] /\ a[5] = b[3] /\ a[6] = b[4] /\ a[7] = b[5]
  BY <1>7
<1> QED BY Zenon, <1>2, <1>4, <1>5, <1>6, <1>8

(* Five bytes, one by one. *)
LEMMA SameFive ==
  ASSUME NEW s, NEW p, IsList(s), IsList(p), Len(s) >= 5, Len(p) = 5, s[1] = p[1], s[2] = p[2],
         s[3] = p[3], s[4] = p[4], s[5] = p[5]
  PROVE  SubSeq(s, 1, 5) = p
<1> DEFINE u == SubSeq(s, 1, 5)
<1>1. Len(s) \in Nat
  BY DEF IsList
<1>2. IsList(u) /\ Len(u) = 5 /\ \A i \in 1 .. 5 : u[i] = s[i]
  <2>1. /\ IsList(u) /\ Len(u) = IF 1 <= 5 THEN 5 - 1 + 1 ELSE 0
        /\ \A i \in 1 .. 5 - 1 + 1 : u[i] = s[1 + i - 1]
    BY <1>1, Slice
  <2> HIDE DEF u
  <2> QED BY <2>1
<1> HIDE DEF u
<1>3. \A i \in 1 .. 5 : u[i] = p[i]
  <2> SUFFICES ASSUME NEW i \in 1 .. 5 PROVE u[i] = p[i]
    OBVIOUS
  <2>1. i = 1 \/ i = 2 \/ i = 3 \/ i = 4 \/ i = 5
    OBVIOUS
  <2> QED BY <1>2, <2>1
<1>4. u = p
  BY Zenon, <1>2, <1>3, SameList
<1> QED BY <1>4 DEF u

OscPrefix == OSC \o <<"5", "2", ";">>

(* The five bytes Osc52ReadResponse looks for. *)
LEMMA PrefixBytes ==
  LET p == OscPrefix
  IN /\ IsList(p) /\ Len(p) = 5 /\ p[1] = ESC /\ p[2] = "]" /\ p[3] = "5" /\ p[4] = "2"
     /\ p[5] = ";"
<1> DEFINE b == <<"5", "2", ";">>
<1>1. IsList(b) /\ Len(b) = 3
  BY Zenon, ListLiteral DEF Literals, Size
<1>2. b[1] = "5" /\ b[2] = "2" /\ b[3] = ";"
  OBVIOUS
<1> HIDE DEF b
<1>3. InTurn(OSC, b, OSC \o b) /\ Len(OSC) = 2
  BY <1>1, FrameSize, ListsJoined DEF Size
<1>4. OSC[1] = ESC /\ OSC[2] = "]"
  BY DEF OSC
<1> DEFINE p == OSC \o b
<1>5. p = OscPrefix
  BY DEF OscPrefix, b
<1> HIDE DEF p
<1>6. /\ IsList(p) /\ Len(p) = 5 /\ p[1] = OSC[1] /\ p[2] = OSC[2]
      /\ \A i \in 1 .. 3 : p[2 + i] = b[i]
  BY <1>1, <1>3 DEF InTurn, p
<1>7. p[2 + 1] = b[1] /\ p[2 + 2] = b[2] /\ p[2 + 3] = b[3]
  BY <1>6
<1>8. p[3] = b[1] /\ p[4] = b[2] /\ p[5] = b[3]
  BY <1>7
<1> QED BY Zenon, <1>2, <1>4, <1>5, <1>6, <1>8

(* ESC ] 5 2 ; in front is what the OSC 52 decoder looks for. *)
LEMMA PrefixFound ==
  ASSUME NEW s, IsList(s), Len(s) >= 5, s[1] = OscFront[1], s[2] = OscFront[2],
         s[3] = OscFront[3], s[4] = OscFront[4], s[5] = OscFront[5]
  PROVE  Prefix52(s)
<1> DEFINE p == OscPrefix
           a == OscFront
<1>1. /\ IsList(p) /\ Len(p) = 5 /\ p[1] = a[1] /\ p[2] = a[2] /\ p[3] = a[3] /\ p[4] = a[4]
      /\ p[5] = a[5]
  BY Zenon, FrontBytes, PrefixBytes
<1> HIDE DEF p, a
<1>2. /\ s[1] = a[1] /\ s[2] = a[2] /\ s[3] = a[3] /\ s[4] = a[4] /\ s[5] = a[5]
  BY DEF a
<1>3. SubSeq(s, 1, 5) = p
  BY Zenon, <1>1, <1>2, SameFive
<1> QED BY Zenon, <1>3 DEF p, OscPrefix, Prefix52

(* The payload ends at the first BEL or ESC, and it holds neither. *)
LEMMA StopFound ==
  ASSUME NEW s, NEW a, NEW b, NEW e, AllInTurn(a, b, e, s), IsList(a), IsList(b), IsList(e),
         Len(a) = 7, Len(e) >= 1, e[1] \in {BEL, ESC},
         \A i \in 1 .. Len(b) : b[i] \notin {BEL, ESC}
  PROVE  Stop(s) = 8 + Len(b) /\ s[Stop(s)] = e[1]
<1> DEFINE k == 8 + Len(b)
<1>1. Len(b) \in Nat /\ Len(e) \in Nat
  BY DEF IsList
<1>2. /\ IsList(s) /\ Len(s) = 7 + Len(b) + Len(e)
      /\ \A i \in 1 .. Len(b) : s[7 + i] = b[i]
      /\ \A i \in 1 .. Len(e) : s[7 + Len(b) + i] = e[i]
  BY DEF AllInTurn
<1>3. s[k] = e[1]
  <2>1. 1 \in 1 .. Len(e) /\ 7 + Len(b) + 1 = k
    BY <1>1
  <2> QED BY <1>2, <2>1
<1>4. k \in Stops(s)
  <2>1. k \in 8 .. Len(s)
    BY <1>1, <1>2
  <2> QED BY <1>3, <2>1 DEF Stops
<1>5. Stop(s) \in Stops(s) /\ Stop(s) <= k
  BY <1>2, <1>4, StopFacts
<1> DEFINE n == Stop(s)
<1> HIDE DEF n
<1>6. n \in 8 .. Len(s) /\ s[n] \in {BEL, ESC} /\ n <= k
  BY <1>5 DEF Stops, n
<1>7. ~(n < k)
  <2> SUFFICES ASSUME n < k PROVE FALSE
    OBVIOUS
  <2>1. n - 7 \in 1 .. Len(b) /\ 7 + (n - 7) = n
    BY <1>1, <1>2, <1>6
  <2>2. s[n] = b[n - 7]
    BY <1>2, <2>1
  <2> QED BY <1>6, <2>1, <2>2
<1>8. n = k
  BY <1>1, <1>2, <1>6, <1>7
<1> QED BY <1>3, <1>8 DEF n

(* What the terminal puts at the end of an OSC. *)
LEMMA EndBytes ==
  ASSUME NEW e \in {ST, <<BEL>>}
  PROVE  /\ IsList(e) /\ Len(e) >= 1 /\ e[1] \in {BEL, ESC} /\ e \in Text
         /\ e = ST => Len(e) = 2
         /\ e # ST => Len(e) = 1 /\ e[1] = BEL /\ e[1] # ESC
<1>1. CASE e = ST
  <2>1. Len(e) = 2 /\ IsList(e) /\ e[1] = ESC
    BY <1>1, FrameSize DEF Size, ST
  <2>2. e \in Text
    <3>1. ESC \in Byte /\ "\\" \in Byte
      BY DEF Byte, Named
    <3> HIDE DEF Byte
    <3>2. <<ESC, "\\">> \in Seq(Byte)
      BY <3>1
    <3> QED BY <1>1, <3>2 DEF ST, Text
  <2> QED BY <1>1, <2>1, <2>2
<1>2. CASE e # ST
  <2>0. e = <<BEL>>
    BY <1>2
  <2>1. Len(e) = 1 /\ IsList(e) /\ e[1] = BEL
    BY <2>0, ListLiteral DEF Literals, Size
  <2>2. e \in Text
    <3>1. BEL \in Byte
      BY DEF Byte, Named
    <3> HIDE DEF Byte
    <3>2. <<BEL>> \in Seq(Byte)
      BY <3>1
    <3> QED BY <2>0, <3>2 DEF Text
  <2>3. BEL # ESC
    BY DEF BEL, ESC
  <2> QED BY <1>2, <2>1, <2>2, <2>3
<1> QED BY <1>1, <1>2

(* Osc52ReadResponse takes a clipboard answer whole, ended either way, and  *)
(* the payload is the text that was there.                                  *)
LEMMA OscRead ==
  ASSUME NEW p, p \in Seq(Octet), NEW e \in {ST, <<BEL>>},
         NEW s, AllInTurn(OscFront, Base64(p), e, s)
  PROVE  Decode("osc52", s) = Ok([kind |-> "osc52", selection |-> "c", payload |-> p], Len(s))
<1> DEFINE a == OscFront
           b == Base64(p)
           k == 8 + Len(b)
<1>1. /\ IsList(a) /\ Len(a) = 7 /\ IsList(b) /\ Len(b) \in Nat
      /\ IsList(e) /\ Len(e) >= 1 /\ e[1] \in {BEL, ESC} /\ Len(e) \in Nat
  <2>1. IsList(a) /\ Len(a) = 7
    BY Zenon, FrontBytes
  <2>2. IsList(b) /\ Len(b) \in Nat
    BY Base64Back, ListIn
  <2>3. IsList(e) /\ Len(e) >= 1 /\ e[1] \in {BEL, ESC}
    BY EndBytes
  <2>4. Len(e) \in Nat
    BY <2>3 DEF IsList
  <2> QED BY <2>1, <2>2, <2>3, <2>4
<1>2. Base64Valid(b) /\ Base64Decode(b) = p /\ b \in Seq(PayloadBytes)
  BY Base64Back
<1> HIDE DEF b
<1>3. \A i \in 1 .. Len(b) : b[i] \notin {BEL, ESC}
  <2>1. \A i \in 1 .. Len(b) : b[i] \in PayloadBytes
    BY <1>2
  <2> QED BY <2>1 DEF PayloadBytes
<1>4. AllInTurn(a, b, e, s)
  BY DEF a, b
<1>5. /\ s[6] = "c" /\ s[7] = ";" /\ s[1] = a[1] /\ s[2] = a[2] /\ s[3] = a[3] /\ s[4] = a[4]
      /\ s[5] = a[5]
  <2>0. a[6] = "c" /\ a[7] = ";"
    BY Zenon, FrontBytes
  <2> HIDE DEF a
  <2>1. \A i \in 1 .. 7 : s[i] = a[i]
    BY Zenon, <1>1, <1>4 DEF AllInTurn
  <2>2. s[1] = a[1] /\ s[2] = a[2] /\ s[3] = a[3] /\ s[4] = a[4] /\ s[5] = a[5]
    BY <2>1
  <2>3. s[6] = a[6] /\ s[7] = a[7]
    BY <2>1
  <2> QED BY <2>0, <2>2, <2>3, Zenon
<1>6. IsList(s) /\ Len(s) = 7 + Len(b) + Len(e)
  <2> HIDE DEF a
  <2> QED BY Zenon, <1>1, <1>4 DEF AllInTurn
<1>7. Prefix52(s)
  <2>1. Len(s) >= 5
    BY <1>1, <1>6
  <2> QED BY Zenon, <1>5, <1>6, <2>1, PrefixFound
<1> HIDE DEF a
<1>8. Stop(s) = k /\ s[k] = e[1]
  BY <1>1, <1>3, <1>4, StopFound
<1>9. SubSeq(s, 8, k - 1) = b /\ SubSeq(s, k, Len(s)) = e
  <2>1. SubSeq(s, Len(a) + 1, Len(a) + Len(b)) = b /\ SubSeq(s, Len(a) + Len(b) + 1, Len(s)) = e
    BY Zenon, <1>1, <1>4, PartsFound
  <2>2. Len(a) + 1 = 8 /\ Len(a) + Len(b) = k - 1 /\ Len(a) + Len(b) + 1 = k
    BY <1>1
  <2> HIDE DEF k
  <2> QED BY Zenon, <2>1, <2>2
<1>10. Payload52(s) = b
  BY <1>8, <1>9 DEF Payload52
<1>11. ~Waits52(s) /\ Whole52(s) /\ (IF Ended(s) THEN k + 1 ELSE k) = Len(s)
  <2>1. CASE e = ST
    <3>1. Len(e) = 2
      BY <2>1, EndBytes
    <3>2. k + 1 = Len(s) /\ k \in 1 .. (Len(s) - 1)
      BY <1>1, <1>6, <3>1
    <3>3. SubSeq(s, k, k + 1) = ST
      BY Zenon, <1>9, <2>1, <3>2
    <3>4. Ended(s)
      BY <1>8, <3>2, <3>3 DEF Ended
    <3>5. ~Waits52(s)
      BY <1>1, <1>8, <3>2 DEF Waits52
    <3>6. Whole52(s)
      BY <1>2, <1>10, <3>4, Zenon DEF Whole52
    <3> QED BY <3>2, <3>4, <3>5, <3>6
  <2>2. CASE e # ST
    <3>1. Len(e) = 1 /\ e[1] = BEL /\ e[1] # ESC
      BY <2>2, EndBytes
    <3>2. k = Len(s) /\ k \notin 1 .. (Len(s) - 1) /\ k # 0
      BY <1>1, <1>6, <3>1
    <3>4. ~Ended(s)
      BY <1>8, <3>2 DEF Ended
    <3>5. ~Waits52(s)
      BY <1>8, <3>1, <3>2 DEF Waits52
    <3>6. Whole52(s)
      BY <1>2, <1>8, <1>10, <3>1, Zenon DEF Whole52
    <3> QED BY <3>2, <3>4, <3>5, <3>6
  <2> QED BY <2>1, <2>2
<1>12. Osc52End(s) = Taken(s)
  BY <1>6, <1>11, EndCases
<1>13. Len(s) >= 7
  BY <1>1, <1>6
<1>14. "c" \in Selections
  BY DEF Selections
<1>15. Osc52(s) = Osc52End(s)
  <2>1. Osc52(s) = IF s[7] = ";" /\ s[6] \in Selections THEN Osc52End(s) ELSE Malformed
    BY Zenon, <1>6, <1>7, <1>13, Osc52Cases
  <2>2. s[7] = ";" /\ s[6] \in Selections
    BY Zenon, <1>5, <1>14
  <2> QED BY <2>1, <2>2, Zenon
<1>16. Taken(s) = Ok([kind |-> "osc52", selection |-> "c", payload |-> p], Len(s))
  BY <1>2, <1>5, <1>8, <1>10, <1>11, Zenon DEF Taken
<1> QED BY <1>12, <1>15, <1>16, OscDecode, Zenon

(* An answer that decoder d takes whole, as v. *)
Spoken(d, v, s) ==
  IsList(s) /\ Len(s) >= 4 /\ s[1] = ESC /\ Decode(d, s) = Ok(v, Len(s))

(* A sequence read to its end is a list that begins with ESC. *)
LEMMA EndSpoken ==
  ASSUME NEW s, NEW p, NEW ps, NEW i, NEW b, AtEnd(s, p, ps, i, b)
  PROVE  IsList(s) /\ Len(s) >= 4 /\ s[1] = ESC
BY TextList DEF AtEnd, At

(* The cursor report the terminal gives decodes to what it reports. *)
LEMMA DsrSpoken ==
  ASSUME ScreenOK(screen), NEW a, a = Answer("dsr"), NEW s, s \in AnswerBytes(a)
  PROVE  a.kind = "dsr" /\ Spoken("dsr", Reported(a), s)
<1> DEFINE r == screen.at[1]
           c == screen.at[2]
           v == [kind |-> "dsr", row |-> r, col |-> c]
           ps == <<r, c>>
<1>1. a = v
  BY DEF Answer
<1>2. a.kind = "dsr" /\ a.row = r /\ a.col = c
  BY <1>1
<1>3. r \in U16 /\ c \in U16
  <2>1. \A n \in 1 .. ScreenSize : n \in U16
    <3>1. ScreenSize \in 1 .. U16Max /\ U16 = 0 .. U16Max
      BY VtAssumption DEF VtAssumption, U16
    <3>2. U16Max \in Nat
      BY DEF U16Max
    <3> QED BY <3>1, <3>2
  <2> QED BY <2>1 DEF ScreenOK, Cells
<1>4. s = CSI \o Itoa(r) \o <<";">> \o Itoa(c) \o <<"R">>
  <2>1. s \in {CSI \o Itoa(a.row) \o <<";">> \o Itoa(a.col) \o <<"R">>}
    BY <1>2, Zenon DEF AnswerBytes
  <2> QED BY <1>2, <2>1, Zenon
<1>5. AtEnd(s, "public", ps, "none", "R")
  BY Zenon, <1>3, <1>4, DsrRead
<1>6. Reported(a) = a
  BY <1>2 DEF Reported
<1>7. Len(ps) = 2 /\ ps[1] = r /\ ps[2] = c
  OBVIOUS
<1> HIDE DEF r, c, ps
<1>8. Decode("dsr", s) = Ok([kind |-> "dsr", row |-> ps[1], col |-> ps[2]], Len(s))
  BY <1>5, <1>7, DecodeDsr
<1>9. Decode("dsr", s) = Ok(Reported(a), Len(s))
  BY <1>1, <1>6, <1>7, <1>8
<1> QED BY <1>2, <1>5, <1>9, EndSpoken DEF Spoken

(* So do the kitty flags, *)
LEMMA KittySpoken ==
  ASSUME NEW a, a = Answer("kitty"), NEW s, s \in AnswerBytes(a)
  PROVE  a.kind = "kitty" /\ Spoken("kitty", Reported(a), s)
<1> DEFINE n == Number(screen.kitty[Len(screen.kitty)])
           v == [kind |-> "kitty", flags |-> n]
           ps == <<n>>
<1>1. a = v
  BY DEF Answer
<1>3. n \in 0 .. 255
  <2>1. \A bits : Number(bits) \in 0 .. 255
    BY DEF Number
  <2> QED BY Zenon, <2>1
<1> HIDE DEF n
<1>2. a.kind = "kitty" /\ a.flags = n
  BY <1>1
<1>4. s = CSI \o <<"?">> \o Itoa(n) \o <<"u">>
  <2>1. s \in {CSI \o <<"?">> \o Itoa(a.flags) \o <<"u">>}
    BY <1>2, Zenon DEF AnswerBytes
  <2> QED BY <1>2, <2>1, Zenon
<1>5. AtEnd(s, "private", ps, "none", "u")
  BY Zenon, <1>3, <1>4, KittyRead
<1>6. Reported(a) = a
  BY <1>2 DEF Reported
<1>7. Len(ps) = 1 /\ ps[1] = n /\ ps[1] < 256
  BY <1>3
<1> HIDE DEF ps
<1>8. Decode("kitty", s) = Ok([kind |-> "kitty", flags |-> ps[1]], Len(s))
  BY <1>5, <1>7, DecodeKitty
<1>9. Decode("kitty", s) = Ok(Reported(a), Len(s))
  BY <1>1, <1>6, <1>7, <1>8
<1> QED BY <1>2, <1>5, <1>9, EndSpoken DEF Spoken

(* The states of a mode, as digits. *)
LEMMA StateDigits ==
  /\ "1" \in Digits /\ DigitValue["1"] = 1 /\ ModeState(1) = "Set"
  /\ "2" \in Digits /\ DigitValue["2"] = 2 /\ ModeState(2) = "Reset"
<1>1. Digit(1) = "1" /\ Digit(2) = "2"
  BY DEF Digit, DigitBytes
<1>2. DigitValue[Digit(1)] = 1 /\ Digit(1) \in Digits
  <2>1. DigitValue[Digit(1)] = 1 % 10 /\ Digit(1) \in Digits
    BY DigitOf
  <2>2. 1 % 10 = 1
    OBVIOUS
  <2> QED BY <2>1, <2>2
<1>3. DigitValue[Digit(2)] = 2 /\ Digit(2) \in Digits
  <2>1. DigitValue[Digit(2)] = 2 % 10 /\ Digit(2) \in Digits
    BY DigitOf
  <2>2. 2 % 10 = 2
    OBVIOUS
  <2> QED BY <2>1, <2>2
<1>4. ModeState(1) = "Set" /\ ModeState(2) = "Reset"
  BY DEF ModeState, ModeStates
<1> QED BY <1>1, <1>2, <1>3, <1>4, Zenon

(* a mode report, *)
LEMMA DecrpmSpoken ==
  ASSUME NEW a, a = Answer("decrpm"), NEW s, s \in AnswerBytes(a)
  PROVE  a.kind = "decrpm" /\ Spoken("decrpm", Reported(a), s)
<1> DEFINE m == ModeNumber["BracketedPaste"]
           st == IF m \in screen.modes THEN "Set" ELSE "Reset"
           v == [kind |-> "decrpm", mode |-> m, state |-> st]
           d == IF st = "Set" THEN "1" ELSE "2"
           ps == <<m, DigitValue[d]>>
<1>1. a = v
  BY DEF Answer
<1>3. m \in U16
  BY DEF ModeNumber, U16, U16Max
<1>10. st = "Set" \/ st = "Reset"
  OBVIOUS
<1> HIDE DEF m, st
<1>2. a.kind = "decrpm" /\ a.mode = m /\ a.state = st
  BY <1>1
<1>4. s = CSI \o <<"?">> \o Itoa(m) \o <<";">> \o <<d>> \o <<"$", "y">>
  <2>1. s \in {CSI \o <<"?">> \o Itoa(a.mode) \o <<";">>
                 \o (IF a.state = "Set" THEN <<"1">> ELSE <<"2">>) \o <<"$", "y">>}
    BY <1>2, Zenon DEF AnswerBytes
  <2>2. (IF a.state = "Set" THEN <<"1">> ELSE <<"2">>) = <<d>>
    BY <1>2
  <2> HIDE DEF d
  <2> QED BY <1>2, <2>1, <2>2, Zenon
<1>11. d \in Digits /\ ModeState(DigitValue[d]) = st
  BY <1>10, StateDigits
<1> HIDE DEF d
<1>5. AtEnd(s, "private", ps, "$", "y")
  BY Zenon, <1>3, <1>4, <1>11, DecrpmRead
<1>6. Reported(a) = a
  BY <1>2 DEF Reported
<1>7. Len(ps) = 2 /\ ps[1] = m /\ ps[2] = DigitValue[d]
  OBVIOUS
<1> HIDE DEF ps
<1>8. Decode("decrpm", s)
        = Ok([kind |-> "decrpm", mode |-> ps[1], state |-> ModeState(ps[2])], Len(s))
  BY <1>5, <1>7, DecodeDecrpm
<1>9. Decode("decrpm", s) = Ok(Reported(a), Len(s))
  BY <1>1, <1>6, <1>7, <1>8, <1>11
<1> QED BY <1>2, <1>5, <1>9, EndSpoken DEF Spoken

(* the clipboard, whatever ends the OSC, *)
LEMMA OscSpoken ==
  ASSUME screen.clip \in Seq(Octet), NEW a, a = Answer("osc52"), NEW s, s \in AnswerBytes(a)
  PROVE  a.kind = "osc52" /\ Spoken("osc52", Reported(a), s)
<1> DEFINE p == screen.clip
           v == [kind |-> "osc52", selection |-> "c", payload |-> p]
           b == Base64(p)
<1>1. a = v
  BY DEF Answer
<1>2. a.kind = "osc52" /\ a.payload = p
  BY <1>1
<1>3. p \in Seq(Octet)
  OBVIOUS
<1> HIDE DEF p
<1>4. PICK e \in {ST, <<BEL>>} : s = OSC \o <<"5", "2", ";", "c", ";">> \o b \o e
  <2>1. s \in {OSC \o <<"5", "2", ";", "c", ";">> \o Base64(a.payload) \o end : end \in {ST, <<BEL>>}}
    BY <1>2, Zenon DEF AnswerBytes
  <2> QED BY Zenon, <1>2, <2>1
<1>5. s = (OscFront \o b) \o e
  BY Zenon, <1>4 DEF OscFront
<1>6. IsList(b) /\ IsList(e) /\ Len(e) >= 1
  BY Zenon, <1>3, Base64Back, EndBytes, ListIn
<1>7. IsList(OscFront) /\ Len(OscFront) = 7 /\ OscFront[1] = ESC
  BY Zenon, FrontBytes
<1> HIDE DEF b
<1>8. AllInTurn(OscFront, b, e, (OscFront \o b) \o e)
  BY <1>6, <1>7, ThreeJoined
<1>9. AllInTurn(OscFront, Base64(p), e, s)
  BY <1>5, <1>8 DEF b
<1>10. Decode("osc52", s) = Ok(v, Len(s))
  BY <1>3, <1>9, OscRead
<1>11. Reported(a) = a
  BY <1>2 DEF Reported
<1>12. IsList(s) /\ Len(s) >= 4 /\ s[1] = ESC
  <2>0. AllInTurn(OscFront, b, e, s)
    BY <1>5, <1>8
  <2>1. IsList(s) /\ Len(s) = 7 + Len(b) + Len(e) /\ s[1] = ESC
    BY <1>7, <2>0 DEF AllInTurn
  <2>2. Len(b) \in Nat /\ Len(e) \in Nat
    BY <1>6 DEF IsList
  <2> QED BY <1>6, <2>1, <2>2
<1> QED BY <1>1, <1>2, <1>10, <1>11, <1>12 DEF Spoken

(* The tail of a list, place by place. *)
LEMMA TailPlaces ==
  ASSUME NEW s, IsList(s), Len(s) >= 1
  PROVE  /\ IsList(Tail(s)) /\ Len(Tail(s)) = Len(s) - 1 /\ Head(s) = s[1] /\ Len(s) \in Nat
         /\ \A i \in 1 .. Len(s) - 1 : Tail(s)[i] = s[i + 1]
         /\ DOMAIN Tail(s) = 1 .. Len(s) - 1
<1> DEFINE E == Range(s)
<1>1. s \in Seq(E) /\ Len(s) \in Nat
  BY DEF IsList
<1> HIDE DEF E
<1>2. s # <<>>
  BY <1>1
<1>3. /\ Tail(s) \in Seq(E) /\ Len(Tail(s)) = Len(s) - 1 /\ Head(s) = s[1]
      /\ \A i \in 1 .. Len(s) - 1 : Tail(s)[i] = s[i + 1]
  BY <1>1, <1>2
<1>4. DOMAIN Tail(s) = 1 .. Len(s) - 1
  BY <1>3
<1> QED BY Zenon, <1>1, <1>3, <1>4, ListIn

(* What the caller is told of the device: its attributes, each clamped. *)
LEMMA ClampedTail ==
  LET N == Len(DeviceAttributes)
  IN /\ Head(Clamped(N)) = Clamp(DeviceAttributes[1])
     /\ Tail(Clamped(N)) = [i \in DOMAIN Tail(DeviceAttributes) |-> Clamp(Tail(DeviceAttributes)[i])]
     /\ Clamped(N) # <<>> /\ 1 + Len(Tail(DeviceAttributes)) = N
<1> DEFINE D == DeviceAttributes
           N == Len(D)
           c == Clamped(N)
           t == Tail(D)
           f == [i \in DOMAIN t |-> Clamp(t[i])]
<1>1. IsList(D) /\ N \in Nat /\ N >= 1
  BY DeviceFacts, ListIn
<1>2. IsList(c) /\ Len(c) = N
  BY <1>1, ClampedList
<1>3. \A i \in 1 .. N : c[i] = Clamp(D[i])
  BY DEF Clamped
<1> HIDE DEF D, c
<1> HIDE DEF N
<1>4. /\ IsList(t) /\ Len(t) = N - 1 /\ DOMAIN t = 1 .. N - 1
      /\ \A i \in 1 .. N - 1 : t[i] = D[i + 1]
  BY <1>1, TailPlaces DEF N
<1>5. /\ IsList(Tail(c)) /\ Len(Tail(c)) = N - 1 /\ Head(c) = c[1]
      /\ \A i \in 1 .. N - 1 : Tail(c)[i] = c[i + 1]
  BY <1>1, <1>2, TailPlaces
<1> HIDE DEF t
<1>6. \A i \in 1 .. N - 1 : f[i] = Clamp(t[i])
  BY <1>4
<1>7. f = [i \in 1 .. N - 1 |-> f[i]]
  BY <1>4
<1> HIDE DEF f
<1>8. N - 1 \in Nat
  BY <1>1
<1>9. IsList(f) /\ Len(f) = N - 1
  <2> DEFINE k == N - 1
  <2>1. k \in Nat /\ f = [i \in 1 .. k |-> f[i]]
    BY <1>7, <1>8
  <2> HIDE DEF k
  <2>2. IsList(f) /\ Size(f) = k
    BY <2>1, ListMade
  <2> QED BY <2>2 DEF Size, k
<1>10. \A i \in 1 .. Len(f) : Tail(c)[i] = f[i]
  <2> SUFFICES ASSUME NEW i \in 1 .. Len(f) PROVE Tail(c)[i] = f[i]
    BY Zenon
  <2>1. i \in 1 .. N - 1 /\ i + 1 \in 1 .. N
    BY <1>1, <1>9
  <2>2. Tail(c)[i] = c[i + 1] /\ c[i + 1] = Clamp(D[i + 1]) /\ t[i] = D[i + 1] /\ f[i] = Clamp(t[i])
    BY <1>3, <1>4, <1>5, <1>6, <2>1
  <2> QED BY Zenon, <2>2
<1>11. Tail(c) = f
  <2> DEFINE u == Tail(c)
  <2>1. IsList(u) /\ Len(u) = Len(f) /\ \A i \in 1 .. Len(u) : u[i] = f[i]
    BY <1>5, <1>9, <1>10
  <2> HIDE DEF u
  <2>2. u = f
    BY <1>9, <2>1, SameList
  <2> QED BY <2>2 DEF u
<1>12. Head(c) = Clamp(D[1])
  BY <1>1, <1>3, <1>5
<1>13. c # <<>>
  BY <1>1, <1>2
<1>14. 1 + Len(t) = N
  BY <1>1, <1>4
<1> QED BY <1>11, <1>12, <1>13, <1>14 DEF c, D, N, t, f

(* and the device attributes. *)
LEMMA Da1Spoken ==
  ASSUME NEW a, a = Answer("da1"), NEW s, s \in AnswerBytes(a)
  PROVE  a.kind = "da1" /\ Spoken("da1", Reported(a), s)
<1> DEFINE D == DeviceAttributes
           N == Len(D)
           t == Tail(D)
           v == [kind |-> "da1", id |-> D[1], capabilities |-> t]
           ps == Clamped(N)
           f == [i \in DOMAIN t |-> Clamp(t[i])]
<1>1. a = v
  BY DEF Answer
<1>2. a.kind = "da1" /\ a.id = D[1] /\ a.capabilities = t
  BY <1>1
<1>3. /\ Head(ps) = Clamp(D[1]) /\ Tail(ps) = f /\ ps # <<>> /\ 1 + Len(t) = N
  BY ClampedTail
<1>4. s = CSI \o <<"?">> \o Join(Numerals(N), ";") \o <<"c">>
  <2>1. s \in {CSI \o <<"?">> \o Join([i \in 1 .. (1 + Len(a.capabilities)) |->
                 Itoa(DeviceAttributes[i])], ";") \o <<"c">>}
    BY <1>2, Zenon DEF AnswerBytes
  <2>2. [i \in 1 .. (1 + Len(a.capabilities)) |-> Itoa(DeviceAttributes[i])] = Numerals(N)
    BY <1>2, <1>3, Zenon DEF Numerals
  <2> QED BY <2>1, <2>2, Zenon
<1>5. AtEnd(s, "private", ps, "none", "c")
  BY Zenon, <1>4, Da1Read
<1>6. Reported(a) = [kind |-> "da1", id |-> Clamp(D[1]), capabilities |-> f]
  <2> HIDE DEF D
  <2> QED BY <1>2, Zenon DEF Reported
<1> HIDE DEF ps, f, t, N
<1>8. Decode("da1", s) = Ok([kind |-> "da1", id |-> Head(ps), capabilities |-> Tail(ps)], Len(s))
  BY <1>3, <1>5, DecodeDa1
<1>9. Decode("da1", s) = Ok(Reported(a), Len(s))
  BY Zenon, <1>3, <1>6, <1>8
<1> QED BY <1>2, <1>5, <1>9, EndSpoken DEF Spoken

(* Whatever the terminal answers, the decoder of that kind of answer takes  *)
(* it whole, for what was said.                                             *)
THEOREM AnswersAreRead ==
  ASSUME ScreenOK(screen), screen.clip \in Seq(Octet), NEW q \in DOMAIN QueryBytes,
         NEW a, a = Answer(q), NEW s \in AnswerBytes(a)
  PROVE  a.kind \in Decoders /\ Spoken(a.kind, Reported(a), s)
<1>1. q \in {"da1", "dsr", "kitty", "decrpm", "osc52"}
  BY DEF QueryBytes
<1>2. CASE q = "da1"
  BY <1>2, Da1Spoken DEF Decoders
<1>3. CASE q = "dsr"
  BY <1>3, DsrSpoken DEF Decoders
<1>4. CASE q = "kitty"
  BY <1>4, KittySpoken DEF Decoders
<1>5. CASE q = "decrpm"
  BY <1>5, DecrpmSpoken DEF Decoders
<1>6. CASE q = "osc52"
  BY <1>6, OscSpoken DEF Decoders
<1> QED BY <1>1, <1>2, <1>3, <1>4, <1>5, <1>6

-----------------------------------------------------------------------------
(* What a decoder takes, byte by byte.                                      *)

(* The scan of a sequence with one more byte. *)
LEMMA ParseNext ==
  ASSUME NEW s, IsList(s), NEW x
  PROVE  LET c == ParseCsi(Append(s, x))
         IN /\ Len(s) < 1 => c = CsiStart(FALSE)
            /\ Len(s) = 1 => c = CsiStart(FALSE) \/ c.at = "malformed"
            /\ Len(s) = 2 /\ x = "?" => c = CsiStart(TRUE) \/ c.at = "malformed"
            /\ Len(s) > 2 \/ (Len(s) = 2 /\ x # "?") => c = CsiByte(ParseCsi(s), x)
<1> DEFINE q == Append(s, x)
           n == Len(s)
           bad == [CsiStart(FALSE) EXCEPT !.at = "malformed"]
           base == CsiStart(FALSE)
<1>1. /\ IsList(q) /\ n \in Nat /\ Len(q) = n + 1 /\ q[n + 1] = x
      /\ \A i \in 1 .. n : q[i] = s[i]
  BY ListAppend
<1>2. bad.at = "malformed" /\ CsiByte(bad, x) = bad
  <2>1. bad.at = "malformed"
    BY DEF CsiStart
  <2> HIDE DEF bad
  <2> QED BY <2>1 DEF CsiByte
<1>3. n >= 2 /\ <<s[1], s[2]>> # CSI => ParseCsi(s) = bad
  BY Zenon, ParseCases
<1>4. /\ Len(q) < 2 => ParseCsi(q) = base
      /\ Len(q) >= 2 /\ <<q[1], q[2]>> # CSI => ParseCsi(q) = bad
      /\ Len(q) >= 2 /\ <<q[1], q[2]>> = CSI =>
           ParseCsi(q) = CsiScan(CsiStart(Private(q)), SubSeq(q, BodyFrom(q), Len(q)))
  <2> HIDE DEF q
  <2> QED BY Zenon, <1>1, ParseCases
<1> SUFFICES /\ n < 1 => ParseCsi(q) = base
             /\ n = 1 => ParseCsi(q) = base \/ ParseCsi(q).at = "malformed"
             /\ n = 2 /\ x = "?" => ParseCsi(q) = CsiStart(TRUE) \/ ParseCsi(q).at = "malformed"
             /\ n > 2 \/ (n = 2 /\ x # "?") => ParseCsi(q) = CsiByte(ParseCsi(s), x)
  BY Zenon
<1> HIDE DEF bad, q
<1>5. ASSUME NEW start \in CsiState PROVE CsiScan(start, <<>>) = start
  <2> DEFINE none == <<>>
             A == {x}
  <2>1. ListOf(none, A) /\ x \in A
    BY DEF ListOf
  <2> HIDE DEF none, A
  <2>2. CsiScan(start, <<>>) = start
    BY Zenon, <1>5, <2>1, ScanFacts
  <2> QED BY <2>2
<1>6. ASSUME NEW m \in Nat, m = Len(q) + 1 PROVE SubSeq(q, m, Len(q)) = <<>>
  <2> DEFINE k == Len(q)
  <2>1. m \in Int /\ k \in Int /\ k < m
    BY <1>1, <1>6
  <2> HIDE DEF k
  <2>2. SubSeq(q, m, k) = <<>>
    BY <2>1, SubSeqEmpty
  <2> QED BY <2>2 DEF k
<1>7. CASE n < 1
  <2>1. Len(q) < 2 /\ ~(n = 1) /\ ~(n = 2) /\ ~(n > 2)
    BY <1>1, <1>7
  <2> QED BY Zenon, <1>4, <2>1
<1>8. CASE n = 1
  <2>1. Len(q) = 2 /\ ~(n < 1) /\ ~(n = 2) /\ ~(n > 2)
    BY <1>1, <1>8
  <2>2. CASE <<q[1], q[2]>> # CSI
    <3>1. Len(q) >= 2
      BY <2>1
    <3>2. ParseCsi(q) = bad
      BY <1>4, <2>2, <3>1
    <3>3. ParseCsi(q).at = "malformed"
      BY <1>2, <3>2
    <3> HIDE DEF n
    <3> QED BY Zenon, <2>1, <3>3
  <2>3. CASE <<q[1], q[2]>> = CSI
    <3>1. Private(q) = FALSE /\ BodyFrom(q) = 3
      BY <2>1 DEF Private, BodyFrom
    <3>2. ParseCsi(q) = CsiScan(base, SubSeq(q, 3, Len(q)))
      <4>1. Len(q) >= 2
        BY <2>1
      <4>2. ParseCsi(q) = CsiScan(CsiStart(Private(q)), SubSeq(q, BodyFrom(q), Len(q)))
        BY <1>4, <2>3, <4>1
      <4> QED BY <3>1, <4>2, Zenon
    <3>3. SubSeq(q, 3, Len(q)) = <<>>
      BY <1>6, <2>1
    <3>4. base \in CsiState
      BY Zenon, CsiStartType
    <3> HIDE DEF base
    <3>5. ParseCsi(q) = base
      BY Zenon, <1>5, <3>2, <3>3, <3>4
    <3> QED BY Zenon, <2>1, <3>5
  <2> QED BY Zenon, <2>2, <2>3
<1>9. CASE n = 2 /\ x = "?"
  <2>1. Len(q) = 3 /\ ~(n < 1) /\ ~(n = 1) /\ ~(n > 2) /\ q[3] = "?"
    BY <1>1, <1>9
  <2>2. CASE <<q[1], q[2]>> # CSI
    <3>1. Len(q) >= 2
      BY <2>1
    <3>2. ParseCsi(q) = bad
      BY <1>4, <2>2, <3>1
    <3>3. ParseCsi(q).at = "malformed"
      BY <1>2, <3>2
    <3> HIDE DEF n
    <3> QED BY <1>9, <2>1, <3>3
  <2>3. CASE <<q[1], q[2]>> = CSI
    <3> DEFINE start == CsiStart(TRUE)
    <3>1. Private(q) = TRUE /\ BodyFrom(q) = 4
      BY <2>1 DEF Private, BodyFrom
    <3>2. ParseCsi(q) = CsiScan(start, SubSeq(q, 4, Len(q)))
      <4>1. Len(q) >= 2
        BY <2>1
      <4>2. ParseCsi(q) = CsiScan(CsiStart(Private(q)), SubSeq(q, BodyFrom(q), Len(q)))
        BY <1>4, <2>3, <4>1
      <4> QED BY <3>1, <4>2, Zenon
    <3>3. SubSeq(q, 4, Len(q)) = <<>>
      BY <1>6, <2>1
    <3>4. start \in CsiState
      BY Zenon, CsiStartType
    <3> HIDE DEF start
    <3>5. ParseCsi(q) = start
      BY Zenon, <1>5, <3>2, <3>3, <3>4
    <3> QED BY <1>9, <2>1, <3>5 DEF start
  <2> QED BY Zenon, <2>2, <2>3
<1>10. CASE n > 2 \/ (n = 2 /\ x # "?")
  <2>0. n >= 2 /\ q[1] = s[1] /\ q[2] = s[2] /\ Len(q) >= 2 /\ ~(n < 1) /\ ~(n = 1)
    <3> HIDE DEF n
    <3> QED BY <1>1, <1>10
  <2>1. ~(n = 2 /\ x = "?")
    BY <1>1, <1>10
  <2>2. CASE <<s[1], s[2]>> # CSI
    <3>1. ParseCsi(q) = bad /\ ParseCsi(s) = bad
      BY <1>3, <1>4, <2>0, <2>2
    <3> HIDE DEF n
    <3> QED BY Zenon, <1>2, <2>0, <2>1, <3>1
  <2>3. CASE <<s[1], s[2]>> = CSI
    <3> DEFINE start == CsiStart(Private(s))
               m == BodyFrom(s)
               b == SubSeq(s, m, n)
    <3>1. ParseCsi(s) = CsiScan(start, b)
      BY Zenon, <2>0, <2>3, ParseCases
    <3>2. start \in CsiState
      BY StartType
    <3>3. (Private(q) <=> Private(s)) /\ BodyFrom(q) = m
      <4>1. CASE n > 2
        <5>1. n + 1 > 2 /\ q[3] = s[3]
          <6> HIDE DEF n
          <6> QED BY <1>1, <4>1
        <5> QED BY <1>1, <4>1, <5>1 DEF Private, BodyFrom
      <4>2. CASE n = 2
        <5>1. q[3] = x /\ x # "?" /\ Len(q) = 3
          BY <1>1, <1>10, <4>2
        <5> QED BY <4>2, <5>1 DEF Private, BodyFrom
      <4> QED BY <1>10, <4>1, <4>2
    <3>4. CsiStart(Private(q)) = start
      <4>1. CASE Private(s)
        BY <3>3, <4>1, Zenon
      <4>2. CASE ~Private(s)
        <5>1. Private(s) = FALSE /\ Private(q) = FALSE
          BY <3>3, <4>2 DEF Private
        <5> QED BY <5>1, Zenon
      <4> QED BY <4>1, <4>2
    <3>5. m \in Nat \ {0} /\ (m <= Len(s) \/ m = Len(s) + 1)
      BY <1>1, <2>0 DEF BodyFrom, Private
    <3>6. ParseCsi(q) = CsiScan(start, SubSeq(q, m, Len(q)))
      <4>1. ParseCsi(q) = CsiScan(CsiStart(Private(q)), SubSeq(q, BodyFrom(q), Len(q)))
        BY <1>4, <2>0, <2>3
      <4> HIDE DEF start, m
      <4> QED BY <3>3, <3>4, <4>1
    <3> DEFINE A == Range(b) \cup {x}
    <3>7. SubSeq(q, m, Len(q)) = Append(b, x)
      <4>1. CASE m <= Len(s)
        <5>1. SubSeq(Append(s, x), m, Len(s) + 1) = Append(SubSeq(s, m, Len(s)), x)
          <6> HIDE DEF m
          <6> QED BY <3>5, <4>1, SliceGrows
        <5> QED BY Zenon, <1>1, <5>1 DEF q
      <4>2. CASE m = Len(s) + 1
        <5>1. b = <<>>
          <6>1. m \in Int /\ n \in Int /\ n < m
            BY <1>1, <3>5, <4>2
          <6> HIDE DEF m, n
          <6> QED BY <6>1, SubSeqEmpty
        <5>2. SubSeq(q, m, Len(q)) = <<x>>
          <6> DEFINE u == SubSeq(q, m, Len(q))
          <6>1. m \in Nat \ {0} /\ Len(q) \in Nat /\ m = Len(q) /\ Len(q) <= Len(q) /\ q[m] = x
            BY <1>1, <3>5, <4>2
          <6> HIDE DEF m
          <6>2. IsList(u) /\ Len(u) = Len(q) - m + 1 /\ \A i \in 1 .. Len(q) - m + 1 : u[i] = q[m + i - 1]
            BY <1>1, <6>1, Slice
          <6> HIDE DEF u
          <6>3. Len(u) = 1 /\ u[1] = x
            BY <6>1, <6>2
          <6>4. IsList(<<x>>) /\ Len(<<x>>) = 1 /\ <<x>>[1] = x
            BY ListLiteral DEF Literals, Size
          <6> DEFINE w == <<x>>
          <6>5. IsList(w) /\ Len(u) = Len(w) /\ \A i \in 1 .. Len(u) : u[i] = w[i]
            BY <6>3, <6>4
          <6> HIDE DEF w
          <6>6. u = w
            BY <6>2, <6>5, SameList
          <6> QED BY <6>6 DEF u, w
        <5>3. Append(<<>>, x) = <<x>>
          OBVIOUS
        <5> QED BY <5>1, <5>2, <5>3
      <4> QED BY Zenon, <3>5, <4>1, <4>2
    <3>8. IsList(b)
      <4>1. n \in Nat /\ n <= Len(s)
        BY <1>1
      <4> HIDE DEF m, n
      <4> QED BY <3>5, <4>1, Slice
    <3>9. ListOf(b, A) /\ x \in A
      <4> HIDE DEF b
      <4> QED BY <3>8, ListTyped DEF ListOf
    <3> HIDE DEF start, b, A
    <3>10. CsiScan(start, Append(b, x)) = CsiByte(CsiScan(start, b), x)
      BY <3>2, <3>9, ScanFacts
    <3>11. ParseCsi(q) = CsiByte(ParseCsi(s), x)
      BY <3>1, <3>6, <3>7, <3>10
    <3> HIDE DEF n
    <3> QED BY Zenon, <2>0, <2>1, <3>11
  <2> QED BY Zenon, <2>2, <2>3
<1>11. n < 1 \/ n = 1 \/ (n = 2 /\ x = "?") \/ n > 2 \/ (n = 2 /\ x # "?")
  <2> HIDE DEF n
  <2> QED BY <1>1
<1> HIDE DEF n, base
<1> QED BY Zenon, <1>7, <1>8, <1>9, <1>10, <1>11

(* A byte that is taken is counted. *)
LEMMA ByteTaken ==
  ASSUME NEW s \in CsiState, s.at = "body", NEW b, NEW r, r = CsiByte(s, b), r.at # "malformed"
  PROVE  r.consumed = s.consumed + 1
<1> DEFINE read == [s EXCEPT !.consumed = @ + 1]
           bad == [s EXCEPT !.at = "malformed"]
           k == s.consumed + 1
<1>1. read \in CsiState /\ read.consumed = k
  BY ReadFields
<1>2. bad.at = "malformed"
  BY DEF CsiState
<1>3. Push(read) \in CsiState /\ Push(read).consumed = k
  <2> HIDE DEF read
  <2> QED BY Zenon, <1>1, PushFields
<1>4. CASE b \in Digits
  <2> DEFINE n == Saturated(read.current * 10 + DigitValue[b])
  <2>2. r = [read EXCEPT !.haveDigit = TRUE, !.current = n]
    BY Zenon, <1>4, ByteClasses DEF CsiByte
  <2> HIDE DEF n, read
  <2> QED BY <1>1, <2>2 DEF CsiState
<1>5. CASE b \notin Digits /\ b = ";"
  <2>1. r \in {bad, Push(read)}
    BY Zenon, <1>5, ByteClasses DEF CsiByte
  <2> HIDE DEF bad, read
  <2> QED BY <1>2, <1>3, <2>1
<1>6. CASE b \notin Digits /\ b # ";" /\ b \in Intermediates
  <2>1. \/ r = bad
        \/ r = [Push(read) EXCEPT !.intermediate = b]
        \/ r = [read EXCEPT !.intermediate = b]
    BY Zenon, <1>6, ByteClasses DEF CsiByte
  <2>2. ASSUME NEW t \in CsiState, t.consumed = k PROVE [t EXCEPT !.intermediate = b].consumed = k
    BY <2>2 DEF CsiState
  <2> HIDE DEF read, bad, k
  <2> QED BY Zenon, <1>1, <1>2, <1>3, <2>1, <2>2 DEF k
<1>7. CASE b \notin Digits /\ b # ";" /\ b \notin Intermediates /\ b \in Finals
  <2>1. \/ r = bad
        \/ r = [Push(read) EXCEPT !.at = "done", !.final = b]
        \/ r = [read EXCEPT !.at = "done", !.final = b]
    BY Zenon, <1>7 DEF CsiByte
  <2>2. ASSUME NEW t \in CsiState, t.consumed = k
        PROVE  [t EXCEPT !.at = "done", !.final = b].consumed = k
    BY <2>2 DEF CsiState
  <2> HIDE DEF read, bad, k
  <2> QED BY Zenon, <1>1, <1>2, <1>3, <2>1, <2>2 DEF k
<1>8. CASE b \notin Digits /\ b # ";" /\ b \notin Intermediates /\ b \notin Finals
  <2>1. r = bad
    BY Zenon, <1>8 DEF CsiByte
  <2> QED BY <1>2, <2>1
<1> QED BY Zenon, <1>4, <1>5, <1>6, <1>7, <1>8

(* A scan that has seen no digit and no ";" has no parameters to keep. *)
LEMMA ByteIdle ==
  ASSUME NEW s \in CsiState, s.at = "body", s.params = <<>>, s.haveDigit = FALSE,
         NEW b, b \notin Digits, b # ";", NEW r, r = CsiByte(s, b), r.at # "malformed"
  PROVE  r.params = <<>> /\ r.haveDigit = FALSE /\ b \in Intermediates \cup Finals
<1> DEFINE read == [s EXCEPT !.consumed = @ + 1]
           bad == [s EXCEPT !.at = "malformed"]
<1>1. read \in CsiState /\ read.params = <<>> /\ read.haveDigit = FALSE
  BY Zenon, ReadFields
<1>2. bad.at = "malformed"
  BY Zenon DEF CsiState
<1>6. CASE b \in Intermediates
  <2>1. r = bad \/ r = [read EXCEPT !.intermediate = b]
    BY Zenon, <1>6, ByteClasses DEF CsiByte
  <2> HIDE DEF read
  <2>2. [read EXCEPT !.intermediate = b].params = <<>> /\ [read EXCEPT !.intermediate = b].haveDigit = FALSE
    BY Zenon, <1>1 DEF CsiState
  <2> QED BY Zenon, <1>2, <1>6, <2>1, <2>2
<1>7. CASE b \notin Intermediates /\ b \in Finals
  <2>0. ~FlushesAtFinal(s)
    BY Zenon DEF FlushesAtFinal
  <2>1. r = bad \/ r = [read EXCEPT !.at = "done", !.final = b]
    BY Zenon, <1>7, <2>0 DEF CsiByte
  <2> HIDE DEF read
  <2>2. /\ [read EXCEPT !.at = "done", !.final = b].params = <<>>
        /\ [read EXCEPT !.at = "done", !.final = b].haveDigit = FALSE
    BY Zenon, <1>1 DEF CsiState
  <2> QED BY Zenon, <1>2, <1>7, <2>1, <2>2
<1>8. CASE b \notin Intermediates /\ b \notin Finals
  <2>1. r = bad
    BY Zenon, <1>8 DEF CsiByte
  <2> QED BY Zenon, <1>2, <2>1
<1> QED BY Zenon, <1>6, <1>7, <1>8

(* The scan has begun only on CSI. *)
LEMMA ScanBegun ==
  ASSUME NEW s, IsList(s), Len(s) >= 2, ParseCsi(s).at # "malformed"
  PROVE  s[2] = "["
<1> DEFINE bad == [CsiStart(FALSE) EXCEPT !.at = "malformed"]
<1>1. bad.at = "malformed"
  BY DEF CsiStart
<1> HIDE DEF bad
<1>2. <<s[1], s[2]>> # CSI => ParseCsi(s) = bad
  BY Zenon, ParseCases DEF bad
<1>3. <<s[1], s[2]>> = CSI
  BY <1>1, <1>2
<1> QED BY <1>3 DEF CSI

(* One more byte takes the scan from running to running or to its end, or   *)
(* leaves it where it stopped.                                              *)
LEMMA ByteAfter ==
  ASSUME NEW c \in CsiState, NEW x, CsiByte(c, x).at # "malformed"
  PROVE  c.at = "body" \/ (c.at = "done" /\ CsiByte(c, x) = c)
<1>1. c.at # "body" => CsiByte(c, x) = c
  BY Zenon DEF CsiByte
<1>2. c.at \in {"body", "done", "malformed"}
  BY CsiFields
<1> QED BY <1>1, <1>2

(* Before the first byte of the body, two bytes or three have been read. *)
LEMMA StartFields ==
  /\ CsiStart(FALSE).consumed = 2 /\ CsiStart(TRUE).consumed = 3
  /\ CsiStart(FALSE).params = <<>> /\ CsiStart(FALSE).haveDigit = FALSE
  /\ CsiStart(TRUE).params = <<>> /\ CsiStart(TRUE).haveDigit = FALSE
<1>1. CsiStart(FALSE).consumed = 2
  BY DEF CsiStart
<1>2. CsiStart(TRUE).consumed = 3
  BY DEF CsiStart
<1>3. CsiStart(FALSE).params = <<>> /\ CsiStart(FALSE).haveDigit = FALSE
  BY DEF CsiStart
<1>4. CsiStart(TRUE).params = <<>> /\ CsiStart(TRUE).haveDigit = FALSE
  BY DEF CsiStart
<1> QED BY Zenon, <1>1, <1>2, <1>3, <1>4

(* The scan has read two bytes at least and not more than there are.        *)
ReadFits(s) == LET c == ParseCsi(s) IN c.at # "malformed" /\ Len(s) >= 2 => c.consumed \in 2 .. Len(s)

(* One byte more. *)
LEMMA ReadFitsNext ==
  ASSUME NEW s, IsList(s), NEW x, ReadFits(s)
  PROVE  ReadFits(Append(s, x))
<1> DEFINE q == Append(s, x)
           n == Len(s)
           c == ParseCsi(s)
           r == ParseCsi(q)
<1>1. n \in Nat /\ Len(q) = n + 1
  BY ListAppend
<1>2. /\ n < 1 => r = CsiStart(FALSE)
      /\ n = 1 => r = CsiStart(FALSE) \/ r.at = "malformed"
      /\ n = 2 /\ x = "?" => r = CsiStart(TRUE) \/ r.at = "malformed"
      /\ n > 2 \/ (n = 2 /\ x # "?") => r = CsiByte(c, x)
  BY Zenon, ParseNext
<1>3. c \in CsiState
  BY ParseType
<1>4. c.at # "malformed" /\ n >= 2 => c.consumed \in 2 .. n
  BY DEF ReadFits
<1> SUFFICES ASSUME r.at # "malformed", Len(q) >= 2 PROVE r.consumed \in 2 .. Len(q)
  BY DEF ReadFits
<1> HIDE DEF q, n, c, r
<1>5. CASE n = 1
  <2>1. r.consumed = 2
    BY Zenon, <1>2, <1>5, StartFields
  <2> QED BY <1>1, <1>5, <2>1
<1>6. CASE n = 2 /\ x = "?"
  <2>1. r.consumed = 3
    BY Zenon, <1>2, <1>6, StartFields
  <2> QED BY <1>1, <1>6, <2>1
<1>7. CASE n > 2 \/ (n = 2 /\ x # "?")
  <2>1. r = CsiByte(c, x) /\ n >= 2
    BY <1>1, <1>2, <1>7
  <2>2. c.at = "body" \/ (c.at = "done" /\ r = c)
    BY <1>3, <2>1, ByteAfter
  <2>3. c.consumed \in 2 .. n
    BY <1>3, <1>4, <2>1, <2>2, CsiFields
  <2>4. CASE c.at = "body"
    <3>1. r.consumed = c.consumed + 1
      BY <1>3, <2>1, <2>4, ByteTaken
    <3> QED BY <1>1, <2>3, <3>1
  <2>5. CASE r = c
    BY <1>1, <2>3, <2>5
  <2> QED BY <2>2, <2>4, <2>5
<1>8. n = 1 \/ n = 2 \/ n > 2
  BY <1>1
<1> QED BY <1>5, <1>6, <1>7, <1>8

(* So for all lists, by induction. *)
LEMMA ReadFitsAll == ASSUME NEW s, IsList(s) PROVE ReadFits(s)
<1> DEFINE E == Range(s)
           Q == {u \in Seq(E) : ReadFits(u)}
<1>1. ListOf(s, E)
  BY DEF IsList, ListOf
<1> HIDE DEF E
<1>2. <<>> \in Q
  <2>1. Len(<<>>) = 0 /\ <<>> \in Seq(E)
    OBVIOUS
  <2> QED BY <2>1 DEF ReadFits
<1>3. ASSUME NEW u \in Seq(E), NEW x \in E, u \in Q PROVE Append(u, x) \in Q
  <2>1. Append(u, x) \in Seq(E) /\ IsList(u) /\ ReadFits(u)
    BY <1>3, ListIn
  <2> QED BY <2>1, ReadFitsNext
<1> HIDE DEF Q
<1>4. s \in Q
  BY <1>1, <1>2, <1>3, ListsInductive
<1> QED BY <1>4 DEF Q

(* A decoder takes no more bytes than have arrived. *)
THEOREM TakenArrived ==
  ASSUME NEW s, IsList(s), NEW d \in Decoders, Decode(d, s).result = "ok"
  PROVE  Decode(d, s).consumed \in 1 .. Len(s)
<1>0. Decode(d, s).consumed \in Nat /\ Len(s) \in Nat
  BY ConsumedNat DEF IsList
<1>1. CASE d \in CsiDecoders
  <2>1. ParseCsi(s).at = "done" /\ Decode(d, s).consumed = ParseCsi(s).consumed
    BY Zenon, <1>1, CsiAccepts
  <2>2. Len(s) >= 2
    BY <2>1, ParseType
  <2>3. ReadFits(s)
    BY ReadFitsAll
  <2>4. ParseCsi(s).consumed \in 2 .. Len(s)
    BY <2>1, <2>2, <2>3 DEF ReadFits
  <2> QED BY <1>0, <2>1, <2>4
<1>2. CASE d = "osc52"
  <2>1. Osc52(s) = Taken(s) /\ Stop(s) \in 8 .. Len(s) /\ Decode(d, s) = Osc52(s)
    BY <1>2, OscDecode, OscAccepts DEF Stops
  <2>2. \/ Taken(s).consumed = Stop(s) + 1 /\ Ended(s)
        \/ Taken(s).consumed = Stop(s)
    BY DEF Taken, Ok
  <2>3. Ended(s) => Stop(s) + 1 <= Len(s)
    BY <1>0, <2>1 DEF Ended
  <2> QED BY <1>0, <2>1, <2>2, <2>3
<1> QED BY <1>1, <1>2, DecodersAre

(* Bytes that ask nothing of a decoder: no digit and no ";" before an ESC   *)
(* that is not the first byte.                                              *)
Parameters == Digits \cup {";"}
Clean(s) == \A i \in 1 .. Len(s) : s[i] \in Parameters => \E j \in 2 .. i : s[j] = ESC

(* A scan of them that has not failed has no parameter, and while it runs   *)
(* has met no ESC.                                                          *)
Idle(s) ==
  LET c == ParseCsi(s)
  IN c.at # "malformed" =>
       /\ c.params = <<>> /\ c.haveDigit = FALSE
       /\ c.at = "body" => \A j \in 3 .. Len(s) : s[j] # ESC

(* ESC is no byte of a control sequence, after the first. *)
LEMMA EscapeIs == ESC \notin Parameters \cup Intermediates \cup Finals /\ ESC # "?" /\ ESC # "["
  /\ "5" \in Parameters /\ "]" # ESC /\ "5" # ESC
BY ByteClasses DEF ESC, Parameters, Intermediates, Finals

(* All but the last byte of a clean list is clean. *)
LEMMA CleanBefore ==
  ASSUME NEW s, IsList(s), NEW x, Clean(Append(s, x))
  PROVE  Clean(s) /\ (x \in Parameters => \E j \in 2 .. Len(s) : s[j] = ESC)
<1> DEFINE q == Append(s, x)
           n == Len(s)
<1>1. n \in Nat /\ Len(q) = n + 1 /\ q[n + 1] = x /\ \A i \in 1 .. n : q[i] = s[i]
  BY ListAppend
<1>2. \A i \in 1 .. Len(q) : q[i] \in Parameters => \E j \in 2 .. i : q[j] = ESC
  BY DEF Clean
<1>3. x \in Parameters => x # ESC
  BY EscapeIs
<1> HIDE DEF q
<1>4. ASSUME NEW i \in 1 .. n, s[i] \in Parameters PROVE \E j \in 2 .. i : s[j] = ESC
  <2>1. i \in 1 .. Len(q) /\ q[i] = s[i]
    BY <1>1
  <2>2. PICK j \in 2 .. i : q[j] = ESC
    BY <1>2, <1>4, <2>1
  <2>3. j \in 1 .. n
    BY <1>1
  <2> QED BY <1>1, <2>2, <2>3
<1>5. ASSUME x \in Parameters PROVE \E j \in 2 .. n : s[j] = ESC
  <2>1. n + 1 \in 1 .. Len(q)
    BY <1>1
  <2>2. PICK j \in 2 .. n + 1 : q[j] = ESC
    BY <1>1, <1>2, <1>5, <2>1
  <2>3. j # n + 1
    BY <1>1, <1>3, <1>5, <2>2
  <2>4. j \in 2 .. n /\ j \in 1 .. n
    BY <1>1, <2>3
  <2> QED BY <1>1, <2>2, <2>4
<1>6. Clean(s)
  BY <1>4 DEF Clean
<1> QED BY <1>5, <1>6

(* One byte more. *)
LEMMA IdleNext ==
  ASSUME NEW s, IsList(s), NEW x, Idle(s), Clean(Append(s, x))
  PROVE  Idle(Append(s, x))
<1> DEFINE q == Append(s, x)
           n == Len(s)
           c == ParseCsi(s)
           r == ParseCsi(q)
<1>1. IsList(q) /\ n \in Nat /\ Len(q) = n + 1 /\ q[n + 1] = x /\ \A i \in 1 .. n : q[i] = s[i]
  BY ListAppend
<1>2. /\ n < 1 => r = CsiStart(FALSE)
      /\ n = 1 => r = CsiStart(FALSE) \/ r.at = "malformed"
      /\ n = 2 /\ x = "?" => r = CsiStart(TRUE) \/ r.at = "malformed"
      /\ n > 2 \/ (n = 2 /\ x # "?") => r = CsiByte(c, x)
  BY Zenon, ParseNext
<1>3. c \in CsiState /\ r \in CsiState
  BY <1>1, ParseType
<1>4. c.at # "malformed" =>
        /\ c.params = <<>> /\ c.haveDigit = FALSE
        /\ c.at = "body" => \A j \in 3 .. n : s[j] # ESC
  BY DEF Idle
<1>5. x \in Parameters => \E j \in 2 .. n : s[j] = ESC
  BY CleanBefore
<1>6. c.at # "malformed" /\ n >= 2 => s[2] # ESC
  <2>1. c.at # "malformed" /\ n >= 2 => s[2] = "["
    BY ScanBegun
  <2> QED BY <2>1, EscapeIs
<1> SUFFICES ASSUME r.at # "malformed"
             PROVE  /\ r.params = <<>> /\ r.haveDigit = FALSE
                    /\ r.at = "body" => \A j \in 3 .. Len(q) : q[j] # ESC
  BY Zenon DEF Idle
<1> HIDE DEF q, n, c, r
<1>7. CASE n < 1 \/ n = 1
  <2>1. r.params = <<>> /\ r.haveDigit = FALSE
    BY Zenon, <1>2, <1>7, StartFields
  <2>2. 3 .. Len(q) = {}
    BY <1>1, <1>7
  <2> QED BY <2>1, <2>2
<1>8. CASE n = 2 /\ x = "?"
  <2>1. r.params = <<>> /\ r.haveDigit = FALSE
    BY Zenon, <1>2, <1>8, StartFields
  <2>2. \A j \in 3 .. Len(q) : j = n + 1
    BY <1>1, <1>8
  <2>3. x # ESC
    BY <1>8, EscapeIs
  <2> QED BY <1>1, <2>1, <2>2, <2>3
<1>9. CASE n > 2 \/ (n = 2 /\ x # "?")
  <2>1. r = CsiByte(c, x) /\ n >= 2
    BY <1>1, <1>2, <1>9
  <2>2. c.at = "body" \/ (c.at = "done" /\ r = c)
    BY <1>3, <2>1, ByteAfter
  <2>3. CASE c.at = "body"
    <3>1. c.params = <<>> /\ c.haveDigit = FALSE /\ \A j \in 3 .. n : s[j] # ESC
      BY <1>4, <2>3
    <3>2. \A j \in 2 .. n : s[j] # ESC
      <4>1. \A j \in 2 .. n : j = 2 \/ j \in 3 .. n
        BY <1>1
      <4> QED BY <1>6, <2>1, <2>3, <3>1, <4>1
    <3>3. x \notin Parameters
      BY <1>5, <3>2
    <3>4. x \notin Digits /\ x # ";"
      BY Zenon, <3>3 DEF Parameters
    <3>5. r.params = <<>> /\ r.haveDigit = FALSE /\ x \in Intermediates \cup Finals
      BY Zenon, <1>3, <2>1, <2>3, <3>1, <3>4, ByteIdle
    <3>6. x # ESC
      BY <3>5, EscapeIs
    <3>7. \A j \in 3 .. Len(q) : j = n + 1 \/ (j \in 2 .. n /\ j \in 1 .. n)
      BY <1>1
    <3> QED BY <1>1, <3>2, <3>5, <3>6, <3>7
  <2>4. CASE c.at = "done" /\ r = c
    BY <1>4, <2>4
  <2> QED BY Zenon, <2>2, <2>3, <2>4
<1>10. n < 1 \/ n = 1 \/ n = 2 \/ n > 2
  BY <1>1
<1> QED BY Zenon, <1>7, <1>8, <1>9, <1>10

(* So for all clean lists, by induction. *)
LEMMA CleanIdle == ASSUME NEW s, IsList(s), Clean(s) PROVE Idle(s)
<1> DEFINE E == Range(s)
           Q == {u \in Seq(E) : Clean(u) => Idle(u)}
<1>1. ListOf(s, E)
  BY DEF IsList, ListOf
<1> HIDE DEF E
<1>2. <<>> \in Q
  <2> DEFINE none == <<>>
  <2>1. Len(none) = 0 /\ none \in Seq(E) /\ IsList(none)
    BY ListLiteral DEF Literals
  <2> HIDE DEF none
  <2>2. ParseCsi(none) = CsiStart(FALSE) /\ 3 .. Len(none) = {}
    <3>1. Len(none) < 2
      BY <2>1
    <3>2. ParseCsi(none) = CsiStart(FALSE)
      BY Zenon, <2>1, <3>1, ParseCases
    <3> QED BY <2>1, <3>2
  <2>3. Idle(none)
    BY Zenon, <2>2, StartFields DEF Idle
  <2> QED BY <2>1, <2>3 DEF none
<1>3. ASSUME NEW u \in Seq(E), NEW x \in E, u \in Q PROVE Append(u, x) \in Q
  <2>1. Append(u, x) \in Seq(E) /\ IsList(u) /\ (Clean(u) => Idle(u))
    BY <1>3, ListIn
  <2> QED BY <2>1, CleanBefore, IdleNext
<1> HIDE DEF Q
<1>4. s \in Q
  BY <1>1, <1>2, <1>3, ListsInductive
<1> QED BY <1>4 DEF Q

(* The third byte of what Osc52ReadResponse takes is a digit. *)
LEMMA PrefixThird ==
  ASSUME NEW s, IsList(s), Len(s) >= 5, SubSeq(s, 1, 5) = OscPrefix
  PROVE  s[3] = OscPrefix[3]
<1> DEFINE m == 1
           n == 5
           i == 3
<1>1. m \in Nat \ {0} /\ n \in Nat /\ n <= Len(s) /\ i \in 1 .. n - m + 1 /\ m + i - 1 = 3
  BY DEF IsList
<1> HIDE DEF m, n, i
<1>2. SubSeq(s, m, n)[i] = s[m + i - 1]
  BY <1>1, Slice
<1> QED BY <1>1, <1>2 DEF m, n, i

(* No decoder takes such bytes. *)
LEMMA CleanUntaken ==
  ASSUME NEW s, IsList(s), Clean(s), NEW d \in Decoders
  PROVE  Decode(d, s).result # "ok"
<1> SUFFICES ASSUME Decode(d, s).result = "ok" PROVE FALSE
  OBVIOUS
<1>0. Len(s) \in Nat
  BY DEF IsList
<1>1. CASE d \in CsiDecoders
  <2> DEFINE c == ParseCsi(s)
  <2>0. /\ c.at = "done" /\ (d = "da1" => c.params # <<>>) /\ (d = "dsr" => Len(c.params) = 2)
        /\ (d = "kitty" => Len(c.params) = 1) /\ (d = "decrpm" => Len(c.params) = 2)
    <3>1. c.at = "done"
      BY Zenon, <1>1, CsiAccepts
    <3>2. d = "da1" => c.params # <<>>
      BY Zenon, <1>1, CsiAccepts
    <3>3. d = "dsr" => Len(c.params) = 2
      BY Zenon, <1>1, CsiAccepts
    <3>4. d = "kitty" => Len(c.params) = 1
      BY Zenon, <1>1, CsiAccepts
    <3>5. d = "decrpm" => Len(c.params) = 2
      BY Zenon, <1>1, CsiAccepts
    <3> QED BY <3>1, <3>2, <3>3, <3>4, <3>5
  <2> HIDE DEF c
  <2>9. Len(<<>>) # 1 /\ Len(<<>>) # 2
    OBVIOUS
  <2>10. c.params # <<>>
    BY <1>1, <2>0, <2>9 DEF CsiDecoders
  <2>1. ParseCsi(s).at = "done" /\ ParseCsi(s).params # <<>>
    BY <2>0, <2>10 DEF c
  <2>2. Idle(s)
    BY CleanIdle
  <2> QED BY <2>1, <2>2 DEF Idle
<1>2. CASE d = "osc52"
  <2>1. Osc52(s).result = "ok"
    BY <1>2, OscDecode
  <2>2. Len(s) >= 7 /\ s[2] = "]"
    BY <2>1, OscAccepts
  <2>3. Prefix52(s)
    <3>1. Len(s) >= 5
      BY <1>0, <2>2
    <3>2. Malformed.result # "ok"
      BY DEF Malformed
    <3> QED BY Zenon, <2>1, <3>1, <3>2, Osc52Cases
  <2>4. SubSeq(s, 1, 5) = OscPrefix
    BY <2>3, Zenon DEF Prefix52, OscPrefix
  <2>5. s[3] = OscPrefix[3]
    BY <1>0, <2>2, <2>4, PrefixThird
  <2>6. OscPrefix[3] \in Parameters /\ OscPrefix[3] # ESC /\ s[2] # ESC
    BY Zenon, <2>2, EscapeIs, PrefixBytes
  <2>7. 3 \in 1 .. Len(s)
    BY <1>0, <2>2
  <2>8. PICK j \in 2 .. 3 : s[j] = ESC
    BY <2>5, <2>6, <2>7 DEF Clean
  <2>9. j = 2 \/ j = 3
    OBVIOUS
  <2> QED BY <2>5, <2>6, <2>8, <2>9
<1> QED BY <1>1, <1>2, DecodersAre

-----------------------------------------------------------------------------
(* Pieces of one long list: the bytes after the a-th, up to the b-th.       *)
Span(z, a, b) == SubSeq(z, a + 1, b)

(* A span is a list of what is in its places. *)
LEMMA SpanIs ==
  ASSUME NEW z, IsList(z), NEW a \in Nat, NEW b \in Nat, a <= b, b <= Len(z)
  PROVE  /\ IsList(Span(z, a, b)) /\ Len(Span(z, a, b)) = b - a
         /\ \A i \in 1 .. b - a : Span(z, a, b)[i] = z[a + i]
<1> DEFINE m == a + 1
           u == SubSeq(z, m, b)
<1>1. m \in Nat \ {0} /\ b - m + 1 = b - a /\ (m <= b \/ b - a = 0)
  OBVIOUS
<1>2. \A i \in 1 .. b - a : m + i - 1 = a + i
  OBVIOUS
<1>3. u = Span(z, a, b)
  BY DEF Span
<1> HIDE DEF m
<1>4. /\ IsList(u) /\ Len(u) = IF m <= b THEN b - m + 1 ELSE 0
      /\ \A i \in 1 .. b - m + 1 : u[i] = z[m + i - 1]
  BY <1>1, Slice
<1> HIDE DEF u
<1>5. IsList(u) /\ Len(u) = b - a /\ \A i \in 1 .. b - a : u[i] = z[a + i]
  BY <1>1, <1>2, <1>4
<1> QED BY <1>3, <1>5

(* A list that is a piece byte by byte. *)
LEMMA SpanSame ==
  ASSUME NEW z, IsList(z), NEW a \in Nat, NEW b \in Nat, a <= b, b <= Len(z),
         NEW s, IsList(s), Len(s) = b - a, \A i \in 1 .. b - a : s[i] = z[a + i]
  PROVE  s = Span(z, a, b)
<1> DEFINE u == Span(z, a, b)
<1>1. IsList(u) /\ Len(u) = b - a /\ \A i \in 1 .. b - a : u[i] = z[a + i]
  BY Zenon, SpanIs
<1> HIDE DEF u
<1>2. s = u
  BY Zenon, <1>1, SameList
<1> QED BY <1>2 DEF u

(* The next place is added to a span. *)
LEMMA SpanNext ==
  ASSUME NEW z, IsList(z), NEW a \in Nat, NEW b \in Nat, a <= b, b < Len(z)
  PROVE  Append(Span(z, a, b), z[b + 1]) = Span(z, a, b + 1)
<1> DEFINE u == Span(z, a, b)
           s == Append(u, z[b + 1])
           c == b + 1
<1>0. Len(z) \in Nat /\ b <= Len(z) /\ c \in Nat /\ a <= c /\ c <= Len(z) /\ c - a = (b - a) + 1
  BY DEF IsList
<1>1. IsList(u) /\ Len(u) = b - a /\ \A i \in 1 .. b - a : u[i] = z[a + i]
  BY Zenon, <1>0, SpanIs
<1> HIDE DEF u
<1>2. /\ IsList(s) /\ Len(s) = Len(u) + 1 /\ s[Len(u) + 1] = z[b + 1]
      /\ \A i \in 1 .. Len(u) : s[i] = u[i]
  BY <1>1, ListAppend
<1> HIDE DEF s
<1>3. ASSUME NEW i \in 1 .. c - a PROVE s[i] = z[a + i]
  <2>1. CASE i = Len(u) + 1
    <3>1. a + i = b + 1
      BY <1>1, <2>1
    <3> QED BY <1>2, <2>1, <3>1
  <2>2. CASE i # Len(u) + 1
    <3>1. i \in 1 .. Len(u) /\ i \in 1 .. b - a
      BY <1>0, <1>1, <2>2
    <3> QED BY <1>1, <1>2, <3>1
  <2> QED BY <2>1, <2>2
<1>4. Len(s) = c - a
  BY <1>0, <1>1, <1>2
<1> HIDE DEF c
<1>5. s = Span(z, a, c)
  <2>1. /\ IsList(z) /\ a \in Nat /\ c \in Nat /\ a <= c /\ c <= Len(z)
        /\ IsList(s) /\ Len(s) = c - a /\ \A i \in 1 .. c - a : s[i] = z[a + i]
    BY <1>0, <1>2, <1>3, <1>4
  <2> QED BY Zenon, <2>1, SpanSame
<1> QED BY <1>5 DEF s, u, c

(* The front of a span is taken. *)
LEMMA SpanRest ==
  ASSUME NEW z, IsList(z), NEW a \in Nat, NEW b \in Nat, a <= b, b <= Len(z),
         NEW n \in Nat, n <= b - a
  PROVE  SubSeq(Span(z, a, b), n + 1, Len(Span(z, a, b))) = Span(z, a + n, b)
<1> DEFINE u == Span(z, a, b)
           e == Len(u)
           s == Span(u, n, e)
           c == a + n
<1>1. IsList(u) /\ e = b - a /\ \A i \in 1 .. b - a : u[i] = z[a + i]
  BY Zenon, SpanIs
<1>2. c \in Nat /\ c <= b /\ e \in Nat /\ n <= e /\ e <= Len(u) /\ e - n = b - c
  BY <1>1
<1> HIDE DEF u, e, c
<1>3. IsList(s) /\ Len(s) = e - n /\ \A i \in 1 .. e - n : s[i] = u[n + i]
  <2>1. IsList(u) /\ e \in Nat /\ n <= e /\ e <= Len(u)
    BY <1>1, <1>2
  <2> QED BY Zenon, <2>1, SpanIs
<1> HIDE DEF s
<1>4. ASSUME NEW i \in 1 .. b - c PROVE s[i] = z[c + i]
  <2>1. n + i \in 1 .. b - a /\ i \in 1 .. e - n /\ c + i = a + (n + i)
    BY <1>1, <1>2 DEF c
  <2> QED BY <1>1, <1>3, <2>1
<1>5. Len(s) = b - c
  BY <1>2, <1>3
<1>6. s = Span(z, c, b)
  <2>1. c \in Nat /\ c <= b /\ IsList(s)
    BY <1>2, <1>3
  <2>2. \A i \in 1 .. b - c : s[i] = z[c + i]
    BY <1>4
  <2> QED BY <1>5, <2>1, <2>2, SpanSame
<1>7. s = SubSeq(u, n + 1, e)
  BY DEF s, Span
<1> QED BY <1>6, <1>7 DEF u, c, e

(* Its first is taken. *)
LEMMA SpanTail ==
  ASSUME NEW z, IsList(z), NEW a \in Nat, NEW b \in Nat, a < b, b <= Len(z)
  PROVE  /\ Span(z, a, b) # <<>> /\ Head(Span(z, a, b)) = z[a + 1]
         /\ Tail(Span(z, a, b)) = Span(z, a + 1, b)
<1> DEFINE u == Span(z, a, b)
           t == Tail(u)
           c == a + 1
<1>0. a <= b /\ c \in Nat /\ c <= b /\ b - a \in Nat /\ b - a >= 1 /\ b - c = (b - a) - 1
  OBVIOUS
<1>1. IsList(u) /\ Len(u) = b - a /\ \A i \in 1 .. b - a : u[i] = z[a + i]
  BY ZenonT(60), <1>0, SpanIs
<1> HIDE DEF u
<1>2. u # <<>>
  BY <1>0, <1>1
<1>3. Head(u) = u[1] /\ \A i \in 1 .. Len(u) - 1 : t[i] = u[i + 1]
  <2> DEFINE E == Range(u)
  <2>1. u \in Seq(E)
    BY <1>1 DEF IsList
  <2> HIDE DEF E
  <2> QED BY <1>2, <2>1
<1>4. u[1] = z[a + 1]
  BY <1>0, <1>1
<1>5. IsList(t) /\ Len(t) = Len(u) - 1
  BY <1>1, <1>2, TailList
<1> HIDE DEF t
<1>6. ASSUME NEW i \in 1 .. b - c PROVE t[i] = z[c + i]
  <2>1. i \in 1 .. Len(u) - 1 /\ i + 1 \in 1 .. b - a /\ c + i = a + (i + 1)
    BY <1>0, <1>1
  <2> QED BY Zenon, <1>1, <1>3, <2>1
<1>7. Len(t) = b - c
  BY <1>0, <1>1, <1>5
<1> HIDE DEF c
<1>8. t = Span(z, c, b)
  BY <1>0, <1>5, <1>6, <1>7, SpanSame
<1> QED BY <1>2, <1>3, <1>4, <1>8 DEF t, u, c

(* What is appended leaves the earlier pieces as they are, and lengthens    *)
(* the last one.                                                            *)
LEMMA SpanStays ==
  ASSUME NEW z, NEW t, NEW q, IsList(z), IsList(t), InTurn(z, t, q),
         NEW a \in Nat, NEW b \in Nat, a <= b, b <= Len(z)
  PROVE  Span(q, a, b) = Span(z, a, b)
<1> DEFINE u == Span(q, a, b)
<1>0. IsList(q) /\ Len(z) \in Nat /\ Len(q) >= Len(z) /\ \A i \in 1 .. Len(z) : q[i] = z[i]
  BY DEF InTurn
<1>1. b <= Len(q)
  BY <1>0
<1>2. IsList(u) /\ Len(u) = b - a /\ \A i \in 1 .. b - a : u[i] = q[a + i]
  BY Zenon, <1>0, <1>1, SpanIs
<1> HIDE DEF u
<1>3. ASSUME NEW i \in 1 .. b - a PROVE u[i] = z[a + i]
  <2>1. a + i \in 1 .. Len(z)
    BY <1>0
  <2> QED BY <1>0, <1>2, <2>1
<1>4. u = Span(z, a, b)
  BY Zenon, <1>2, <1>3, SpanSame
<1> QED BY <1>4 DEF u

(* A span that reaches the end grows with its list. *)
LEMMA SpanLonger ==
  ASSUME NEW z, NEW t, NEW q, IsList(z), IsList(t), InTurn(z, t, q), NEW a \in Nat, a <= Len(z)
  PROVE  Span(z, a, Len(z)) \o t = Span(q, a, Len(q))
<1> DEFINE b == Len(z)
           u == Span(z, a, b)
           s == u \o t
           e == Len(q)
<1>0. /\ IsList(q) /\ b \in Nat /\ Len(t) \in Nat /\ e = b + Len(t)
      /\ \A i \in 1 .. b : q[i] = z[i]
      /\ \A i \in 1 .. Len(t) : q[b + i] = t[i]
  BY DEF InTurn
<1>1. e \in Nat /\ a <= e /\ e <= Len(q) /\ b <= Len(z) /\ a <= b
  BY <1>0
<1>2. IsList(u) /\ Len(u) = b - a /\ \A i \in 1 .. b - a : u[i] = z[a + i]
  BY Zenon, <1>0, <1>1, SpanIs
<1> HIDE DEF u
<1>3. InTurn(u, t, s)
  BY <1>2, ListsJoined
<1> HIDE DEF s
<1>4. /\ IsList(s) /\ Len(s) = Len(u) + Len(t)
      /\ \A i \in 1 .. Len(u) : s[i] = u[i]
      /\ \A i \in 1 .. Len(t) : s[Len(u) + i] = t[i]
  BY Zenon, <1>3 DEF InTurn
<1> HIDE DEF b, e
<1>5. ASSUME NEW i \in 1 .. e - a PROVE s[i] = q[a + i]
  <2>1. CASE i <= Len(u)
    <3>1. i \in 1 .. Len(u) /\ i \in 1 .. b - a /\ a + i \in 1 .. b
      BY <1>0, <1>1, <1>2, <2>1
    <3> QED BY <1>0, <1>2, <1>4, <3>1
  <2>2. CASE i > Len(u)
    <3> DEFINE j == i - Len(u)
    <3>1. j \in 1 .. Len(t) /\ i = Len(u) + j /\ a + i = b + j
      BY <1>0, <1>1, <1>2, <2>2
    <3> HIDE DEF j
    <3> QED BY <1>0, <1>4, <3>1
  <2>3. Len(u) \in Nat
    BY <1>0, <1>1, <1>2
  <2> QED BY <2>1, <2>2, <2>3
<1>6. Len(s) = e - a
  BY <1>0, <1>1, <1>2, <1>4
<1>7. s = Span(q, a, e)
  <2>1. IsList(q) /\ e \in Nat /\ a <= e /\ e <= Len(q) /\ IsList(s)
    BY <1>0, <1>1, <1>4
  <2> QED BY <1>5, <1>6, <2>1, SpanSame
<1> QED BY <1>7 DEF s, u, b, e

(* What is added is the span behind the old end. *)
LEMMA SpanAdded ==
  ASSUME NEW z, NEW t, NEW q, IsList(z), IsList(t), InTurn(z, t, q)
  PROVE  Span(q, Len(z), Len(q)) = t
<1> DEFINE b == Len(z)
           e == Len(q)
<1>0. /\ IsList(q) /\ b \in Nat /\ Len(t) \in Nat /\ e = b + Len(t)
      /\ \A i \in 1 .. Len(t) : q[b + i] = t[i]
  BY DEF InTurn
<1>1. e \in Nat /\ b <= e /\ e <= Len(q) /\ e - b = Len(t)
  BY <1>0
<1> HIDE DEF b, e
<1>2. t = Span(q, b, e)
  <2>1. /\ IsList(q) /\ b \in Nat /\ e \in Nat /\ b <= e /\ e <= Len(q) /\ Len(t) = e - b
        /\ \A i \in 1 .. e - b : t[i] = q[b + i]
    BY <1>0, <1>1
  <2> QED BY <2>1, SpanSame
<1> QED BY <1>2 DEF b, e

-----------------------------------------------------------------------------
(* Which bytes a decoder takes.                                             *)

(* A verdict stands, however much more arrives. *)
LEMMA VerdictKept ==
  ASSUME NEW z, IsList(z), NEW a \in Nat, NEW b \in Nat, NEW c \in Nat, a <= b, b <= c,
         c <= Len(z), NEW d \in Decoders, Decode(d, Span(z, a, b)).result # "incomplete"
  PROVE  Decode(d, Span(z, a, c)) = Decode(d, Span(z, a, b))
<1> DEFINE v == Decode(d, Span(z, a, b))
           Q == {n \in Nat : b + n <= Len(z) => Decode(d, Span(z, a, b + n)) = v}
<1>0. Len(z) \in Nat
  BY DEF IsList
<1>1. 0 \in Q
  <2>1. b + 0 = b
    OBVIOUS
  <2>2. Decode(d, Span(z, a, b + 0)) = v
    BY <2>1
  <2> QED BY <2>2
<1>2. ASSUME NEW n \in Nat, n \in Q PROVE n + 1 \in Q
  <2> SUFFICES ASSUME b + (n + 1) <= Len(z) PROVE Decode(d, Span(z, a, b + (n + 1))) = v
    OBVIOUS
  <2> DEFINE e == b + n
  <2>1. e \in Nat /\ a <= e /\ e < Len(z) /\ e <= Len(z) /\ b + (n + 1) = e + 1
    BY <1>0
  <2>2. Decode(d, Span(z, a, e)) = v
    BY <1>2, <2>1
  <2> HIDE DEF e
  <2>3. IsList(Span(z, a, e))
    BY <2>1, SpanIs
  <2>4. Decode(d, Append(Span(z, a, e), z[e + 1])) = Decode(d, Span(z, a, e))
    BY <2>2, <2>3, DecodeFinal
  <2>5. Append(Span(z, a, e), z[e + 1]) = Span(z, a, e + 1)
    BY Zenon, <2>1, SpanNext
  <2>6. Decode(d, Span(z, a, e + 1)) = v
    BY <2>2, <2>4, <2>5
  <2> HIDE DEF v
  <2> QED BY <2>1, <2>6
<1> HIDE DEF Q
<1>3. \A n \in Nat : n \in Q
  BY Zenon, <1>1, <1>2, NumbersInductive
<1>4. c - b \in Nat /\ b + (c - b) = c
  OBVIOUS
<1>5. c - b \in Q
  BY <1>3, <1>4
<1> QED BY <1>4, <1>5 DEF Q

(* What has arrived of bytes that begin with an answer is taken as that     *)
(* answer and by nobody before all of it has arrived; the decoder it is     *)
(* for never rejects it.                                                    *)
LEMMA AnswerAhead ==
  ASSUME NEW z, IsList(z), NEW a \in Nat, NEW g \in Nat, NEW m \in Nat, a < g, g <= Len(z),
         a <= m, m <= Len(z), NEW e \in Decoders, NEW v, Spoken(e, v, Span(z, a, g))
  PROVE  /\ Decode(e, Span(z, a, m)).result # "malformed"
         /\ \A d \in Decoders : Decode(d, Span(z, a, m)).result = "ok" =>
              g <= m /\ Decode(d, Span(z, a, m)) = Ok(v, g - a)
<1> DEFINE s == Span(z, a, g)
           r == Span(z, a, m)
           w == Ok(v, g - a)
<1>0. Len(z) \in Nat /\ a <= g
  BY DEF IsList
<1>1. IsList(s) /\ Len(s) = g - a /\ IsList(r) /\ Len(r) = m - a
  BY <1>0, SpanIs
<1>2. Decode(e, s) = w
  BY <1>1 DEF Spoken
<1>3. w.result = "ok" /\ w.consumed = g - a
  BY DEF Ok
<1>4. CASE g <= m
  <2>1. Decode(e, s).result # "incomplete"
    BY <1>2, <1>3
  <2>2. Decode(e, r) = w
    BY <1>0, <1>2, <1>4, <2>1, VerdictKept
  <2>3. Decode(e, r).result = "ok" /\ Decode(e, r).result # "malformed"
    BY <1>3, <2>2
  <2> HIDE DEF r, w, s
  <2>4. ASSUME NEW d \in Decoders, Decode(d, r).result = "ok" PROVE Decode(d, r) = w
    <3>1. d = e
      BY <1>1, <2>3, <2>4, DecodeOnce
    <3> QED BY <2>2, <3>1
  <2> QED BY <1>4, <2>3, <2>4 DEF r, w
<1>5. CASE m < g
  <2>1. ASSUME NEW d \in Decoders, Decode(d, r).result # "incomplete"
        PROVE  Decode(d, s) = Decode(d, r)
    <3>1. m <= g
      BY <1>5
    <3> QED BY <2>1, <3>1, VerdictKept
  <2> HIDE DEF r, w, s
  <2>2. ASSUME Decode(e, r).result = "malformed" PROVE FALSE
    <3>1. Decode(e, s) = Decode(e, r)
      BY <2>1, <2>2
    <3> QED BY <1>2, <1>3, <2>2, <3>1
  <2>3. ASSUME NEW d \in Decoders, Decode(d, r).result = "ok" PROVE FALSE
    <3>1. Decode(d, s) = Decode(d, r)
      BY <2>1, <2>3
    <3>2. d = e
      BY <1>1, <1>2, <1>3, <2>3, <3>1, DecodeOnce
    <3>3. Decode(d, r).consumed = g - a
      BY <1>2, <1>3, <3>1, <3>2
    <3>4. Decode(d, r).consumed \in 1 .. Len(r)
      BY <1>1, <2>3, TakenArrived
    <3> QED BY <1>1, <1>5, <3>3, <3>4
  <2> QED BY <2>2, <2>3 DEF r
<1> QED BY <1>4, <1>5

(* A list with the prefix of OSC 52 begins as it does. *)
LEMMA PrefixFirst ==
  ASSUME NEW s, IsList(s), Len(s) >= 5, SubSeq(s, 1, 5) = OscPrefix
  PROVE  s[1] = OscPrefix[1]
<1> DEFINE m == 1
           n == 5
           i == 1
<1>1. m \in Nat \ {0} /\ n \in Nat /\ n <= Len(s) /\ i \in 1 .. n - m + 1 /\ m + i - 1 = 1
  BY DEF IsList
<1> HIDE DEF m, n, i
<1>2. SubSeq(s, m, n)[i] = s[m + i - 1]
  BY <1>1, Slice
<1> QED BY <1>1, <1>2 DEF m, n, i

(* A decoder takes nothing that does not begin with ESC. *)
LEMMA EscapeFirst ==
  ASSUME NEW s, IsList(s), NEW d \in Decoders, Decode(d, s).result = "ok"
  PROVE  s[1] = ESC
<1>0. Len(s) \in Nat
  BY DEF IsList
<1>1. CASE d \in CsiDecoders
  <2>1. ParseCsi(s).at = "done"
    BY Zenon, <1>1, CsiAccepts
  <2> QED BY <2>1, ParseType
<1>2. CASE d = "osc52"
  <2>1. Osc52(s).result = "ok"
    BY <1>2, OscDecode
  <2>2. Len(s) >= 5
    <3>1. Len(s) >= 7
      BY <2>1, OscAccepts
    <3> QED BY <1>0, <3>1
  <2>3. Prefix52(s)
    <3>1. Malformed.result # "ok"
      BY DEF Malformed
    <3> QED BY Zenon, <2>1, <2>2, <3>1, Osc52Cases
  <2>4. SubSeq(s, 1, 5) = OscPrefix
    BY <2>3, Zenon DEF Prefix52, OscPrefix
  <2>5. s[1] = OscPrefix[1]
    BY <2>2, <2>4, PrefixFirst
  <2> QED BY Zenon, <2>5, PrefixBytes
<1> QED BY <1>1, <1>2, DecodersAre

(* No decoder takes what begins with keys. *)
LEMMA KeysAhead ==
  ASSUME KeysApart, NEW z, IsList(z), NEW k \in Nat, NEW m \in Nat, k < m, m <= Len(z),
         NEW p \in Nat, k < p, \A i \in k + 1 .. p : z[i] \in Typed,
         m <= p \/ z[p + 1] = ESC, NEW d \in Decoders
  PROVE  Decode(d, Span(z, k, m)).result # "ok"
<1> DEFINE s == Span(z, k, m)
           n == m - k
<1>1. IsList(s) /\ Len(s) = n /\ \A i \in 1 .. n : s[i] = z[k + i]
  <2>1. k <= m
    OBVIOUS
  <2> HIDE DEF s
  <2>2. /\ IsList(Span(z, k, m)) /\ Len(Span(z, k, m)) = m - k
        /\ \A i \in 1 .. m - k : Span(z, k, m)[i] = z[k + i]
    BY Zenon, <2>1, SpanIs
  <2> QED BY <2>2 DEF s
<1>2. n \in Nat /\ n >= 1
  OBVIOUS
<1> HIDE DEF s
<1>3. CASE ESC \notin Typed
  <2>1. k + 1 \in k + 1 .. p /\ 1 \in 1 .. n
    BY <1>2
  <2>2. s[1] = z[k + 1] /\ z[k + 1] \in Typed
    BY <1>1, <2>1
  <2>3. s[1] # ESC
    BY <1>3, <2>2
  <2>4. Decode(d, s).result # "ok"
    BY <1>1, <2>3, EscapeFirst
  <2> QED BY <2>4 DEF s
<1>4. CASE Typed \cap (Digits \cup {";"}) = {}
  <2>1. ASSUME NEW i \in 1 .. Len(s), s[i] \in Parameters PROVE \E j \in 2 .. i : s[j] = ESC
    <3>1. i \in 1 .. n /\ s[i] = z[k + i]
      BY <1>1
    <3>2. z[k + i] \notin Typed
      BY Zenon, <1>4, <2>1, <3>1 DEF Parameters
    <3>3. k + i \notin k + 1 .. p
      BY <3>2
    <3>4. k + i > p
      BY <3>1, <3>3
    <3>5. ~(m <= p)
      BY <1>2, <3>1, <3>4
    <3>6. z[p + 1] = ESC
      BY <3>5
    <3> DEFINE j == p + 1 - k
    <3>7. j \in 2 .. i /\ j \in 1 .. n /\ k + j = p + 1
      BY <1>2, <3>1, <3>4
    <3> HIDE DEF j, n
    <3>8. s[j] = ESC
      BY Zenon, <1>1, <3>6, <3>7
    <3> QED BY <3>7, <3>8
  <2>2. Clean(s)
    BY <2>1 DEF Clean
  <2>3. Decode(d, s).result # "ok"
    BY <1>1, <2>2, CleanUntaken
  <2> QED BY <2>3 DEF s
<1> QED BY Zenon, <1>3, <1>4 DEF KeysApart

=============================================================================
