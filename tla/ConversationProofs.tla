------------------------- MODULE ConversationProofs -------------------------
(***************************************************************************)
(* Theorems about what the program and the terminal say to each other in   *)
(* Codec: what is decoded are the answers given, each once and in order,   *)
(* none gets stuck, and the terminal draws what it was asked to.           *)
(***************************************************************************)
EXTENDS CodecProofs

-----------------------------------------------------------------------------
(* The conversation.                                                        *)

(* All that was ever sent to the program: in z the i-th answer is after     *)
(* f[i], up to g[i], and outside the answers there are only keys.           *)
Answered(z, f, g, a) ==
  /\ f \in Nat /\ g \in Nat /\ f < g /\ g <= Len(z)
  /\ a.kind \in Decoders /\ Spoken(a.kind, Reported(a), Span(z, f, g))

Sent(z, f, g, said) ==
  /\ IsList(z) /\ IsList(said)
  /\ \A i \in 1 .. Len(said) : Answered(z, f[i], g[i], said[i])
  /\ \A i, j \in 1 .. Len(said) : i < j => g[i] <= f[j]
  /\ \A p \in 1 .. Len(z) : z[p] \in Typed \/ \E i \in 1 .. Len(said) : f[i] < p /\ p <= g[i]

(* Of it k bytes have been decoded or dropped and m have arrived; the       *)
(* answers among the k have been heard, and no other.                       *)
Received(z, f, g, k, m, said, got) ==
  /\ k \in Nat /\ m \in Nat /\ k <= m /\ m <= Len(z)
  /\ IsList(got) /\ Len(got) <= Len(said)
  /\ \A i \in 1 .. Len(got) : got[i] = Reported(said[i]) /\ g[i] <= k
  /\ \A i \in Len(got) + 1 .. Len(said) : k <= f[i]

TalkInv ==
  \E z, f, g, k, m :
    /\ f \in [Nat -> Nat] /\ g \in [Nat -> Nat]
    /\ Sent(z, f, g, told)
    /\ Received(z, f, g, k, m, told, heard)
    /\ inbox = Span(z, k, m) /\ back = Span(z, m, Len(z))

(* An answer more, or a key. *)
LEMMA AnsweredStays ==
  ASSUME NEW z, NEW t, NEW q, IsList(z), IsList(t), InTurn(z, t, q), NEW f, NEW g, NEW a,
         Answered(z, f, g, a)
  PROVE  Answered(q, f, g, a)
<1>1. /\ f \in Nat /\ g \in Nat /\ f < g /\ g <= Len(z)
      /\ a.kind \in Decoders /\ Spoken(a.kind, Reported(a), Span(z, f, g))
  BY DEF Answered
<1>2. f <= g /\ g <= Len(q)
  BY <1>1 DEF InTurn
<1>3. Span(q, f, g) = Span(z, f, g)
  BY <1>1, <1>2, SpanStays
<1> QED BY <1>1, <1>2, <1>3 DEF Answered

(* A key is sent: the answers stay where they are. *)
LEMMA SentKey ==
  ASSUME NEW z, NEW f, NEW g, NEW said, Sent(z, f, g, said), NEW t, IsList(t), NEW q,
         InTurn(z, t, q), \A i \in 1 .. Len(t) : t[i] \in Typed
  PROVE  Sent(q, f, g, said)
<1>1. /\ IsList(z) /\ IsList(said)
      /\ \A i \in 1 .. Len(said) : Answered(z, f[i], g[i], said[i])
      /\ \A i, j \in 1 .. Len(said) : i < j => g[i] <= f[j]
      /\ \A p \in 1 .. Len(z) : z[p] \in Typed \/ \E i \in 1 .. Len(said) : f[i] < p /\ p <= g[i]
  BY DEF Sent
<1>2. /\ IsList(q) /\ Len(z) \in Nat /\ Len(t) \in Nat /\ Len(q) = Len(z) + Len(t)
      /\ \A i \in 1 .. Len(z) : q[i] = z[i]
      /\ \A i \in 1 .. Len(t) : q[Len(z) + i] = t[i]
  BY DEF InTurn
<1>3. \A i \in 1 .. Len(said) : Answered(q, f[i], g[i], said[i])
  BY <1>1, AnsweredStays
<1>4. ASSUME NEW p \in 1 .. Len(q)
      PROVE  q[p] \in Typed \/ \E i \in 1 .. Len(said) : f[i] < p /\ p <= g[i]
  <2>1. CASE p <= Len(z)
    <3>1. p \in 1 .. Len(z)
      BY <1>2, <2>1
    <3> QED BY <1>1, <1>2, <3>1
  <2>2. CASE p > Len(z)
    <3> DEFINE i == p - Len(z)
    <3>1. i \in 1 .. Len(t) /\ p = Len(z) + i
      BY <1>2, <2>2
    <3> HIDE DEF i
    <3> QED BY <1>2, <3>1
  <2> QED BY <1>2, <2>1, <2>2
<1> QED BY <1>1, <1>2, <1>3, <1>4 DEF Sent

(* An answer is sent: it is where the old end was. *)
LEMMA AnsweredNow ==
  ASSUME NEW z, NEW t, NEW q, IsList(z), InTurn(z, t, q), NEW a, a.kind \in Decoders,
         Spoken(a.kind, Reported(a), t)
  PROVE  Answered(q, Len(z), Len(q), a)
<1>1. IsList(t) /\ Len(t) >= 4
  BY DEF Spoken
<1>2. /\ IsList(q) /\ Len(z) \in Nat /\ Len(t) \in Nat /\ Len(q) = Len(z) + Len(t)
  BY DEF InTurn
<1>3. Span(q, Len(z), Len(q)) = t
  BY <1>1, SpanAdded
<1>4. Len(q) \in Nat /\ Len(z) < Len(q) /\ Len(q) <= Len(q)
  BY <1>1, <1>2
<1> QED BY <1>2, <1>3, <1>4 DEF Answered

(* With it, every answer is in its place. *)
LEMMA SentAnswer ==
  ASSUME NEW z, NEW f, NEW g, NEW said, Sent(z, f, g, said),
         NEW t, IsList(t), NEW q, InTurn(z, t, q), NEW a, Answered(q, Len(z), Len(q), a),
         NEW u, NEW v, u[Len(said) + 1] = Len(z), v[Len(said) + 1] = Len(q),
         \A i \in 1 .. Len(said) : u[i] = f[i] /\ v[i] = g[i]
  PROVE  Sent(q, u, v, Append(said, a))
<1> DEFINE n == Len(said) + 1
           now == Append(said, a)
<1>1. /\ IsList(z) /\ IsList(said)
      /\ \A i \in 1 .. Len(said) : Answered(z, f[i], g[i], said[i])
      /\ \A i, j \in 1 .. Len(said) : i < j => g[i] <= f[j]
      /\ \A p \in 1 .. Len(z) : z[p] \in Typed \/ \E i \in 1 .. Len(said) : f[i] < p /\ p <= g[i]
  BY DEF Sent
<1>3. /\ IsList(q) /\ Len(z) \in Nat /\ Len(t) \in Nat /\ Len(q) = Len(z) + Len(t)
      /\ \A i \in 1 .. Len(z) : q[i] = z[i]
  BY DEF InTurn
<1>4. /\ IsList(now) /\ Len(said) \in Nat /\ Len(now) = n /\ now[n] = a
      /\ \A i \in 1 .. Len(said) : now[i] = said[i]
  <2>1. /\ IsList(Append(said, a)) /\ Len(said) \in Nat /\ Len(Append(said, a)) = Len(said) + 1
        /\ Append(said, a)[Len(said) + 1] = a /\ \A i \in 1 .. Len(said) : Append(said, a)[i] = said[i]
    <3>1. IsList(said)
      BY <1>1
    <3> QED BY <3>1, ListAppend
  <2> QED BY <2>1, Zenon
<1>5. n \in Nat /\ (\A i \in 1 .. n : i \in 1 .. Len(said) \/ i = n)
      /\ (\A i \in 1 .. Len(said) : i \in 1 .. n /\ i \in Nat /\ i # n)
  <2>1. Len(said) \in Nat
    BY <1>4, Zenon
  <2> HIDE DEF now
  <2> QED BY <2>1
<1>6. /\ u[n] = Len(z) /\ v[n] = Len(q)
      /\ \A i \in 1 .. Len(said) : u[i] = f[i] /\ v[i] = g[i]
  OBVIOUS
<1> HIDE DEF now, n
<1>7. Answered(q, u[n], v[n], now[n])
  BY <1>4, <1>6
<1>8. ASSUME NEW i \in 1 .. n PROVE Answered(q, u[i], v[i], now[i])
  <2>1. CASE i = n
    BY <1>7, <2>1
  <2>2. CASE i \in 1 .. Len(said)
    <3>1. Answered(q, f[i], g[i], said[i])
      BY <1>1, <2>2, AnsweredStays
    <3> QED BY <1>4, <1>6, <2>2, <3>1
  <2> QED BY <1>5, <2>1, <2>2
<1>9. ASSUME NEW i \in 1 .. n, NEW j \in 1 .. n, i < j PROVE v[i] <= u[j]
  <2>1. i \in 1 .. Len(said)
    BY <1>4, <1>9 DEF n
  <2>2. CASE j = n
    <3>1. Answered(z, f[i], g[i], said[i])
      BY <1>1, <2>1
    <3>2. g[i] <= Len(z)
      BY <3>1 DEF Answered
    <3> QED BY <1>6, <2>1, <2>2, <3>2
  <2>3. CASE j \in 1 .. Len(said)
    BY <1>1, <1>6, <1>9, <2>1, <2>3
  <2> QED BY <1>5, <2>2, <2>3
<1>10. ASSUME NEW p \in 1 .. Len(q)
       PROVE  q[p] \in Typed \/ \E i \in 1 .. n : u[i] < p /\ p <= v[i]
  <2>1. CASE p <= Len(z)
    <3>1. p \in 1 .. Len(z)
      BY <1>3, <2>1
    <3>2. CASE z[p] \in Typed
      BY <1>3, <3>1, <3>2
    <3>3. CASE \E i \in 1 .. Len(said) : f[i] < p /\ p <= g[i]
      <4>1. PICK i \in 1 .. Len(said) : f[i] < p /\ p <= g[i]
        BY <3>3
      <4>2. i \in 1 .. n /\ u[i] < p /\ p <= v[i]
        BY Zenon, <1>5, <1>6, <4>1
      <4> QED BY <4>2
    <3> QED BY <1>1, <3>1, <3>2, <3>3
  <2>2. CASE p > Len(z)
    <3>1. n \in 1 .. n /\ u[n] < p /\ p <= v[n]
      BY <1>3, <1>4, <1>6, <2>2 DEF n
    <3> QED BY <3>1
  <2> QED BY <1>3, <2>1, <2>2
<1>11. Sent(q, u, v, now)
  BY <1>3, <1>4, <1>8, <1>9, <1>10 DEF Sent
<1> QED BY <1>11 DEF now

(* What the reader knows of the answers. *)
LEMMA ReceivedFacts ==
  ASSUME NEW z, NEW f, NEW g, NEW k, NEW m, NEW said, NEW got, Sent(z, f, g, said),
         Received(z, f, g, k, m, said, got)
  PROVE  /\ IsList(z) /\ IsList(said) /\ IsList(got) /\ Len(z) \in Nat /\ Len(said) \in Nat
         /\ Len(got) \in Nat /\ Len(got) <= Len(said)
         /\ k \in Nat /\ m \in Nat /\ k <= m /\ m <= Len(z)
         /\ \A i \in 1 .. Len(said) : f[i] \in Nat /\ g[i] \in Nat /\ f[i] < g[i] /\ g[i] <= Len(z)
<1>1. IsList(z) /\ IsList(said) /\ \A i \in 1 .. Len(said) : Answered(z, f[i], g[i], said[i])
  BY DEF Sent
<1>2. /\ k \in Nat /\ m \in Nat /\ k <= m /\ m <= Len(z) /\ IsList(got) /\ Len(got) <= Len(said)
  BY DEF Received
<1>3. Len(z) \in Nat /\ Len(said) \in Nat /\ Len(got) \in Nat
  BY <1>1, <1>2 DEF IsList
<1>4. \A i \in 1 .. Len(said) : f[i] \in Nat /\ g[i] \in Nat /\ f[i] < g[i] /\ g[i] <= Len(z)
  BY <1>1 DEF Answered
<1> QED BY <1>1, <1>2, <1>3, <1>4

(* A piece that is not empty. *)
LEMMA SpanSome ==
  ASSUME NEW z, IsList(z), NEW a \in Nat, NEW b \in Nat, a <= b, b <= Len(z), Span(z, a, b) # <<>>
  PROVE  a < b
<1> DEFINE s == Span(z, a, b)
<1>1. IsList(s) /\ Len(s) = b - a
  BY SpanIs
<1>2. s \in Seq(Range(s))
  BY <1>1 DEF IsList
<1> DEFINE E == Range(s)
<1>3. s \in Seq(E)
  BY <1>2
<1> HIDE DEF E, s
<1>4. s # <<>> => Len(s) # 0
  BY <1>3
<1>5. s # <<>>
  BY DEF s
<1> QED BY <1>1, <1>4, <1>5

(* Dropped is only a byte of a key. *)
LEMMA DropKey ==
  ASSUME NEW z, NEW f, NEW g, NEW k, NEW m, NEW said, NEW got, Sent(z, f, g, said),
         Received(z, f, g, k, m, said, got), k < m,
         \A d \in Decoders : Decode(d, Span(z, k, m)).result = "malformed"
  PROVE  Received(z, f, g, k + 1, m, said, got)
<1>1. /\ IsList(z) /\ IsList(said) /\ IsList(got) /\ Len(z) \in Nat /\ Len(said) \in Nat
      /\ Len(got) \in Nat /\ Len(got) <= Len(said)
      /\ k \in Nat /\ m \in Nat /\ k <= m /\ m <= Len(z)
      /\ \A i \in 1 .. Len(said) : f[i] \in Nat /\ g[i] \in Nat /\ f[i] < g[i] /\ g[i] <= Len(z)
  BY ReceivedFacts
<1>2. /\ \A i \in 1 .. Len(got) : got[i] = Reported(said[i]) /\ g[i] <= k
      /\ \A i \in Len(got) + 1 .. Len(said) : k <= f[i]
  BY DEF Received
<1>3. ASSUME NEW i \in Len(got) + 1 .. Len(said) PROVE k + 1 <= f[i]
  <2>1. i \in 1 .. Len(said) /\ k <= f[i]
    BY <1>1, <1>2
  <2>2. f[i] \in Nat /\ g[i] \in Nat /\ f[i] < g[i] /\ g[i] <= Len(z)
    BY <1>1, <2>1
  <2>3. CASE k = f[i]
    <3>1. said[i].kind \in Decoders /\ Spoken(said[i].kind, Reported(said[i]), Span(z, f[i], g[i]))
      <4>1. Answered(z, f[i], g[i], said[i])
        BY <2>1 DEF Sent
      <4> QED BY <4>1 DEF Answered
    <3> DEFINE e == said[i].kind
               v == Reported(said[i])
               h == g[i]
    <3>2. e \in Decoders /\ Spoken(e, v, Span(z, k, h)) /\ h \in Nat /\ k < h /\ h <= Len(z)
      BY <2>2, <2>3, <3>1
    <3> HIDE DEF e, v, h
    <3>3. Decode(e, Span(z, k, m)).result # "malformed"
      BY <1>1, <3>2, AnswerAhead
    <3> QED BY <3>2, <3>3
  <2>4. CASE k # f[i]
    BY <1>1, <2>1, <2>2, <2>4
  <2> QED BY <2>3, <2>4
<1>4. \A i \in 1 .. Len(got) : g[i] <= k + 1
  <2> SUFFICES ASSUME NEW i \in 1 .. Len(got) PROVE g[i] <= k + 1
    OBVIOUS
  <2>1. i \in 1 .. Len(said) /\ g[i] <= k
    BY <1>1, <1>2
  <2> QED BY <1>1, <2>1
<1>5. k + 1 \in Nat /\ k + 1 <= m
  BY <1>1
<1> QED BY <1>1, <1>2, <1>3, <1>4, <1>5 DEF Received

(* Before the next answer there are only keys. *)
LEMMA KeysBetween ==
  ASSUME NEW z, NEW f, NEW g, NEW k, NEW m, NEW said, NEW got, Sent(z, f, g, said),
         Received(z, f, g, k, m, said, got), NEW p \in Nat, p <= Len(z),
         \A i \in Len(got) + 1 .. Len(said) : p <= f[i]
  PROVE  \A i \in k + 1 .. p : z[i] \in Typed
<1>1. /\ IsList(z) /\ Len(z) \in Nat /\ Len(said) \in Nat /\ Len(got) \in Nat /\ k \in Nat
      /\ \A i \in 1 .. Len(said) : f[i] \in Nat /\ g[i] \in Nat
  BY ReceivedFacts
<1>2. \A i \in 1 .. Len(got) : g[i] <= k
  BY DEF Received
<1> SUFFICES ASSUME NEW i \in k + 1 .. p PROVE z[i] \in Typed
  OBVIOUS
<1>3. i \in 1 .. Len(z)
  BY <1>1
<1>4. z[i] \in Typed \/ \E j \in 1 .. Len(said) : f[j] < i /\ i <= g[j]
  BY <1>3 DEF Sent
<1>5. ASSUME NEW j \in 1 .. Len(said), f[j] < i, i <= g[j] PROVE FALSE
  <2>1. f[j] \in Nat /\ g[j] \in Nat
    BY <1>1
  <2>2. CASE j \in 1 .. Len(got)
    <3>1. g[j] <= k
      BY <1>2, <2>2
    <3> QED BY <1>1, <1>5, <2>1, <3>1
  <2>3. CASE j \in Len(got) + 1 .. Len(said)
    <3>1. p <= f[j]
      BY <2>3
    <3> QED BY <1>1, <1>5, <2>1, <3>1
  <2> QED BY <1>1, <2>2, <2>3
<1> QED BY <1>4, <1>5

(* Taken is only the next answer, whole. *)
LEMMA TakeAnswer ==
  ASSUME KeysApart, NEW z, NEW f, NEW g, NEW k, NEW m, NEW said, NEW got, Sent(z, f, g, said),
         Received(z, f, g, k, m, said, got), k < m,
         NEW d \in Decoders, Decode(d, Span(z, k, m)).result = "ok"
  PROVE  LET n == Len(got) + 1
         IN /\ n \in 1 .. Len(said) /\ f[n] = k /\ g[n] <= m
            /\ Decode(d, Span(z, k, m)) = Ok(Reported(said[n]), g[n] - k)
<1> DEFINE n == Len(got) + 1
<1>1. /\ IsList(z) /\ IsList(said) /\ IsList(got) /\ Len(z) \in Nat /\ Len(said) \in Nat
      /\ Len(got) \in Nat /\ Len(got) <= Len(said)
      /\ k \in Nat /\ m \in Nat /\ k <= m /\ m <= Len(z)
      /\ \A i \in 1 .. Len(said) : f[i] \in Nat /\ g[i] \in Nat /\ f[i] < g[i] /\ g[i] <= Len(z)
  BY ReceivedFacts
<1>2. /\ \A i \in n .. Len(said) : k <= f[i]
      /\ \A i, j \in 1 .. Len(said) : i < j => g[i] <= f[j]
      /\ \A i \in 1 .. Len(said) : Answered(z, f[i], g[i], said[i])
  BY DEF Received, Sent
<1>3. n <= Len(said)
  <2> SUFFICES ASSUME ~(n <= Len(said)) PROVE FALSE
    OBVIOUS
  <2>1. n .. Len(said) = {}
    BY <1>1
  <2> DEFINE p == Len(z)
  <2>2. p \in Nat /\ p <= Len(z) /\ \A i \in n .. Len(said) : p <= f[i]
    BY <1>1, <2>1
  <2>3. k < p /\ m <= p
    BY <1>1
  <2> HIDE DEF p, n
  <2>4. \A i \in k + 1 .. p : z[i] \in Typed
    BY <2>2, KeysBetween DEF n
  <2> QED BY Zenon, <1>1, <2>2, <2>3, <2>4, KeysAhead
<1>4. n \in 1 .. Len(said) /\ n \in n .. Len(said)
  BY <1>1, <1>3
<1> HIDE DEF n
<1> DEFINE p == f[n]
           h == g[n]
           e == said[n].kind
           v == Reported(said[n])
<1>5. p \in Nat /\ h \in Nat /\ p < h /\ h <= Len(z) /\ p <= Len(z) /\ p <= h /\ k <= p
  <2>1. p \in Nat /\ h \in Nat /\ p < h /\ h <= Len(z) /\ k <= p
    BY <1>1, <1>2, <1>4
  <2> HIDE DEF p, h
  <2> QED BY <1>1, <2>1
<1>6. e \in Decoders /\ Spoken(e, v, Span(z, p, h))
  <2>1. Answered(z, f[n], g[n], said[n])
    BY <1>2, <1>4
  <2> QED BY <2>1 DEF Answered
<1>7. ASSUME k # p PROVE FALSE
  <2>1. ASSUME NEW i \in n .. Len(said) PROVE p <= f[i]
    <3>1. CASE i = n
      BY <1>5, <3>1
    <3>2. CASE i # n
      <4>1. i \in 1 .. Len(said) /\ n < i
        BY <1>4, <3>2
      <4>2. h <= f[i] /\ f[i] \in Nat
        BY <1>1, <1>2, <1>4, <4>1
      <4> HIDE DEF p, h
      <4> QED BY <1>5, <4>2
    <3> QED BY <3>1, <3>2
  <2> HIDE DEF p, h
  <2>2. \A i \in k + 1 .. p : z[i] \in Typed
    BY <1>5, <2>1, KeysBetween DEF n
  <2>3. z[p + 1] = ESC
    <3> DEFINE s == Span(z, p, h)
    <3>1. s[1] = ESC
      BY <1>6 DEF Spoken
    <3>2. IsList(z) /\ p \in Nat /\ h \in Nat /\ p <= h /\ h <= Len(z) /\ 1 \in 1 .. h - p
      BY <1>1, <1>5
    <3>3. \A i \in 1 .. h - p : Span(z, p, h)[i] = z[p + i]
      BY <3>2, SpanIs
    <3>4. Span(z, p, h)[1] = z[p + 1]
      BY <3>2, <3>3
    <3> QED BY <3>1, <3>4
  <2>4. k < p
    BY <1>1, <1>5, <1>7
  <2> QED BY Zenon, <1>1, <1>5, <2>2, <2>3, <2>4, KeysAhead
<1>8. k = p
  BY <1>7
<1> HIDE DEF p, h, e, v
<1>9. h <= m /\ Decode(d, Span(z, k, m)) = Ok(v, h - k)
  BY <1>1, <1>5, <1>6, <1>8, AnswerAhead
<1> QED BY <1>4, <1>8, <1>9 DEF n, p, h, v

(* And then it has been heard. *)
LEMMA HeardNext ==
  ASSUME NEW z, NEW f, NEW g, NEW k, NEW m, NEW said, NEW got, Sent(z, f, g, said),
         Received(z, f, g, k, m, said, got), Len(got) + 1 <= Len(said),
         f[Len(got) + 1] = k, g[Len(got) + 1] <= m
  PROVE  Received(z, f, g, g[Len(got) + 1], m, said, Append(got, Reported(said[Len(got) + 1])))
<1> DEFINE n == Len(got) + 1
           now == Append(got, Reported(said[n]))
<1>1. /\ IsList(z) /\ IsList(said) /\ IsList(got) /\ Len(z) \in Nat /\ Len(said) \in Nat
      /\ Len(got) \in Nat /\ Len(got) <= Len(said)
      /\ k \in Nat /\ m \in Nat /\ k <= m /\ m <= Len(z)
      /\ \A i \in 1 .. Len(said) : f[i] \in Nat /\ g[i] \in Nat /\ f[i] < g[i] /\ g[i] <= Len(z)
  BY ReceivedFacts
<1>2. /\ \A i \in 1 .. Len(got) : got[i] = Reported(said[i]) /\ g[i] <= k
      /\ \A i, j \in 1 .. Len(said) : i < j => g[i] <= f[j]
  BY DEF Received, Sent
<1>3. /\ IsList(now) /\ Len(now) = n /\ now[n] = Reported(said[n])
      /\ \A i \in 1 .. Len(got) : now[i] = got[i]
  BY <1>1, ListAppend
<1>4. n \in 1 .. Len(said) /\ n \in Nat /\ f[n] = k /\ g[n] <= m
  BY <1>1
<1>5. \A i \in 1 .. n : i = n \/ (i \in 1 .. Len(got) /\ i \in 1 .. Len(said))
  BY <1>1, <1>4
<1>6. \A i \in n + 1 .. Len(said) : i \in 1 .. Len(said) /\ n < i
  BY <1>4
<1> HIDE DEF n, now
<1>7. g[n] \in Nat /\ k < g[n]
  BY <1>1, <1>4
<1>8. ASSUME NEW i \in 1 .. n PROVE now[i] = Reported(said[i]) /\ g[i] <= g[n]
  <2>1. CASE i = n
    BY <1>3, <1>7, <2>1
  <2>2. CASE i \in 1 .. Len(got) /\ i \in 1 .. Len(said)
    <3>1. g[i] \in Nat /\ g[i] <= k
      BY <1>1, <1>2, <2>2
    <3> QED BY <1>1, <1>2, <1>3, <1>7, <2>2, <3>1
  <2> QED BY <1>5, <2>1, <2>2
<1>9. \A i \in n + 1 .. Len(said) : g[n] <= f[i]
  BY <1>2, <1>4, <1>6
<1>10. n <= Len(said)
  BY <1>4
<1>11. Received(z, f, g, g[n], m, said, now)
  BY <1>1, <1>3, <1>4, <1>7, <1>8, <1>9, <1>10 DEF Received
<1> QED BY <1>11 DEF n, now

(* No byte has been sent. *)
LEMMA TalkInit == Init => TalkInv
<1> SUFFICES ASSUME Init PROVE TalkInv
  OBVIOUS
<1> DEFINE none == <<>>
           f == [i \in Nat |-> 0]
<1>1. f \in [Nat -> Nat]
  OBVIOUS
<1>2. IsList(none) /\ Len(none) = 0
  BY ListLiteral DEF Literals, Size
<1>3. told = none /\ heard = none /\ inbox = none /\ back = none
  BY DEF Init
<1> HIDE DEF none, f
<1>4. Sent(none, f, f, none)
  BY <1>2 DEF Sent
<1>5. Received(none, f, f, 0, 0, none, none)
  BY <1>2 DEF Received
<1>6. Span(none, 0, 0) = none
  <2> DEFINE a == 1
             b == 0
  <2>1. a \in Int /\ b \in Int /\ b < a /\ a = 0 + 1
    OBVIOUS
  <2> HIDE DEF a, b
  <2>2. SubSeq(none, a, b) = <<>>
    BY <2>1, SubSeqEmpty
  <2> QED BY <2>2 DEF Span, a, b, none
<1>7. Span(none, 0, Len(none)) = none
  BY <1>2, <1>6
<1> QED BY Zenon, <1>1, <1>3, <1>4, <1>5, <1>6, <1>7 DEF TalkInv

(* The invariant, opened and closed. *)
Talk(z, f, g, k, m) ==
  /\ f \in [Nat -> Nat] /\ g \in [Nat -> Nat]
  /\ Sent(z, f, g, told)
  /\ Received(z, f, g, k, m, told, heard)
  /\ inbox = Span(z, k, m) /\ back = Span(z, m, Len(z))

(* The invariant is that such a conversation exists. *)
LEMMA TalkIs == TalkInv <=> \E z, f, g, k, m : Talk(z, f, g, k, m)
BY DEF TalkInv, Talk

(* More is sent: what is received stays. *)
LEMMA ReceivedStays ==
  ASSUME NEW z, NEW t, NEW q, IsList(t), InTurn(z, t, q), NEW f, NEW g, NEW k, NEW m, NEW said,
         NEW got, Sent(z, f, g, said), Received(z, f, g, k, m, said, got)
  PROVE  /\ Received(q, f, g, k, m, said, got)
         /\ Span(q, k, m) = Span(z, k, m)
         /\ Span(q, m, Len(q)) = Span(z, m, Len(z)) \o t
<1>1. IsList(z) /\ Len(z) \in Nat /\ k \in Nat /\ m \in Nat /\ k <= m /\ m <= Len(z)
  BY ReceivedFacts
<1>2. Len(t) \in Nat /\ Len(q) = Len(z) + Len(t)
  BY DEF InTurn
<1>3. m <= Len(q)
  BY <1>1, <1>2
<1>4. Received(q, f, g, k, m, said, got)
  BY <1>3 DEF Received
<1>5. Span(q, k, m) = Span(z, k, m)
  BY <1>1, SpanStays
<1>6. Span(q, m, Len(q)) = Span(z, m, Len(z)) \o t
  BY <1>1, SpanLonger
<1> QED BY <1>4, <1>5, <1>6

(* Keys come last. *)
LEMMA TalkKey ==
  ASSUME TalkInv, NEW bytes \in Noise, PressKey(bytes)
  PROVE  TalkInv'
<1>1. PICK z, f, g, k, m : Talk(z, f, g, k, m)
  BY TalkIs
<1> DEFINE q == z \o bytes
<1>2. IsList(bytes) /\ \A i \in 1 .. Len(bytes) : bytes[i] \in Typed
  <2>1. bytes \in Seq(STRING)
    BY CodecAssumption DEF CodecAssumption
  <2>2. IsList(bytes)
    BY <2>1, ListIn
  <2>3. ASSUME NEW i \in 1 .. Len(bytes) PROVE bytes[i] \in Typed
    <3>1. bytes[i] \in ToSet(bytes)
      BY DEF ToSet
    <3> QED BY <3>1 DEF Typed
  <2> QED BY <2>2, <2>3
<1>3. IsList(z)
  BY <1>1 DEF Talk, Sent
<1>4. InTurn(z, bytes, q)
  BY <1>2, <1>3, ListsJoined
<1> HIDE DEF q
<1>5. Sent(z, f, g, told) /\ Received(z, f, g, k, m, told, heard)
  BY <1>1 DEF Talk
<1>6. Sent(q, f, g, told)
  BY <1>2, <1>4, <1>5, SentKey
<1>7. /\ Received(q, f, g, k, m, told, heard) /\ Span(q, k, m) = Span(z, k, m)
      /\ Span(q, m, Len(q)) = Span(z, m, Len(z)) \o bytes
  BY <1>2, <1>4, <1>5, ReceivedStays
<1>8. back' = back \o bytes /\ inbox' = inbox /\ told' = told /\ heard' = heard
  BY DEF PressKey, readVars
<1>9. /\ f \in [Nat -> Nat] /\ g \in [Nat -> Nat]
      /\ inbox = Span(z, k, m) /\ back = Span(z, m, Len(z))
  BY Zenon, <1>1 DEF Talk
<1>10. Talk(q, f, g, k, m)'
  BY Zenon, <1>6, <1>7, <1>8, <1>9 DEF Talk
<1> QED BY Zenon, <1>10 DEF TalkInv, Talk

(* So does an answer. *)
LEMMA TalkAnswer ==
  ASSUME TalkInv, ScreenOK(screen), NEW c \in DOMAIN QueryBytes, Says(Answer(c)),
         UNCHANGED <<inbox, heard>>
  PROVE  TalkInv'
<1>1. PICK z, f, g, k, m : Talk(z, f, g, k, m)
  BY TalkIs
<1> DEFINE a == Answer(c)
<1>2. PICK t \in AnswerBytes(a) : back' = back \o t
  BY DEF Says
<1>3. told' = Append(told, a)
  BY DEF Says
<1>4. a.kind \in Decoders /\ Spoken(a.kind, Reported(a), t)
  <2>1. screen.clip \in Seq(Octet)
    BY DEF ScreenOK
  <2> QED BY <1>2, <2>1, AnswersAreRead
<1> HIDE DEF a
<1> DEFINE q == z \o t
           n == Len(told) + 1
           u == [f EXCEPT ![n] = Len(z)]
           v == [g EXCEPT ![n] = Len(q)]
           now == Append(told, a)
<1>5. IsList(z) /\ IsList(told) /\ Sent(z, f, g, told) /\ Received(z, f, g, k, m, told, heard)
  BY <1>1 DEF Talk, Sent
<1>6. IsList(t)
  BY <1>4 DEF Spoken
<1>7. InTurn(z, t, q)
  BY <1>5, <1>6, ListsJoined
<1> HIDE DEF q, u, v
<1>8. Answered(q, Len(z), Len(q), a)
  BY <1>4, <1>5, <1>7, AnsweredNow
<1>9. Len(told) \in Nat /\ Len(z) \in Nat /\ Len(q) \in Nat
  BY <1>5, <1>7 DEF IsList, InTurn
<1>10. f \in [Nat -> Nat] /\ g \in [Nat -> Nat]
  BY Zenon, <1>1 DEF Talk
<1>11. /\ u \in [Nat -> Nat] /\ v \in [Nat -> Nat] /\ u[n] = Len(z) /\ v[n] = Len(q)
       /\ \A i \in 1 .. Len(told) : u[i] = f[i] /\ v[i] = g[i]
  <2>1. n \in Nat /\ \A i \in 1 .. Len(told) : i \in Nat /\ i # n
    BY <1>9
  <2> HIDE DEF n
  <2> QED BY Zenon, <1>9, <1>10, <2>1 DEF u, v
<1>12. Sent(q, u, v, now)
  BY ZenonT(60), <1>5, <1>6, <1>7, <1>8, <1>11, SentAnswer
<1>13. /\ Received(q, f, g, k, m, told, heard) /\ Span(q, k, m) = Span(z, k, m)
       /\ Span(q, m, Len(q)) = Span(z, m, Len(z)) \o t
  BY <1>5, <1>6, <1>7, ReceivedStays
<1>14. Received(q, u, v, k, m, now, heard)
  <2>1. Len(now) = n /\ \A i \in 1 .. Len(told) : now[i] = told[i]
    BY <1>5, ListAppend
  <2>2. /\ k \in Nat /\ m \in Nat /\ k <= m /\ m <= Len(z) /\ m <= Len(q) /\ IsList(heard)
        /\ Len(heard) \in Nat /\ Len(heard) <= Len(told)
        /\ \A i \in 1 .. Len(heard) : heard[i] = Reported(told[i]) /\ g[i] <= k
        /\ \A i \in Len(heard) + 1 .. Len(told) : k <= f[i]
    <3>1. /\ k \in Nat /\ m \in Nat /\ k <= m /\ m <= Len(z) /\ IsList(heard)
          /\ Len(heard) \in Nat /\ Len(heard) <= Len(told)
      BY <1>5, ReceivedFacts
    <3> QED BY <1>5, <1>13, <3>1 DEF Received
  <2> HIDE DEF now, n
  <2>3. Len(heard) <= Len(now)
    BY <1>9, <2>1, <2>2 DEF n
  <2>4. ASSUME NEW i \in 1 .. Len(heard) PROVE heard[i] = Reported(now[i]) /\ v[i] <= k
    <3>1. i \in 1 .. Len(told)
      BY <1>9, <2>2
    <3> QED BY Zenon, <1>11, <2>1, <2>2, <3>1
  <2>5. ASSUME NEW i \in Len(heard) + 1 .. Len(now) PROVE k <= u[i]
    <3>1. CASE i = n
      <4>1. u[n] = Len(z)
        BY <1>11, Zenon
      <4> QED BY <1>9, <2>2, <3>1, <4>1
    <3>2. CASE i # n
      <4>1. i \in 1 .. Len(told) /\ i \in Len(heard) + 1 .. Len(told)
        BY <1>9, <2>1, <2>2, <3>2 DEF n
      <4> QED BY Zenon, <1>11, <2>2, <4>1
    <3> QED BY <3>1, <3>2
  <2> QED BY Zenon, <2>2, <2>3, <2>4, <2>5 DEF Received
<1>15. inbox = Span(z, k, m) /\ back = Span(z, m, Len(z))
  BY <1>1 DEF Talk
<1> HIDE DEF now
<1>16. inbox' = Span(q, k, m) /\ back' = Span(q, m, Len(q)) /\ told' = now /\ heard' = heard
  BY <1>2, <1>3, <1>13, <1>15 DEF now
<1>17. Sent(q, u, v, told') /\ Received(q, u, v, k, m, told', heard')
  BY <1>12, <1>14, <1>16, Zenon
<1>18. u \in [Nat -> Nat] /\ v \in [Nat -> Nat]
  BY <1>11, Zenon
<1> QED BY <1>16, <1>17, <1>18, Zenon DEF TalkInv

(* A byte arrives. *)
LEMMA TalkArrive == TalkInv /\ Arrive => TalkInv'
<1> SUFFICES ASSUME TalkInv, Arrive PROVE TalkInv'
  OBVIOUS
<1>1. PICK z, f, g, k, m : Talk(z, f, g, k, m)
  BY TalkIs
<1>2. /\ Sent(z, f, g, told) /\ Received(z, f, g, k, m, told, heard)
      /\ inbox = Span(z, k, m) /\ back = Span(z, m, Len(z))
  BY <1>1 DEF Talk
<1>3. /\ back # <<>> /\ inbox' = Append(inbox, Head(back)) /\ back' = Tail(back)
      /\ told' = told /\ heard' = heard
  BY DEF Arrive
<1>4. IsList(z) /\ Len(z) \in Nat /\ k \in Nat /\ m \in Nat /\ k <= m /\ m <= Len(z)
  BY <1>2, ReceivedFacts
<1> DEFINE e == Len(z)
<1>5. m < e
  <2>1. Span(z, m, e) # <<>> /\ e \in Nat /\ m <= e /\ e <= Len(z)
    BY <1>2, <1>3, <1>4
  <2> HIDE DEF e
  <2> QED BY <1>4, <2>1, SpanSome
<1>6. back' = Span(z, m + 1, e) /\ Head(back) = z[m + 1]
  <2>1. e \in Nat /\ e <= Len(z) /\ back = Span(z, m, e)
    BY <1>2, <1>4
  <2> HIDE DEF e
  <2>2. Head(Span(z, m, e)) = z[m + 1] /\ Tail(Span(z, m, e)) = Span(z, m + 1, e)
    BY <1>4, <1>5, <2>1, SpanTail
  <2> QED BY <1>3, <2>1, <2>2
<1>7. inbox' = Span(z, k, m + 1)
  <2>1. Append(Span(z, k, m), z[m + 1]) = Span(z, k, m + 1)
    BY <1>4, <1>5, SpanNext
  <2> QED BY <1>2, <1>3, <1>6, <2>1
<1>8. Received(z, f, g, k, m + 1, told, heard)
  <2>1. m + 1 \in Nat /\ k <= m + 1 /\ m + 1 <= Len(z)
    BY <1>4, <1>5
  <2> QED BY <1>2, <2>1 DEF Received
<1> DEFINE p == m + 1
<1>9. f \in [Nat -> Nat] /\ g \in [Nat -> Nat]
  BY <1>1, Zenon DEF Talk
<1>10. Sent(z, f, g, told') /\ Received(z, f, g, k, p, told', heard')
  BY <1>2, <1>3, <1>8, Zenon
<1>11. inbox' = Span(z, k, p) /\ back' = Span(z, p, Len(z))
  BY <1>6, <1>7, Zenon
<1> HIDE DEF p
<1> QED BY <1>9, <1>10, <1>11, Zenon DEF TalkInv

(* A byte of a key is dropped. *)
LEMMA TalkDrop == TalkInv /\ Drop => TalkInv'
<1> SUFFICES ASSUME TalkInv, Drop PROVE TalkInv'
  OBVIOUS
<1>1. PICK z, f, g, k, m : Talk(z, f, g, k, m)
  BY TalkIs
<1>2. /\ Sent(z, f, g, told) /\ Received(z, f, g, k, m, told, heard)
      /\ inbox = Span(z, k, m) /\ back = Span(z, m, Len(z))
  BY <1>1 DEF Talk
<1>3. /\ inbox # <<>> /\ Rejected = Decoders /\ inbox' = Tail(inbox)
      /\ back' = back /\ told' = told /\ heard' = heard
  BY DEF Drop
<1>4. IsList(z) /\ Len(z) \in Nat /\ k \in Nat /\ m \in Nat /\ k <= m /\ m <= Len(z)
  BY <1>2, ReceivedFacts
<1>5. k < m
  BY <1>2, <1>3, <1>4, SpanSome
<1>6. inbox' = Span(z, k + 1, m)
  BY <1>2, <1>3, <1>4, <1>5, SpanTail
<1>7. \A d \in Decoders : Decode(d, Span(z, k, m)).result = "malformed"
  BY <1>2, <1>3 DEF Rejected
<1>8. Received(z, f, g, k + 1, m, told, heard)
  BY <1>2, <1>5, <1>7, DropKey
<1> DEFINE p == k + 1
<1>9. f \in [Nat -> Nat] /\ g \in [Nat -> Nat]
  BY <1>1, Zenon DEF Talk
<1>10. Sent(z, f, g, told') /\ Received(z, f, g, p, m, told', heard')
  BY <1>2, <1>3, <1>8, Zenon
<1>11. inbox' = Span(z, p, m) /\ back' = Span(z, m, Len(z))
  BY <1>2, <1>3, <1>6, Zenon
<1> HIDE DEF p
<1> QED BY <1>9, <1>10, <1>11, Zenon DEF TalkInv

(* An answer is taken. *)
LEMMA TalkTake == KeysApart /\ TalkInv /\ Take => TalkInv'
<1> SUFFICES ASSUME KeysApart, TalkInv, Take PROVE TalkInv'
  OBVIOUS
<1>1. PICK z, f, g, k, m : Talk(z, f, g, k, m)
  BY TalkIs
<1>2. /\ Sent(z, f, g, told) /\ Received(z, f, g, k, m, told, heard)
      /\ inbox = Span(z, k, m) /\ back = Span(z, m, Len(z))
  BY <1>1 DEF Talk
<1>3. inbox # <<>> /\ back' = back /\ told' = told
  BY DEF Take
<1>4. PICK d \in Accepted : /\ heard' = Append(heard, Decode(d, inbox).value)
                            /\ inbox' = SubSeq(inbox, Decode(d, inbox).consumed + 1, Len(inbox))
  BY Zenon DEF Take
<1>5. /\ IsList(z) /\ Len(z) \in Nat /\ k \in Nat /\ m \in Nat /\ k <= m /\ m <= Len(z)
      /\ \A i \in 1 .. Len(told) : g[i] \in Nat /\ f[i] < g[i]
  BY <1>2, ReceivedFacts
<1>6. k < m
  BY <1>2, <1>3, <1>5, SpanSome
<1>7. d \in Decoders /\ Decode(d, Span(z, k, m)).result = "ok"
  BY <1>2 DEF Accepted
<1> DEFINE n == Len(heard) + 1
           h == g[n]
           v == Reported(told[n])
<1>8. n \in 1 .. Len(told) /\ f[n] = k /\ h <= m /\ Decode(d, Span(z, k, m)) = Ok(v, h - k)
  BY <1>2, <1>6, <1>7, TakeAnswer
<1>9. h \in Nat /\ k < h
  BY <1>5, <1>8
<1>10. Received(z, f, g, h, m, told, Append(heard, v))
  <2>1. Len(heard) + 1 <= Len(told) /\ f[Len(heard) + 1] = k /\ g[Len(heard) + 1] <= m
    BY <1>8
  <2>2. Received(z, f, g, g[Len(heard) + 1], m, told, Append(heard, Reported(told[Len(heard) + 1])))
    BY <1>2, <2>1, HeardNext
  <2> QED BY <2>2, Zenon
<1> HIDE DEF n, h, v
<1>11. Decode(d, inbox).value = v /\ Decode(d, inbox).consumed = h - k
  BY <1>2, <1>8 DEF Ok
<1>12. inbox' = Span(z, h, m)
  <2> DEFINE c == h - k
  <2>1. c \in Nat /\ c <= m - k /\ k + c = h
    BY <1>5, <1>8, <1>9
  <2>2. inbox' = SubSeq(Span(z, k, m), c + 1, Len(Span(z, k, m)))
    BY <1>2, <1>4, <1>11
  <2> HIDE DEF c
  <2>3. SubSeq(Span(z, k, m), c + 1, Len(Span(z, k, m))) = Span(z, k + c, m)
    BY Zenon, <1>5, <2>1, SpanRest
  <2> QED BY <2>1, <2>2, <2>3
<1>13. f \in [Nat -> Nat] /\ g \in [Nat -> Nat]
  BY <1>1, Zenon DEF Talk
<1>14. Sent(z, f, g, told') /\ Received(z, f, g, h, m, told', heard')
  BY <1>2, <1>3, <1>4, <1>10, <1>11, Zenon
<1>15. inbox' = Span(z, h, m) /\ back' = Span(z, m, Len(z))
  BY <1>2, <1>3, <1>12, Zenon
<1> QED BY <1>13, <1>14, <1>15, Zenon DEF TalkInv

(* The others leave what is sent and what is received alone. *)
LEMMA TalkElsewhere ==
  ASSUME TalkInv, UNCHANGED <<back, inbox, told, heard>>
  PROVE  TalkInv'
BY Zenon DEF TalkInv

(* Every step keeps the conversation. *)
LEMMA TalkStep == KeysApart /\ StreamInv /\ TalkInv /\ [Next]_vars => TalkInv'
<1> SUFFICES ASSUME KeysApart, StreamInv, TalkInv, [Next]_vars PROVE TalkInv'
  OBVIOUS
<1>1. CASE UNCHANGED vars
  BY <1>1, TalkElsewhere DEF vars, writeVars, termVars, readVars
<1>2. CASE Begin \/ EncodeItem \/ WriterFails \/ EncodeDone
  BY <1>2, TalkElsewhere DEF Begin, EncodeItem, WriterFails, EncodeDone, termVars, readVars
<1>3. CASE TerminalObeys
  <2>1. UNCHANGED readVars
    BY <1>3 DEF TerminalObeys
  <2>2. UNCHANGED <<told, back>> \/ \E c \in DOMAIN QueryBytes : Says(Answer(c))
    BY <1>3 DEF TerminalObeys, AskedFor
  <2>3. ScreenOK(screen)
    BY DEF StreamInv
  <2> QED BY <2>1, <2>2, <2>3, TalkElsewhere, TalkAnswer DEF readVars
<1>4. CASE \E bytes \in Noise : PressKey(bytes)
  BY <1>4, TalkKey
<1> QED BY <1>1, <1>2, <1>3, <1>4, TalkArrive, TalkTake, TalkDrop DEF Next

(* The decoded values are a prefix of what was reported. *)
LEMMA TalkTrue == TalkInv => AnswersAreTrue
<1> SUFFICES ASSUME TalkInv PROVE AnswersAreTrue
  OBVIOUS
<1>1. PICK z, f, g, k, m : Talk(z, f, g, k, m)
  BY TalkIs
<1>2. Sent(z, f, g, told) /\ Received(z, f, g, k, m, told, heard)
  BY <1>1 DEF Talk
<1> DEFINE n == Len(heard)
           e == Len(told)
           all == [i \in 1 .. e |-> Reported(told[i])]
           some == SubSeq(all, 1, n)
<1>3. IsList(heard) /\ n \in Nat /\ e \in Nat /\ n <= e /\ \A i \in 1 .. n : heard[i] = Reported(told[i])
  <2>1. IsList(heard) /\ n \in Nat /\ e \in Nat /\ n <= e
    BY <1>2, ReceivedFacts
  <2> QED BY <1>2, <2>1 DEF Received
<1>4. IsList(all) /\ Len(all) = e /\ \A i \in 1 .. e : all[i] = Reported(told[i])
  <2> DEFINE r(i) == Reported(told[i])
  <2> HIDE DEF r, e
  <2>1. IsList([i \in 1 .. e |-> r(i)]) /\ Len([i \in 1 .. e |-> r(i)]) = e
    BY <1>3, ListMade
  <2>2. \A i \in 1 .. e : [j \in 1 .. e |-> r(j)][i] = r(i)
    OBVIOUS
  <2> QED BY Zenon, <2>1, <2>2 DEF r
<1> HIDE DEF all, n, e
<1>5. n <= Len(all) /\ n <= Len(heard) /\ 0 \in Nat /\ 0 <= n /\ n - 0 = n
  BY <1>3, <1>4 DEF n
<1> DEFINE same == Span(heard, 0, n)
<1>6. IsList(same) /\ Len(same) = n - 0 /\ \A i \in 1 .. n - 0 : same[i] = heard[0 + i]
  BY Zenon, <1>3, <1>5, SpanIs
<1> HIDE DEF same
<1>7. ASSUME NEW i \in 1 .. n - 0 PROVE same[i] = all[0 + i]
  <2>1. 0 + i = i /\ i \in 1 .. n /\ i \in 1 .. e
    BY <1>3
  <2> QED BY <1>3, <1>4, <1>6, <2>1
<1>8. same = Span(all, 0, n)
  BY SMTT(40), <1>3, <1>4, <1>5, <1>6, <1>7, SpanSame
<1>9. SubSeq(heard, 1, n) = SubSeq(all, 1, n)
  <2>1. 0 + 1 = 1
    OBVIOUS
  <2> QED BY Zenon, <1>8, <2>1 DEF same, Span
<1>10. IsPrefix(heard, all)
  BY <1>5, <1>9 DEF IsPrefix, n
<1> QED BY <1>10 DEF AnswersAreTrue, all, e

(* AnswersAreTrue: whatever is asked in whatever order, however the answers *)
(* are cut up on their way and whatever keys come between them, the values  *)
(* the program decodes are the ones the terminal gave, in their order.      *)
THEOREM AnswersTrue == KeysApart => (Spec => []AnswersAreTrue)
<1> SUFFICES ASSUME KeysApart PROVE Spec => []AnswersAreTrue
  OBVIOUS
<1>1. Init => StreamInv /\ TalkInv
  BY StreamInit, TalkInit
<1>2. StreamInv /\ TalkInv /\ [Next]_vars => (StreamInv /\ TalkInv)'
  BY StreamStep, TalkStep
<1>3. StreamInv /\ TalkInv => AnswersAreTrue
  BY TalkTrue
<1> QED BY <1>1, <1>2, <1>3, PTL DEF Spec

-----------------------------------------------------------------------------
(* Nothing stuck: the reader.                                               *)

(* A scan that has ended and is not accepted is rejected. *)
LEMMA CsiRefuses ==
  ASSUME NEW s, NEW d \in CsiDecoders, ParseCsi(s).at # "body", Decode(d, s).result # "ok"
  PROVE  Decode(d, s).result = "malformed"
<1>1. Malformed.result = "malformed" /\ \A v, n : Ok(v, n).result = "ok"
  BY DEF Malformed, Ok
<1>2. CASE d = "da1"
  BY <1>1, <1>2 DEF Decode, Da1, CsiDecode
<1>3. CASE d = "dsr"
  BY <1>1, <1>3 DEF Decode, Dsr, CsiDecode
<1>4. CASE d = "kitty"
  BY <1>1, <1>4 DEF Decode, KittyReply, CsiDecode
<1>5. CASE d = "decrpm"
  BY <1>1, <1>5 DEF Decode, Decrpm, CsiDecode
<1> QED BY <1>2, <1>3, <1>4, <1>5 DEF CsiDecoders

(* Five bytes that are no OSC 52 are rejected. *)
LEMMA OscRefuses ==
  ASSUME NEW s, IsList(s), Len(s) >= 5, ~Prefix52(s)
  PROVE  Decode("osc52", s).result = "malformed"
<1>1. Osc52(s) = Malformed
  BY Zenon, Osc52Cases
<1>2. Malformed.result = "malformed"
  BY DEF Malformed
<1> QED BY <1>1, <1>2, OscDecode

(* What does not begin with ESC is rejected by all. *)
LEMMA OtherRefused ==
  ASSUME NEW s, IsList(s), Len(s) >= 5, s[1] # ESC, NEW d \in Decoders
  PROVE  Decode(d, s).result = "malformed"
<1>1. CASE d \in CsiDecoders
  <2>1. <<s[1], s[2]>> # CSI /\ Len(s) >= 2
    <3>1. CSI[1] = ESC /\ <<s[1], s[2]>>[1] = s[1]
      BY DEF CSI
    <3>2. Len(s) \in Nat
      BY DEF IsList
    <3> QED BY <3>1, <3>2
  <2>2. ParseCsi(s).at = "malformed"
    <3>1. ParseCsi(s) = [CsiStart(FALSE) EXCEPT !.at = "malformed"]
      BY Zenon, <2>1, ParseCases
    <3>2. CsiStart(FALSE) \in CsiState
      BY Zenon, CsiStartType
    <3> QED BY <3>1, <3>2 DEF CsiState
  <2>3. Decode(d, s).result # "ok"
    BY EscapeFirst
  <2> QED BY <1>1, <2>2, <2>3, CsiRefuses
<1>2. CASE d = "osc52"
  <2>1. ~Prefix52(s)
    <3> SUFFICES ASSUME Prefix52(s) PROVE FALSE
      OBVIOUS
    <3>1. SubSeq(s, 1, 5) = OscPrefix
      BY Zenon DEF Prefix52, OscPrefix
    <3>2. s[1] = OscPrefix[1]
      BY <3>1, PrefixFirst
    <3> QED BY Zenon, <3>2, PrefixBytes
  <2> QED BY <1>2, <2>1, OscRefuses
<1> QED BY <1>1, <1>2, DecodersAre

(* Keys that ask nothing, and then an ESC: rejected by all. *)
LEMMA CleanRefused ==
  ASSUME NEW s, IsList(s), Len(s) >= 5, Clean(s), NEW j \in 2 .. Len(s), s[j] = ESC,
         NEW d \in Decoders
  PROVE  Decode(d, s).result = "malformed"
<1>0. Len(s) \in Nat /\ Len(s) >= 2 /\ j \in Nat
  BY DEF IsList
<1>1. Decode(d, s).result # "ok"
  BY CleanUntaken
<1>2. CASE d \in CsiDecoders
  <2>1. ParseCsi(s).at # "body"
    <3> SUFFICES ASSUME ParseCsi(s).at = "body" PROVE FALSE
      OBVIOUS
    <3>1. ParseCsi(s).at # "malformed"
      OBVIOUS
    <3>2. \A i \in 3 .. Len(s) : s[i] # ESC
      BY Zenon, <3>1, CleanIdle DEF Idle
    <3>3. s[2] = "["
      BY <1>0, <3>1, ScanBegun
    <3>4. j = 2 \/ j \in 3 .. Len(s)
      BY <1>0
    <3> QED BY <3>2, <3>3, <3>4, EscapeIs
  <2> QED BY <1>1, <1>2, <2>1, CsiRefuses
<1>3. CASE d = "osc52"
  <2>1. ~Prefix52(s)
    <3> SUFFICES ASSUME Prefix52(s) PROVE FALSE
      OBVIOUS
    <3>1. SubSeq(s, 1, 5) = OscPrefix
      BY Zenon DEF Prefix52, OscPrefix
    <3>2. s[3] = OscPrefix[3] /\ s[2] = "]"
      <4>1. s[3] = OscPrefix[3]
        BY <3>1, PrefixThird
      <4>2. s[2] = "]"
        BY Zenon, <3>1, FrontFive DEF OscPrefix
      <4> QED BY <4>1, <4>2
    <3>3. OscPrefix[3] \in Parameters /\ OscPrefix[3] # ESC /\ s[2] # ESC
      BY Zenon, <3>2, EscapeIs, PrefixBytes
    <3>4. 3 \in 1 .. Len(s)
      BY <1>0
    <3>5. PICK i \in 2 .. 3 : s[i] = ESC
      BY <3>2, <3>3, <3>4 DEF Clean
    <3>6. i = 2 \/ i = 3
      OBVIOUS
    <3> QED BY <3>2, <3>3, <3>5, <3>6
  <2> QED BY <1>3, <2>1, OscRefuses
<1> QED BY <1>2, <1>3, DecodersAre

(* Keys, and behind them an answer that is all there: rejected by all.      *)
LEMMA KeysRefused ==
  ASSUME KeysApart, NEW z, IsList(z), NEW k \in Nat, NEW m \in Nat, k <= m, m <= Len(z),
         NEW p \in Nat, k < p, p + 4 <= m, \A i \in k + 1 .. p : z[i] \in Typed,
         z[p + 1] = ESC, NEW d \in Decoders
  PROVE  Decode(d, Span(z, k, m)).result = "malformed"
<1> DEFINE s == Span(z, k, m)
           n == m - k
<1>1. IsList(s) /\ Len(s) = n /\ \A i \in 1 .. n : s[i] = z[k + i]
  <2> HIDE DEF s
  <2>2. /\ IsList(Span(z, k, m)) /\ Len(Span(z, k, m)) = m - k
        /\ \A i \in 1 .. m - k : Span(z, k, m)[i] = z[k + i]
    BY Zenon, SpanIs
  <2> QED BY <2>2 DEF s
<1>2. n \in Nat /\ n >= 5
  OBVIOUS
<1> HIDE DEF s
<1>3. CASE ESC \notin Typed
  <2>1. k + 1 \in k + 1 .. p /\ 1 \in 1 .. n
    BY <1>2
  <2>2. s[1] = z[k + 1] /\ z[k + 1] \in Typed
    BY <1>1, <2>1
  <2>3. s[1] # ESC
    BY <1>3, <2>2
  <2>4. Decode(d, s).result = "malformed"
    BY <1>1, <1>2, <2>3, OtherRefused
  <2> QED BY <2>4 DEF s
<1>4. CASE Typed \cap (Digits \cup {";"}) = {}
  <2> DEFINE j == p + 1 - k
  <2>0. j \in 2 .. n /\ j \in 1 .. n /\ k + j = p + 1
    BY <1>2
  <2> HIDE DEF j
  <2>1. s[j] = ESC
    BY <1>1, <2>0
  <2>2. ASSUME NEW i \in 1 .. Len(s), s[i] \in Parameters PROVE \E h \in 2 .. i : s[h] = ESC
    <3>1. i \in 1 .. n /\ s[i] = z[k + i]
      BY <1>1
    <3>2. z[k + i] \notin Typed
      BY Zenon, <1>4, <2>2, <3>1 DEF Parameters
    <3>3. k + i \notin k + 1 .. p
      BY <3>2
    <3>4. k + i > p
      BY <3>1, <3>3
    <3>5. j \in 2 .. i
      BY <2>0, <3>1, <3>4
    <3> QED BY <2>1, <3>5
  <2>3. Clean(s)
    BY <2>2 DEF Clean
  <2>4. j \in 2 .. Len(s) /\ Len(s) >= 5
    BY <1>1, <1>2, <2>0
  <2>5. Decode(d, s).result = "malformed"
    BY Zenon, <1>1, <2>1, <2>3, <2>4, CleanRefused
  <2> QED BY <2>5 DEF s
<1> QED BY Zenon, <1>3, <1>4 DEF KeysApart

(* With all bytes in and an answer not heard, the reader has something to   *)
(* take or to drop.                                                         *)
LEMMA ReadsOn ==
  ASSUME KeysApart, NEW z, NEW f, NEW g, NEW k, NEW said, NEW got, Sent(z, f, g, said),
         Received(z, f, g, k, Len(z), said, got), Len(got) < Len(said)
  PROVE  LET s == Span(z, k, Len(z))
         IN /\ k < Len(z)
            /\ \/ \E d \in Decoders : Decode(d, s).result = "ok"
               \/ \A d \in Decoders : Decode(d, s).result = "malformed"
<1> DEFINE m == Len(z)
           n == Len(got) + 1
           s == Span(z, k, m)
<1>1. /\ IsList(z) /\ Len(said) \in Nat /\ Len(got) \in Nat /\ k \in Nat /\ m \in Nat /\ k <= m
      /\ \A i \in 1 .. Len(said) : f[i] \in Nat /\ g[i] \in Nat /\ f[i] < g[i] /\ g[i] <= m
  BY ReceivedFacts
<1>2. /\ \A i \in Len(got) + 1 .. Len(said) : k <= f[i]
      /\ \A i, j \in 1 .. Len(said) : i < j => g[i] <= f[j]
      /\ \A i \in 1 .. Len(said) : Answered(z, f[i], g[i], said[i])
  BY DEF Received, Sent
<1>3. n \in 1 .. Len(said) /\ n \in Len(got) + 1 .. Len(said)
  BY <1>1
<1> DEFINE p == f[n]
           h == g[n]
           e == said[n].kind
           v == Reported(said[n])
<1>4. p \in Nat /\ h \in Nat /\ p < h /\ h <= m /\ k <= p
  BY <1>1, <1>2, <1>3
<1>5. e \in Decoders /\ Spoken(e, v, Span(z, p, h))
  <2>1. Answered(z, f[n], g[n], said[n])
    BY <1>2, <1>3
  <2> QED BY <2>1 DEF Answered
<1>6. ASSUME NEW i \in Len(got) + 1 .. Len(said) PROVE p <= f[i]
  <2>1. CASE i = n
    BY <1>4, <2>1
  <2>2. CASE i # n
    <3>1. i \in 1 .. Len(said) /\ n < i
      BY <1>1, <2>2
    <3>2. h <= f[i] /\ f[i] \in Nat
      BY <1>1, <1>2, <1>3, <3>1
    <3> HIDE DEF p, h
    <3> QED BY <1>4, <3>2
  <2> QED BY <2>1, <2>2
<1> HIDE DEF p, h, e, v, n, m
<1>7. k < m
  BY <1>1, <1>4
<1>8. CASE k = p
  <2>1. Decode(e, Span(z, p, h)) = Ok(v, Len(Span(z, p, h)))
    BY <1>5 DEF Spoken
  <2>2. Decode(e, Span(z, p, h)).result = "ok"
    BY <2>1 DEF Ok
  <2>3. Decode(e, Span(z, k, h)).result # "incomplete" /\ Decode(e, Span(z, k, h)).result = "ok"
    BY <1>8, <2>2
  <2>4. IsList(z) /\ k \in Nat /\ h \in Nat /\ m \in Nat /\ k <= h /\ h <= m /\ m <= Len(z)
    BY <1>1, <1>4, <1>8 DEF m
  <2>5. Decode(e, Span(z, k, m)) = Decode(e, Span(z, k, h))
    BY <1>5, <2>3, <2>4, VerdictKept
  <2>6. Decode(e, s).result = "ok"
    BY <2>3, <2>5
  <2> QED BY <1>5, <1>7, <2>6 DEF m
<1>9. CASE k # p
  <2>1. \A i \in k + 1 .. p : z[i] \in Typed
    <3>1. p <= Len(z)
      BY <1>1, <1>4 DEF m
    <3> QED BY <1>4, <1>6, <3>1, KeysBetween
  <2>2. IsList(z) /\ p \in Nat /\ h \in Nat /\ p <= h /\ h <= Len(z)
    BY <1>1, <1>4 DEF m
  <2>3. /\ Len(Span(z, p, h)) = h - p /\ h - p >= 4 /\ z[p + 1] = ESC
    <3>1. Len(Span(z, p, h)) = h - p
      BY <2>2, SpanIs
    <3>2. \A i \in 1 .. h - p : Span(z, p, h)[i] = z[p + i]
      BY <2>2, SpanIs
    <3>3. Len(Span(z, p, h)) >= 4 /\ Span(z, p, h)[1] = ESC
      BY <1>5 DEF Spoken
    <3>4. 1 \in 1 .. h - p
      BY <1>4
    <3> QED BY <3>1, <3>2, <3>3, <3>4
  <2>4. k < p /\ p + 4 <= m /\ m <= Len(z) /\ k <= m
    BY <1>1, <1>4, <1>9, <2>3 DEF m
  <2>5. ASSUME NEW d \in Decoders PROVE Decode(d, s).result = "malformed"
    BY Zenon, <1>1, <1>4, <2>1, <2>2, <2>3, <2>4, KeysRefused
  <2> QED BY <1>7, <2>5 DEF m
<1> QED BY <1>8, <1>9

(* So with the conversation. *)
LEMMA TalkReads ==
  ASSUME KeysApart, TalkInv, back = <<>>, Len(heard) < Len(told)
  PROVE  inbox # <<>> /\ (Accepted # {} \/ Rejected = Decoders)
<1>1. PICK z, f, g, k, m : Talk(z, f, g, k, m)
  BY TalkIs
<1>2. /\ Sent(z, f, g, told) /\ Received(z, f, g, k, m, told, heard)
      /\ inbox = Span(z, k, m) /\ back = Span(z, m, Len(z))
  BY <1>1 DEF Talk
<1>3. IsList(z) /\ Len(z) \in Nat /\ k \in Nat /\ m \in Nat /\ k <= m /\ m <= Len(z)
  BY <1>2, ReceivedFacts
<1>4. m = Len(z)
  <2> DEFINE e == Len(z)
             u == Span(z, m, e)
  <2>1. e \in Nat /\ m <= e /\ e <= Len(z)
    BY <1>3
  <2> HIDE DEF e
  <2>2. Len(u) = e - m
    BY <1>3, <2>1, SpanIs
  <2>3. u = <<>>
    BY <1>2 DEF e
  <2> HIDE DEF u
  <2>4. Len(u) = 0
    BY <2>3
  <2> QED BY <1>3, <2>1, <2>2, <2>4 DEF e
<1>5. /\ k < m
      /\ \/ \E d \in Decoders : Decode(d, Span(z, k, m)).result = "ok"
         \/ \A d \in Decoders : Decode(d, Span(z, k, m)).result = "malformed"
  BY <1>2, <1>4, ReadsOn
<1>6. inbox # <<>>
  <2> DEFINE u == Span(z, k, m)
  <2>1. Len(u) = m - k
    BY <1>3, SpanIs
  <2> HIDE DEF u
  <2>2. Len(u) # 0
    BY <1>3, <1>5, <2>1
  <2>3. u # <<>>
    BY <2>2
  <2> QED BY <1>2, <2>3 DEF u
<1>7. CASE \E d \in Decoders : Decode(d, Span(z, k, m)).result = "ok"
  BY <1>2, <1>6, <1>7 DEF Accepted
<1>8. CASE \A d \in Decoders : Decode(d, Span(z, k, m)).result = "malformed"
  BY <1>2, <1>6, <1>8 DEF Rejected
<1> QED BY <1>5, <1>7, <1>8

-----------------------------------------------------------------------------
(* Nothing stuck: the terminal, one sequence at a time.                     *)

FirstStop(s) == SelectInSubSeq(s, 3, Len(s), LAMBDA b : b = ESC \/ IsCsiFinal(b))
FirstEsc(s)  == SelectInSubSeq(s, 3, Len(s), LAMBDA b : b = ESC)

(* a is the first place of s, from the third on, that is in T, or 0. *)
FirstPlace(s, a, T) ==
  /\ a = 0 => T = {}
  /\ a # 0 => a \in T /\ a \in 3 .. Len(s) /\ \A i \in T : a <= i

StopPlaces(s) == {i \in 3 .. Len(s) : s[i] = ESC \/ IsCsiFinal(s[i])}
EscPlaces(s)  == {i \in 3 .. Len(s) : s[i] = ESC}

(* SelectInSubSeq finds the first place, or none. *)
LEMMA FirstPlaces ==
  ASSUME NEW s, IsList(s)
  PROVE  /\ FirstPlace(s, FirstStop(s), StopPlaces(s))
         /\ FirstPlace(s, FirstEsc(s), EscPlaces(s))
<1> DEFINE I == {i \in 3 .. Len(s) : s[i] = ESC \/ IsCsiFinal(s[i])}
           J == {i \in 3 .. Len(s) : s[i] = ESC}
           a == SelectInSubSeq(s, 3, Len(s), LAMBDA b : b = ESC \/ IsCsiFinal(b))
           c == SelectInSubSeq(s, 3, Len(s), LAMBDA b : b = ESC)
<1>1. a = IF I # {} THEN Min(I) ELSE 0
  BY DEF SelectInSubSeq
<1>2. c = IF J # {} THEN Min(J) ELSE 0
  BY DEF SelectInSubSeq
<1>3. Len(s) \in Nat
  BY DEF IsList
<1>4. I \in SUBSET Nat /\ J \in SUBSET Nat /\ I \subseteq 3 .. Len(s) /\ J \subseteq 3 .. Len(s)
  OBVIOUS
<1>5. I = StopPlaces(s) /\ J = EscPlaces(s) /\ a = FirstStop(s) /\ c = FirstEsc(s)
  BY DEF StopPlaces, EscPlaces, FirstStop, FirstEsc
<1> HIDE DEF I, J, a, c
<1>6. ASSUME NEW T, T \in SUBSET Nat, T \subseteq 3 .. Len(s), NEW b,
             b = IF T # {} THEN Min(T) ELSE 0
      PROVE  FirstPlace(s, b, T)
  <2>1. CASE T = {}
    <3>1. b = 0
      BY <1>6, <2>1
    <3> QED BY <2>1, <3>1 DEF FirstPlace
  <2>2. CASE T # {}
    <3>1. b = Min(T)
      BY <1>6, <2>2
    <3>2. b \in T /\ \A i \in T : b <= i
      BY <1>6, <2>2, <3>1, FirstOf
    <3>3. b \in 3 .. Len(s)
      BY <1>6, <3>2
    <3>4. b # 0
      BY <3>3
    <3> QED BY <3>2, <3>3, <3>4 DEF FirstPlace
  <2> QED BY <2>1, <2>2
<1>7. FirstPlace(s, a, I) /\ FirstPlace(s, c, J)
  BY Zenon, <1>1, <1>2, <1>4, <1>6
<1> QED BY <1>5, <1>7

Piece(kind, len) == [kind |-> kind, len |-> len]

(* NextSequence on two bytes or more. *)
LEMMA NextCases ==
  ASSUME NEW s, IsList(s), Len(s) > 1
  PROVE  /\ s[1] # ESC => NextSequence(s) = Piece("text", 1)
         /\ s[1] = ESC /\ s[2] \in {"7", "8"} => NextSequence(s) = Piece("esc", 2)
         /\ s[1] = ESC /\ s[2] = "[" =>
              NextSequence(s) = IF FirstStop(s) = 0 THEN Piece("none", 0)
                                ELSE IF s[FirstStop(s)] = ESC THEN Piece("text", FirstStop(s) - 1)
                                ELSE Piece("csi", FirstStop(s))
         /\ s[1] = ESC /\ s[2] = "]" =>
              NextSequence(s) = IF FirstEsc(s) = 0 \/ FirstEsc(s) = Len(s) THEN Piece("none", 0)
                                ELSE IF s[FirstEsc(s) + 1] = "\\" THEN Piece("osc", FirstEsc(s) + 1)
                                ELSE Piece("text", FirstEsc(s) - 1)
         /\ s[1] = ESC /\ s[2] \notin {"7", "8", "[", "]"} => NextSequence(s) = Piece("text", 1)
<1>0. s # <<>> /\ s # <<ESC>>
  <2>1. Len(<<>>) = 0 /\ Len(<<ESC>>) = 1
    OBVIOUS
  <2> QED BY <2>1
<1>1. CASE s[1] # ESC
  <2>1. NextSequence(s) = Piece("text", 1)
    BY <1>0, <1>1 DEF NextSequence, Piece
  <2> QED BY <1>1, <2>1
<1>2. CASE s[1] = ESC /\ s[2] \in {"7", "8"}
  <2>1. NextSequence(s) = Piece("esc", 2)
    BY <1>0, <1>2 DEF NextSequence, Piece
  <2> QED BY <1>2, <2>1
<1>3. CASE s[1] = ESC /\ s[2] = "["
  <2>1. NextSequence(s) = IF FirstStop(s) = 0 THEN Piece("none", 0)
                          ELSE IF s[FirstStop(s)] = ESC THEN Piece("text", FirstStop(s) - 1)
                          ELSE Piece("csi", FirstStop(s))
    BY <1>0, <1>3 DEF NextSequence, Piece, FirstStop
  <2> QED BY <1>3, <2>1
<1>4. CASE s[1] = ESC /\ s[2] = "]"
  <2>1. NextSequence(s) = IF FirstEsc(s) = 0 \/ FirstEsc(s) = Len(s) THEN Piece("none", 0)
                          ELSE IF s[FirstEsc(s) + 1] = "\\" THEN Piece("osc", FirstEsc(s) + 1)
                          ELSE Piece("text", FirstEsc(s) - 1)
    BY <1>0, <1>4 DEF NextSequence, Piece, FirstEsc
  <2> QED BY <1>4, <2>1
<1>5. CASE s[1] = ESC /\ s[2] \notin {"7", "8", "[", "]"}
  <2>1. NextSequence(s) = Piece("text", 1)
    BY <1>0, <1>5 DEF NextSequence, Piece
  <2> QED BY <1>5, <2>1
<1> QED BY <1>1, <1>2, <1>3, <1>4, <1>5

(* A piece never reaches into a sequence that begins behind it, and is      *)
(* never waited for when one does.                                          *)
LEMMA NextBefore ==
  ASSUME NEW s, IsList(s), NEW j \in 2 .. Len(s) - 1, s[j] = ESC, s[j + 1] \in {"[", "]"}
  PROVE  NextSequence(s).kind # "none" /\ NextSequence(s).len \in 1 .. j - 1
<1> DEFINE a == FirstStop(s)
           c == FirstEsc(s)
           t == NextSequence(s)
<1>0. Len(s) \in Nat /\ Len(s) > 1 /\ j \in Nat /\ j >= 2 /\ j + 1 <= Len(s)
  BY DEF IsList
<1>1. \A k, n : Piece(k, n).kind = k /\ Piece(k, n).len = n
  BY DEF Piece
<1>2. FirstPlace(s, a, StopPlaces(s)) /\ FirstPlace(s, c, EscPlaces(s))
  BY FirstPlaces
<1>3. s[2] # ESC => j \in 3 .. Len(s) /\ j \in StopPlaces(s) /\ j \in EscPlaces(s)
  <2>1. s[2] # ESC => j \in 3 .. Len(s)
    BY <1>0
  <2> QED BY <2>1 DEF StopPlaces, EscPlaces
<1>4. "[" # ESC /\ "]" # ESC /\ "7" # ESC /\ "8" # ESC /\ "\\" # ESC /\ "[" # "\\" /\ "]" # "\\"
  BY DEF ESC
<1>5. CASE s[1] # ESC \/ (s[1] = ESC /\ s[2] \notin {"7", "8", "[", "]"})
  <2>1. t = Piece("text", 1)
    BY <1>0, <1>5, NextCases
  <2>2. t.kind = "text" /\ t.len = 1
    BY <1>1, <2>1
  <2> HIDE DEF t
  <2>3. t.len \in 1 .. j - 1
    BY <1>0, <2>2
  <2> QED BY <2>2, <2>3 DEF t
<1>6. CASE s[1] = ESC /\ s[2] \in {"7", "8"}
  <2>1. t = Piece("esc", 2)
    BY <1>0, <1>6, NextCases
  <2>2. t.kind = "esc" /\ t.len = 2
    BY <1>1, <2>1
  <2> HIDE DEF t
  <2>3. j >= 3
    BY <1>0, <1>3, <1>4, <1>6
  <2>4. t.len \in 1 .. j - 1
    BY <1>0, <2>2, <2>3
  <2> QED BY <2>2, <2>4 DEF t
<1>7. CASE s[1] = ESC /\ s[2] = "["
  <2>1. t = IF a = 0 THEN Piece("none", 0)
            ELSE IF s[a] = ESC THEN Piece("text", a - 1) ELSE Piece("csi", a)
    BY <1>0, <1>7, NextCases
  <2>2. j \in StopPlaces(s)
    BY <1>3, <1>4, <1>7
  <2>3. a # 0 /\ a \in 3 .. Len(s) /\ a <= j
    BY <1>2, <2>2 DEF FirstPlace
  <2> HIDE DEF a, c, t
  <2>4. CASE s[a] = ESC
    <3>1. t.kind = "text" /\ t.len = a - 1
      BY <1>1, <2>1, <2>3, <2>4
    <3>2. t.len \in 1 .. j - 1
      BY <1>0, <2>3, <3>1
    <3> QED BY <3>1, <3>2 DEF t
  <2>5. CASE s[a] # ESC
    <3>1. t.kind = "csi" /\ t.len = a
      BY <1>1, <2>1, <2>3, <2>5
    <3>2. a # j
      BY <2>5
    <3>3. t.len \in 1 .. j - 1
      BY <1>0, <2>3, <3>1, <3>2
    <3> QED BY <3>1, <3>3 DEF t
  <2> QED BY <2>4, <2>5
<1>8. CASE s[1] = ESC /\ s[2] = "]"
  <2>1. t = IF c = 0 \/ c = Len(s) THEN Piece("none", 0)
            ELSE IF s[c + 1] = "\\" THEN Piece("osc", c + 1) ELSE Piece("text", c - 1)
    BY <1>0, <1>8, NextCases
  <2>2. j \in EscPlaces(s)
    BY <1>3, <1>4, <1>8
  <2>3. c # 0 /\ c \in 3 .. Len(s) /\ c <= j
    BY <1>2, <2>2 DEF FirstPlace
  <2> HIDE DEF a, c, t
  <2>6. c # Len(s)
    BY <1>0, <2>3
  <2>4. CASE s[c + 1] # "\\"
    <3>1. t.kind = "text" /\ t.len = c - 1
      BY <1>1, <2>1, <2>3, <2>4, <2>6
    <3>2. t.len \in 1 .. j - 1
      BY <1>0, <2>3, <3>1
    <3> QED BY <3>1, <3>2 DEF t
  <2>5. CASE s[c + 1] = "\\"
    <3>1. t.kind = "osc" /\ t.len = c + 1
      BY <1>1, <2>1, <2>3, <2>5, <2>6
    <3>2. c # j /\ c + 1 # j
      BY <1>4, <2>5
    <3>3. t.len \in 1 .. j - 1
      BY <1>0, <2>3, <3>1, <3>2
    <3> QED BY <3>1, <3>3 DEF t
  <2> QED BY <2>4, <2>5
<1> QED BY <1>5, <1>6, <1>7, <1>8

(* What follows CSI, up to its final byte; what stands in an OSC.           *)
CsiBody(b) ==
  /\ IsList(b) /\ Len(b) >= 1 /\ b[Len(b)] # ESC /\ IsCsiFinal(b[Len(b)])
  /\ \A i \in 1 .. Len(b) - 1 : b[i] # ESC /\ ~IsCsiFinal(b[i])

OscBody(b) == IsList(b) /\ Len(b) >= 1 /\ \A i \in 1 .. Len(b) : b[i] # ESC

(* s begins with q. *)
Begins(s, q) == IsList(s) /\ IsList(q) /\ Len(q) <= Len(s) /\ \A i \in 1 .. Len(q) : s[i] = q[i]

(* A control sequence in front is taken whole. *)
LEMMA CsiNext ==
  ASSUME NEW b, CsiBody(b), NEW s, Begins(s, CSI \o b)
  PROVE  NextSequence(s) = Piece("csi", 2 + Len(b)) /\ Len(CSI \o b) = 2 + Len(b)
<1> DEFINE q == CSI \o b
           a == FirstStop(s)
           n == Len(b)
<1>1. /\ IsList(b) /\ n >= 1 /\ b[n] # ESC /\ IsCsiFinal(b[n])
      /\ \A i \in 1 .. n - 1 : b[i] # ESC /\ ~IsCsiFinal(b[i])
  BY DEF CsiBody
<1>2. InTurn(CSI, b, q) /\ Len(CSI) = 2 /\ CSI[1] = ESC /\ CSI[2] = "["
  <2>1. IsList(CSI) /\ Len(CSI) = 2
    BY FrameSize DEF Size
  <2>2. CSI[1] = ESC /\ CSI[2] = "["
    BY DEF CSI
  <2> QED BY <1>1, <2>1, <2>2, ListsJoined
<1>3. IsList(s) /\ IsList(q) /\ Len(q) <= Len(s) /\ \A i \in 1 .. Len(q) : s[i] = q[i]
  BY DEF Begins
<1>4. Len(s) \in Nat /\ n \in Nat
  BY <1>1, <1>3 DEF IsList
<1> HIDE DEF q, n
<1>5. Len(q) = 2 + n /\ q[1] = ESC /\ q[2] = "[" /\ \A i \in 1 .. n : q[2 + i] = b[i]
  BY <1>2 DEF InTurn, n
<1>6. s[1] = ESC /\ s[2] = "[" /\ Len(s) >= 2 + n /\ \A i \in 1 .. n : s[2 + i] = b[i]
  BY <1>1, <1>3, <1>4, <1>5
<1>7. 2 + n \in StopPlaces(s)
  <2>1. n \in 1 .. n /\ 2 + n \in 3 .. Len(s)
    BY <1>1, <1>4, <1>6
  <2> QED BY <1>1, <1>6, <2>1 DEF StopPlaces
<1>8. ASSUME NEW i \in StopPlaces(s), i < 2 + n PROVE FALSE
  <2> DEFINE j == i - 2
  <2>1. i \in 3 .. Len(s) /\ (s[i] = ESC \/ IsCsiFinal(s[i]))
    BY DEF StopPlaces
  <2>2. j \in 1 .. n - 1 /\ j \in 1 .. n /\ 2 + j = i
    BY <1>4, <1>8, <2>1
  <2> HIDE DEF j
  <2> QED BY <1>1, <1>6, <2>1, <2>2
<1>9. FirstPlace(s, a, StopPlaces(s))
  BY <1>3, FirstPlaces
<1>10. a = 2 + n
  <2>1. a # 0 /\ a \in StopPlaces(s) /\ a \in 3 .. Len(s) /\ a <= 2 + n
    BY <1>7, <1>9 DEF FirstPlace
  <2>2. ~(a < 2 + n)
    BY <1>8, <2>1
  <2> HIDE DEF a
  <2> QED BY <1>4, <2>1, <2>2
<1>11. s[a] # ESC /\ a # 0
  <2>1. n \in 1 .. n
    BY <1>1, <1>4
  <2>2. s[2 + n] = b[n]
    BY <1>6, <2>1
  <2> QED BY <1>1, <1>4, <1>10, <2>2
<1>12. NextSequence(s) = IF a = 0 THEN Piece("none", 0)
                         ELSE IF s[a] = ESC THEN Piece("text", a - 1) ELSE Piece("csi", a)
  BY <1>3, <1>4, <1>6, NextCases
<1> HIDE DEF a
<1>13. NextSequence(s) = Piece("csi", a)
  BY <1>11, <1>12
<1> QED BY <1>5, <1>10, <1>13 DEF q, n

(* An operating system command too. *)
LEMMA OscNext ==
  ASSUME NEW b, OscBody(b), NEW s, Begins(s, (OSC \o b) \o ST)
  PROVE  NextSequence(s) = Piece("osc", 4 + Len(b)) /\ Len((OSC \o b) \o ST) = 4 + Len(b)
<1> DEFINE q == (OSC \o b) \o ST
           c == FirstEsc(s)
           n == Len(b)
<1>1. IsList(b) /\ n >= 1 /\ \A i \in 1 .. n : b[i] # ESC
  BY DEF OscBody
<1>2. AllInTurn(OSC, b, ST, q) /\ Len(OSC) = 2 /\ OSC[1] = ESC /\ OSC[2] = "]"
      /\ Len(ST) = 2 /\ ST[1] = ESC /\ ST[2] = "\\"
  <2>1. IsList(OSC) /\ Len(OSC) = 2 /\ IsList(ST) /\ Len(ST) = 2
    BY FrameSize DEF Size
  <2>2. OSC[1] = ESC /\ OSC[2] = "]" /\ ST[1] = ESC /\ ST[2] = "\\"
    BY DEF OSC, ST
  <2> QED BY <1>1, <2>1, <2>2, ThreeJoined
<1>3. IsList(s) /\ IsList(q) /\ Len(q) <= Len(s) /\ \A i \in 1 .. Len(q) : s[i] = q[i]
  BY DEF Begins
<1>4. Len(s) \in Nat /\ n \in Nat
  BY <1>1, <1>3 DEF IsList
<1> HIDE DEF q, n
<1>5. /\ Len(q) = 4 + n /\ q[1] = ESC /\ q[2] = "]" /\ q[3 + n] = ESC /\ q[4 + n] = "\\"
      /\ \A i \in 1 .. n : q[2 + i] = b[i]
  <2>1. /\ Len(q) = 2 + n + 2 /\ \A i \in 1 .. 2 : q[i] = OSC[i]
        /\ \A i \in 1 .. n : q[2 + i] = b[i]
        /\ \A i \in 1 .. 2 : q[2 + n + i] = ST[i]
    BY <1>2 DEF AllInTurn, n
  <2>2. 1 \in 1 .. 2 /\ 2 \in 1 .. 2 /\ 2 + n + 1 = 3 + n /\ 2 + n + 2 = 4 + n
    BY <1>4
  <2>3. q[1] = OSC[1] /\ q[2] = OSC[2] /\ q[2 + n + 1] = ST[1] /\ q[2 + n + 2] = ST[2]
    BY <2>1, <2>2
  <2> QED BY <1>2, <2>1, <2>2, <2>3
<1>6. /\ s[1] = ESC /\ s[2] = "]" /\ Len(s) >= 4 + n /\ s[3 + n] = ESC /\ s[4 + n] = "\\"
      /\ \A i \in 1 .. n : s[2 + i] = b[i]
  <2>1. /\ 1 \in 1 .. Len(q) /\ 2 \in 1 .. Len(q) /\ 3 + n \in 1 .. Len(q) /\ 4 + n \in 1 .. Len(q)
        /\ \A i \in 1 .. n : 2 + i \in 1 .. Len(q)
    BY <1>4, <1>5
  <2> QED BY <1>3, <1>5, <2>1
<1>7. 3 + n \in EscPlaces(s)
  <2>1. 3 + n \in 3 .. Len(s)
    BY <1>4, <1>6
  <2> QED BY <1>6, <2>1 DEF EscPlaces
<1>8. ASSUME NEW i \in EscPlaces(s), i < 3 + n PROVE FALSE
  <2> DEFINE j == i - 2
  <2>1. i \in 3 .. Len(s) /\ s[i] = ESC
    BY DEF EscPlaces
  <2>2. j \in 1 .. n /\ 2 + j = i
    BY <1>4, <1>8, <2>1
  <2> HIDE DEF j
  <2> QED BY <1>1, <1>6, <2>1, <2>2 DEF n
<1>9. FirstPlace(s, c, EscPlaces(s))
  BY <1>3, FirstPlaces
<1>10. c = 3 + n
  <2>1. c # 0 /\ c \in EscPlaces(s) /\ c \in 3 .. Len(s) /\ c <= 3 + n
    BY <1>7, <1>9 DEF FirstPlace
  <2>2. ~(c < 3 + n)
    BY <1>8, <2>1
  <2> HIDE DEF c
  <2> QED BY <1>4, <2>1, <2>2
<1>11. c # 0 /\ c # Len(s) /\ c + 1 = 4 + n
  BY <1>4, <1>6, <1>10
<1>12. NextSequence(s) = IF c = 0 \/ c = Len(s) THEN Piece("none", 0)
                         ELSE IF s[c + 1] = "\\" THEN Piece("osc", c + 1) ELSE Piece("text", c - 1)
  BY <1>3, <1>4, <1>6, NextCases
<1> HIDE DEF c
<1>13. NextSequence(s) = Piece("osc", c + 1)
  BY <1>6, <1>11, <1>12
<1> QED BY <1>5, <1>11, <1>13 DEF q, n

(* Every query is one or the other. *)
LEMMA QueryKinds ==
  ASSUME NEW c \in DOMAIN QueryBytes
  PROVE  \/ \E b : /\ CsiBody(b) /\ QueryBytes[c] = CSI \o b
                   /\ b[Len(b)] \in {"c", "n", "p"} \/ c = "kitty"
         \/ \E b : OscBody(b) /\ QueryBytes[c] = (OSC \o b) \o ST /\ c = "osc52"
<1>0. \A x \in {"c", "n", "p", "u"} : x # ESC /\ IsCsiFinal(x)
  BY DEF ESC, IsCsiFinal
<1>1. \A x \in {"6", "?", "2", "0", "4", "$"} : x # ESC /\ ~IsCsiFinal(x)
  BY DEF ESC, IsCsiFinal
<1>2. CASE c = "da1"
  <2> DEFINE b == <<"c">>
  <2>1. IsList(b) /\ Len(b) = 1 /\ b[1] = "c"
    BY ListLiteral DEF Literals, Size
  <2>2. QueryBytes[c] = CSI \o b
    BY <1>2 DEF QueryBytes
  <2> HIDE DEF b
  <2>3. CsiBody(b)
    BY <1>0, <2>1 DEF CsiBody
  <2> QED BY Zenon, <2>1, <2>2, <2>3
<1>3. CASE c = "dsr"
  <2> DEFINE b == <<"6", "n">>
  <2>1. IsList(b) /\ Len(b) = 2 /\ b[1] = "6" /\ b[2] = "n"
    BY ListLiteral DEF Literals, Size
  <2>2. QueryBytes[c] = CSI \o b
    BY <1>3 DEF QueryBytes
  <2> HIDE DEF b
  <2>3. CsiBody(b)
    BY <1>0, <1>1, <2>1 DEF CsiBody
  <2> QED BY Zenon, <2>1, <2>2, <2>3
<1>4. CASE c = "kitty"
  <2> DEFINE b == <<"?", "u">>
  <2>1. IsList(b) /\ Len(b) = 2 /\ b[1] = "?" /\ b[2] = "u"
    BY ListLiteral DEF Literals, Size
  <2>2. QueryBytes[c] = CSI \o b
    BY <1>4 DEF QueryBytes
  <2> HIDE DEF b
  <2>3. CsiBody(b)
    BY <1>0, <1>1, <2>1 DEF CsiBody
  <2> QED BY <1>4, <2>2, <2>3
<1>5. CASE c = "decrpm"
  <2> DEFINE b == <<"?", "2", "0", "0", "4", "$", "p">>
             A == {"?", "2", "0", "4", "$", "p"}
  <2>1. b \in Seq(A) /\ Len(b) = 7 /\ b[7] = "p" /\ \A i \in 1 .. 6 : b[i] \in {"?", "2", "0", "4", "$"}
    OBVIOUS
  <2>2. QueryBytes[c] = CSI \o b
    BY <1>5 DEF QueryBytes
  <2> HIDE DEF b, A
  <2>4. IsList(b)
    BY <2>1, ListIn
  <2>3. CsiBody(b)
    <3>1. b[Len(b)] # ESC /\ IsCsiFinal(b[Len(b)])
      BY <1>0, <2>1
    <3>2. \A i \in 1 .. Len(b) - 1 : b[i] # ESC /\ ~IsCsiFinal(b[i])
      BY <1>1, <2>1
    <3> QED BY <2>1, <2>4, <3>1, <3>2 DEF CsiBody
  <2> QED BY Zenon, <2>1, <2>2, <2>3
<1>6. CASE c = "osc52"
  <2> DEFINE b == <<"5", "2", ";", "c", ";", "?">>
             A == {"5", "2", ";", "c", "?"}
  <2>1. b \in Seq(A) /\ Len(b) = 6 /\ \A i \in 1 .. 6 : b[i] \in A
    OBVIOUS
  <2>2. QueryBytes[c] = OSC \o b \o ST
    BY Zenon, <1>6 DEF QueryBytes
  <2>5. ESC \notin A
    BY DEF ESC
  <2> HIDE DEF b, A
  <2>4. IsList(b)
    BY <2>1, ListIn
  <2>3. OscBody(b)
    BY <2>1, <2>4, <2>5 DEF OscBody
  <2> QED BY Zenon, <1>6, <2>2, <2>3
<1> QED BY Zenon, <1>2, <1>3, <1>4, <1>5, <1>6 DEF QueryBytes

(* In short. *)
LEMMA QueryShapes ==
  ASSUME NEW c \in DOMAIN QueryBytes
  PROVE  \/ \E b : CsiBody(b) /\ QueryBytes[c] = CSI \o b
         \/ \E b : OscBody(b) /\ QueryBytes[c] = (OSC \o b) \o ST
<1> DEFINE s == QueryBytes[c]
<1>1. \/ \E b : /\ CsiBody(b) /\ s = CSI \o b
                /\ b[Len(b)] \in {"c", "n", "p"} \/ c = "kitty"
      \/ \E b : OscBody(b) /\ s = (OSC \o b) \o ST /\ c = "osc52"
  BY Zenon, QueryKinds
<1> HIDE DEF s
<1>2. \/ \E b : CsiBody(b) /\ s = CSI \o b
      \/ \E b : OscBody(b) /\ s = (OSC \o b) \o ST
  BY Zenon, <1>1
<1> QED BY Zenon, <1>2 DEF s

(* A query in front is what the terminal takes next.                        *)
LEMMA QueryFront ==
  ASSUME NEW c \in DOMAIN QueryBytes
  PROVE  LET q == QueryBytes[c] IN IsList(q) /\ Len(q) >= 3 /\ q[1] = ESC /\ q[2] \in {"[", "]"}
<1> DEFINE q == QueryBytes[c]
<1>0. IsList(CSI) /\ Len(CSI) = 2 /\ IsList(OSC) /\ Len(OSC) = 2 /\ IsList(ST) /\ Len(ST) = 2
  BY FrameSize DEF Size
<1>1. CSI[1] = ESC /\ CSI[2] = "[" /\ OSC[1] = ESC /\ OSC[2] = "]"
  BY DEF CSI, OSC
<1>2. IsList(q)
  BY QuerySize DEF Exact
<1> HIDE DEF q
<1>3. ASSUME NEW b, CsiBody(b), q = CSI \o b
      PROVE  Len(q) >= 3 /\ q[1] = ESC /\ q[2] \in {"[", "]"}
  <2>1. IsList(b) /\ Len(b) >= 1
    BY <1>3 DEF CsiBody
  <2>2. InTurn(CSI, b, q)
    BY <1>0, <1>3, <2>1, ListsJoined
  <2> QED BY <1>0, <1>1, <2>1, <2>2 DEF InTurn
<1>4. ASSUME NEW b, OscBody(b), q = (OSC \o b) \o ST
      PROVE  Len(q) >= 3 /\ q[1] = ESC /\ q[2] \in {"[", "]"}
  <2>1. IsList(b) /\ Len(b) >= 1 /\ Len(b) \in Nat
    BY <1>4 DEF OscBody, IsList
  <2>2. AllInTurn(OSC, b, ST, q)
    BY <1>0, <1>4, <2>1, ThreeJoined
  <2> QED BY <1>0, <1>1, <2>1, <2>2 DEF AllInTurn
<1>5. \/ \E b : CsiBody(b) /\ q = CSI \o b
      \/ \E b : OscBody(b) /\ q = (OSC \o b) \o ST
  BY Zenon, QueryShapes DEF q
<1>6. Len(q) >= 3 /\ q[1] = ESC /\ q[2] \in {"[", "]"}
  BY Zenon, <1>3, <1>4, <1>5
<1> QED BY <1>2, <1>6 DEF q

(* A query in front of out is what the terminal takes next, as a whole. *)
LEMMA QueryTaken ==
  ASSUME NEW c \in DOMAIN QueryBytes, NEW s, Begins(s, QueryBytes[c])
  PROVE  /\ NextSequence(s).kind # "none" /\ NextSequence(s).len = Len(QueryBytes[c])
         /\ SubSeq(s, 1, NextSequence(s).len) = QueryBytes[c]
<1> DEFINE q == QueryBytes[c]
           t == NextSequence(s)
<1>1. \A k, n : Piece(k, n).kind = k /\ Piece(k, n).len = n
  BY DEF Piece
<1>2. ASSUME NEW b, CsiBody(b), q = CSI \o b PROVE t.kind # "none" /\ t.len = Len(q)
  <2>1. t = Piece("csi", 2 + Len(b)) /\ Len(q) = 2 + Len(b)
    BY <1>2, CsiNext
  <2> HIDE DEF t, q
  <2> QED BY <1>1, <2>1
<1>3. ASSUME NEW b, OscBody(b), q = (OSC \o b) \o ST PROVE t.kind # "none" /\ t.len = Len(q)
  <2>1. t = Piece("osc", 4 + Len(b)) /\ Len(q) = 4 + Len(b)
    BY <1>3, OscNext
  <2> HIDE DEF t, q
  <2> QED BY <1>1, <2>1
<1>4. t.kind # "none" /\ t.len = Len(q)
  BY Zenon, <1>2, <1>3, QueryShapes
<1>5. IsList(s) /\ IsList(q) /\ Len(q) <= Len(s) /\ \A i \in 1 .. Len(q) : s[i] = q[i]
  BY DEF Begins
<1> HIDE DEF t, q
<1>6. Len(q) \in Nat /\ Len(s) \in Nat
  BY <1>5 DEF IsList
<1>7. q = SubSeq(s, 1, Len(q))
  <2> DEFINE a == 0
             b == Len(q)
  <2>1. a \in Nat /\ b \in Nat /\ a <= b /\ b <= Len(s) /\ b - a = b /\ \A i \in 1 .. b : a + i = i
    BY <1>5, <1>6
  <2>2. Len(q) = b - a /\ \A i \in 1 .. b - a : q[i] = s[a + i]
    BY <1>5, <2>1
  <2>3. a + 1 = 1
    OBVIOUS
  <2> HIDE DEF a, b
  <2>4. q = Span(s, a, b)
    BY <1>5, <2>1, <2>2, SpanSame
  <2> QED BY <2>3, <2>4 DEF Span, b
<1> QED BY <1>4, <1>7 DEF t, q

-----------------------------------------------------------------------------
(* All the bytes that were ever written to the terminal: in w the i-th      *)
(* query is after h[i], up to e[i].                                         *)
AskedAt(w, h, e) ==
  /\ h \in Nat /\ e \in Nat /\ h < e /\ e <= Len(w)
  /\ \E c \in DOMAIN QueryBytes : Span(w, h, e) = QueryBytes[c]

Put(w, h, e, n) ==
  /\ IsList(w) /\ n \in Nat
  /\ \A i \in 1 .. n : AskedAt(w, h[i], e[i])
  /\ \A i, j \in 1 .. n : i < j => e[i] <= h[j]

(* Of it k bytes have been obeyed, with a queries among them, and each has  *)
(* been answered.                                                           *)
Obeyed(w, h, k, a, n, said) ==
  /\ k \in Nat /\ k <= Len(w) /\ a \in Nat /\ a <= n
  /\ IsList(said) /\ a <= Len(said)
  /\ \A i \in a + 1 .. n : k <= h[i]

AskInv ==
  \E w, h, e, k, a :
    /\ h \in [Nat -> Nat] /\ e \in [Nat -> Nat]
    /\ Put(w, h, e, queries)
    /\ Obeyed(w, h, k, a, queries, told)
    /\ out = Span(w, k, Len(w))

(* The invariant, opened. *)
Asking(w, h, e, k, a) ==
  /\ h \in [Nat -> Nat] /\ e \in [Nat -> Nat]
  /\ Put(w, h, e, queries)
  /\ Obeyed(w, h, k, a, queries, told)
  /\ out = Span(w, k, Len(w))

(* There are such places. *)
LEMMA AskIs == AskInv <=> \E w, h, e, k, a : Asking(w, h, e, k, a)
BY DEF AskInv, Asking

(* Nothing has been written. *)
LEMMA AskInit == Init => AskInv
<1> SUFFICES ASSUME Init PROVE AskInv
  OBVIOUS
<1> DEFINE none == <<>>
           f == [i \in Nat |-> 0]
<1>1. f \in [Nat -> Nat]
  OBVIOUS
<1>2. IsList(none) /\ Len(none) = 0
  BY ListLiteral DEF Literals, Size
<1>3. told = none /\ out = none /\ queries = 0
  BY DEF Init
<1> HIDE DEF none, f
<1>4. Put(none, f, f, 0)
  BY <1>2 DEF Put
<1>5. Obeyed(none, f, 0, 0, 0, none)
  BY <1>2 DEF Obeyed
<1>6. Span(none, 0, 0) = none
  <2> DEFINE a == 1
             b == 0
  <2>1. a \in Int /\ b \in Int /\ b < a /\ a = 0 + 1
    OBVIOUS
  <2> HIDE DEF a, b
  <2>2. SubSeq(none, a, b) = <<>>
    BY <2>1, SubSeqEmpty
  <2> QED BY <2>2 DEF Span, a, b, none
<1>7. Span(none, 0, Len(none)) = none
  BY <1>2, <1>6
<1> QED BY Zenon, <1>1, <1>3, <1>4, <1>5, <1>7 DEF AskInv

(* More is written. *)
LEMMA PutStays ==
  ASSUME NEW w, NEW h, NEW e, NEW n, Put(w, h, e, n), NEW t, IsList(t), NEW q, InTurn(w, t, q)
  PROVE  Put(q, h, e, n)
<1>1. /\ IsList(w) /\ n \in Nat
      /\ \A i \in 1 .. n : AskedAt(w, h[i], e[i])
      /\ \A i, j \in 1 .. n : i < j => e[i] <= h[j]
  BY DEF Put
<1>2. IsList(q) /\ Len(w) \in Nat /\ Len(t) \in Nat /\ Len(q) = Len(w) + Len(t)
  BY DEF InTurn
<1>3. ASSUME NEW i \in 1 .. n PROVE AskedAt(q, h[i], e[i])
  <2> DEFINE a == h[i]
             b == e[i]
  <2>1. AskedAt(w, a, b)
    BY <1>1
  <2> HIDE DEF a, b
  <2>2. /\ a \in Nat /\ b \in Nat /\ a < b /\ b <= Len(w) /\ a <= b
        /\ \E c \in DOMAIN QueryBytes : Span(w, a, b) = QueryBytes[c]
    BY <2>1 DEF AskedAt
  <2>3. Span(q, a, b) = Span(w, a, b)
    BY <1>1, <2>2, SpanStays
  <2>4. b <= Len(q)
    BY <1>2, <2>2
  <2>5. AskedAt(q, a, b)
    BY <2>2, <2>3, <2>4 DEF AskedAt
  <2> QED BY <2>5 DEF a, b
<1> QED BY <1>1, <1>2, <1>3 DEF Put

(* What is obeyed stays obeyed. *)
LEMMA ObeyedStays ==
  ASSUME NEW w, NEW t, NEW q, IsList(t), InTurn(w, t, q),
         NEW h, NEW n, NEW k, NEW a, NEW said, Obeyed(w, h, k, a, n, said)
  PROVE  Obeyed(q, h, k, a, n, said)
<1>1. k \in Nat /\ k <= Len(w)
  BY DEF Obeyed
<1>2. Len(w) \in Nat /\ Len(t) \in Nat /\ Len(q) = Len(w) + Len(t)
  BY DEF InTurn
<1>3. k <= Len(q)
  BY <1>1, <1>2
<1> QED BY <1>3 DEF Obeyed

(* What is still to be obeyed grows at its end. *)
LEMMA OutStays ==
  ASSUME NEW w, NEW t, NEW q, IsList(w), IsList(t), InTurn(w, t, q),
         NEW h, NEW n, NEW k, NEW a, NEW said, Obeyed(w, h, k, a, n, said)
  PROVE  Span(q, k, Len(q)) = Span(w, k, Len(w)) \o t
<1>1. k \in Nat /\ k <= Len(w)
  BY DEF Obeyed
<1> QED BY <1>1, SpanLonger

(* Bytes that are no query: an item, or part of one.                        *)
LEMMA AskPlain ==
  ASSUME AskInv, NEW t, IsList(t), out' = out \o t, UNCHANGED <<queries, told>>
  PROVE  AskInv'
<1>1. PICK w, h, e, k, a : Asking(w, h, e, k, a)
  BY AskIs
<1> DEFINE q == w \o t
<1>2. Put(w, h, e, queries) /\ Obeyed(w, h, k, a, queries, told) /\ out = Span(w, k, Len(w))
  BY <1>1 DEF Asking
<1>3. IsList(w)
  BY <1>2 DEF Put
<1>4. InTurn(w, t, q)
  BY <1>3, ListsJoined
<1> HIDE DEF q
<1>5. Put(q, h, e, queries)
  BY <1>2, <1>4, PutStays
<1>6. Obeyed(q, h, k, a, queries, told)
  BY <1>2, <1>4, ObeyedStays
<1>11. Span(q, k, Len(q)) = Span(w, k, Len(w)) \o t
  <2>1. Obeyed(w, h, k, a, queries, told)
    BY <1>2
  <2> QED BY <1>3, <1>4, <2>1, OutStays
<1>7. h \in [Nat -> Nat] /\ e \in [Nat -> Nat]
  BY <1>1, Zenon DEF Asking
<1>8. queries' = queries /\ told' = told
  OBVIOUS
<1>9. Put(q, h, e, queries') /\ Obeyed(q, h, k, a, queries', told')
  BY <1>5, <1>6, <1>8, Zenon
<1>10. out' = Span(q, k, Len(q))
  BY <1>2, <1>11, Zenon
<1> QED BY <1>7, <1>9, <1>10, Zenon DEF AskInv

(* One query more. *)
LEMMA PutQuery ==
  ASSUME NEW w, NEW h, NEW e, NEW n, Put(w, h, e, n), NEW t, IsList(t), NEW q, InTurn(w, t, q),
         AskedAt(q, Len(w), Len(q)),
         NEW u, NEW v, u[n + 1] = Len(w), v[n + 1] = Len(q),
         \A i \in 1 .. n : u[i] = h[i] /\ v[i] = e[i]
  PROVE  Put(q, u, v, n + 1)
<1>1. /\ IsList(w) /\ n \in Nat
      /\ \A i \in 1 .. n : AskedAt(w, h[i], e[i])
      /\ \A i, j \in 1 .. n : i < j => e[i] <= h[j]
  BY DEF Put
<1>3. IsList(q) /\ Len(w) \in Nat /\ Len(t) \in Nat /\ Len(q) = Len(w) + Len(t)
  BY DEF InTurn
<1>4. Put(q, h, e, n)
  BY PutStays
<1>5. \A i \in 1 .. n : AskedAt(q, h[i], e[i])
  BY <1>4 DEF Put
<1> DEFINE m == n + 1
<1>6. m \in Nat /\ (\A i \in 1 .. m : i = m \/ i \in 1 .. n) /\ u[m] = Len(w) /\ v[m] = Len(q)
  BY <1>1
<1>8. ASSUME NEW i \in 1 .. m PROVE AskedAt(q, u[i], v[i])
  <2>1. CASE i = m
    BY <1>6, <2>1
  <2>2. CASE i \in 1 .. n
    BY <1>5, <2>2
  <2> QED BY <1>6, <2>1, <2>2
<1>9. ASSUME NEW i \in 1 .. m, NEW j \in 1 .. m, i < j PROVE v[i] <= u[j]
  <2>1. i \in 1 .. n
    BY <1>1, <1>9
  <2>2. CASE j = m
    <3>1. e[i] <= Len(w)
      BY <1>1, <2>1 DEF AskedAt
    <3> QED BY <1>6, <2>1, <2>2, <3>1
  <2>3. CASE j \in 1 .. n
    BY <1>1, <1>9, <2>1, <2>3
  <2> QED BY <1>6, <2>2, <2>3
<1>10. Put(q, u, v, m)
  BY <1>3, <1>6, <1>8, <1>9 DEF Put
<1> QED BY <1>10

(* A query more is to be obeyed. *)
LEMMA ObeyedQuery ==
  ASSUME NEW w, NEW h, NEW k, NEW a, NEW n \in Nat, NEW said, Obeyed(w, h, k, a, n, said),
         NEW u, u[n + 1] = Len(w), \A i \in 1 .. n : u[i] = h[i]
  PROVE  Obeyed(w, u, k, a, n + 1, said)
<1>1. /\ k \in Nat /\ k <= Len(w) /\ a \in Nat /\ a <= n
      /\ IsList(said) /\ a <= Len(said)
      /\ \A i \in a + 1 .. n : k <= h[i]
  BY DEF Obeyed
<1>2. ASSUME NEW i \in a + 1 .. n + 1 PROVE k <= u[i]
  <2>1. CASE i = n + 1
    BY <1>1, <2>1
  <2>2. CASE i # n + 1
    <3>1. i \in a + 1 .. n /\ i \in 1 .. n
      BY <1>1, <2>2
    <3> QED BY <1>1, <3>1
  <2> QED BY <2>1, <2>2
<1>3. a <= n + 1
  BY <1>1
<1> QED BY <1>1, <1>2, <1>3 DEF Obeyed

(* A query is written. *)
LEMMA AskQuery ==
  ASSUME AskInv, NEW c \in DOMAIN QueryBytes, out' = out \o QueryBytes[c],
         queries' = queries + 1, told' = told
  PROVE  AskInv'
<1>1. PICK w, h, e, k, a : Asking(w, h, e, k, a)
  BY AskIs
<1> DEFINE t == QueryBytes[c]
           q == w \o t
           n == queries
           m == n + 1
           u == [h EXCEPT ![m] = Len(w)]
           v == [e EXCEPT ![m] = Len(q)]
<1>2. Put(w, h, e, n) /\ Obeyed(w, h, k, a, n, told) /\ out = Span(w, k, Len(w))
  BY <1>1 DEF Asking
<1>3. IsList(w) /\ n \in Nat
  BY <1>2 DEF Put
<1>0. IsList(t)
  BY QueryFront
<1>20. t = QueryBytes[c] /\ out' = out \o t
  OBVIOUS
<1> HIDE DEF t
<1>4. InTurn(w, t, q)
  BY <1>0, <1>3, ListsJoined
<1> HIDE DEF q, u, v
<1>16. AskedAt(q, Len(w), Len(q))
  <2>1. Span(q, Len(w), Len(q)) = t
    BY <1>0, <1>3, <1>4, SpanAdded
  <2>2. Len(q) \in Nat /\ Len(w) \in Nat /\ Len(w) < Len(q) /\ Len(q) <= Len(q)
    <3>1. Len(t) >= 3
      BY QueryFront DEF t
    <3> QED BY <1>4, <3>1 DEF InTurn, IsList
  <2> QED BY <1>20, <2>1, <2>2 DEF AskedAt
<1>5. h \in [Nat -> Nat] /\ e \in [Nat -> Nat]
  BY <1>1, Zenon DEF Asking
<1>6. Len(w) \in Nat /\ Len(q) \in Nat
  BY <1>4 DEF InTurn, IsList
<1>7. /\ u \in [Nat -> Nat] /\ v \in [Nat -> Nat] /\ u[m] = Len(w) /\ v[m] = Len(q)
      /\ \A i \in 1 .. n : u[i] = h[i] /\ v[i] = e[i]
  <2>1. m \in Nat /\ \A i \in 1 .. n : i \in Nat /\ i # m
    BY <1>3
  <2> HIDE DEF m, n
  <2> QED BY Zenon, <1>5, <1>6, <2>1 DEF u, v
<1>8. Put(q, u, v, m)
  <2>1. u[n + 1] = Len(w) /\ v[n + 1] = Len(q) /\ \A i \in 1 .. n : u[i] = h[i] /\ v[i] = e[i]
    BY <1>7
  <2>2. Put(w, h, e, n)
    BY <1>2
  <2> HIDE DEF n
  <2>3. Put(q, u, v, n + 1)
    BY <1>0, <1>4, <1>16, <2>1, <2>2, PutQuery
  <2> QED BY <2>3
<1>9. Obeyed(w, u, k, a, m, told)
  BY Zenon, <1>2, <1>3, <1>7, ObeyedQuery
<1>10. Obeyed(q, u, k, a, m, told)
  <2>1. k <= Len(w) /\ k \in Nat /\ Len(w) <= Len(q)
    <3>1. k \in Nat /\ k <= Len(w)
      BY <1>9 DEF Obeyed
    <3> QED BY <1>4, <3>1 DEF InTurn
  <2>2. k <= Len(q)
    BY <1>6, <2>1
  <2> QED BY <1>9, <2>2 DEF Obeyed
<1>11. Span(q, k, Len(q)) = Span(w, k, Len(w)) \o t
  <2>1. Obeyed(w, h, k, a, n, told)
    BY <1>2
  <2> HIDE DEF n
  <2> QED BY <1>0, <1>3, <1>4, <2>1, OutStays
<1>12. queries' = m /\ told' = told
  OBVIOUS
<1> HIDE DEF m, n
<1>13. Put(q, u, v, queries') /\ Obeyed(q, u, k, a, queries', told')
  BY <1>8, <1>10, <1>12, Zenon
<1>14. out' = Span(q, k, Len(q))
  BY <1>2, <1>11, <1>20, Zenon
<1>15. u \in [Nat -> Nat] /\ v \in [Nat -> Nat]
  BY <1>7, Zenon
<1> QED BY <1>13, <1>14, <1>15, Zenon DEF AskInv

(* Where the next query is.                                                 *)
LEMMA PutFacts ==
  ASSUME NEW w, NEW h, NEW e, NEW n, Put(w, h, e, n), NEW k, NEW a, NEW said,
         Obeyed(w, h, k, a, n, said)
  PROVE  /\ IsList(w) /\ Len(w) \in Nat /\ n \in Nat /\ k \in Nat /\ k <= Len(w)
         /\ a \in Nat /\ a <= n /\ IsList(said) /\ a <= Len(said)
         /\ \A i \in 1 .. n : h[i] \in Nat /\ e[i] \in Nat /\ h[i] < e[i] /\ e[i] <= Len(w)
<1>1. IsList(w) /\ n \in Nat /\ k \in Nat /\ k <= Len(w) /\ a \in Nat /\ a <= n
  BY DEF Put, Obeyed
<1>2. IsList(said) /\ a <= Len(said)
  BY DEF Obeyed
<1>3. \A i \in 1 .. n : AskedAt(w, h[i], e[i])
  BY DEF Put
<1>4. \A i \in 1 .. n : h[i] \in Nat /\ e[i] \in Nat /\ h[i] < e[i] /\ e[i] <= Len(w)
  BY <1>3 DEF AskedAt
<1>5. Len(w) \in Nat
  BY <1>1 DEF IsList
<1> QED BY <1>1, <1>2, <1>4, <1>5

(* It is the first: the others are behind it. *)
LEMMA QueriesAhead ==
  ASSUME NEW w, NEW h, NEW e, NEW n, Put(w, h, e, n), NEW k, NEW a, NEW said,
         Obeyed(w, h, k, a, n, said), a < n
  PROVE  LET p == h[a + 1] IN
         /\ p \in Nat /\ e[a + 1] \in Nat /\ k <= p /\ p < e[a + 1] /\ e[a + 1] <= Len(w)
         /\ \A i \in a + 1 .. n : p <= h[i]
         /\ \A i \in a + 2 .. n : e[a + 1] <= h[i]
<1>1. /\ IsList(w) /\ Len(w) \in Nat /\ n \in Nat /\ k \in Nat /\ k <= Len(w) /\ a \in Nat
      /\ \A i \in 1 .. n : h[i] \in Nat /\ e[i] \in Nat /\ h[i] < e[i] /\ e[i] <= Len(w)
  BY PutFacts
<1>2. \A i, j \in 1 .. n : i < j => e[i] <= h[j]
  BY DEF Put
<1>3. \A i \in a + 1 .. n : k <= h[i]
  BY DEF Obeyed
<1> DEFINE m == a + 1
<1>4. m \in 1 .. n /\ m \in a + 1 .. n
  BY <1>1
<1>5. h[m] \in Nat /\ e[m] \in Nat /\ k <= h[m] /\ h[m] < e[m] /\ e[m] <= Len(w)
  BY <1>1, <1>3, <1>4
<1>6. ASSUME NEW i \in a + 2 .. n PROVE e[m] <= h[i]
  <2>1. i \in 1 .. n /\ m < i
    BY <1>1
  <2> QED BY <1>2, <1>4, <2>1
<1>7. ASSUME NEW i \in a + 1 .. n PROVE h[m] <= h[i]
  <2>1. CASE i = m
    BY <1>5, <2>1
  <2>2. CASE i # m
    <3>1. i \in a + 2 .. n /\ i \in 1 .. n
      BY <1>1, <2>2
    <3>2. h[i] \in Nat /\ e[m] <= h[i]
      BY <1>1, <1>6, <3>1
    <3> HIDE DEF m
    <3> QED BY <1>5, <3>2
  <2> QED BY <2>1, <2>2
<1> QED BY <1>5, <1>6, <1>7

(* A query is still to be obeyed: the terminal can go on, and goes to its   *)
(* front at most, or takes it, the first, as a whole.                       *)
LEMMA QueryNext ==
  ASSUME NEW w, NEW h, NEW e, NEW n, Put(w, h, e, n), NEW k, NEW a, NEW said,
         Obeyed(w, h, k, a, n, said), a < n, NEW s, s = Span(w, k, Len(w))
  PROVE  /\ NextSequence(s).kind # "none"
         /\ \/ k + NextSequence(s).len <= h[a + 1]
            \/ /\ k + NextSequence(s).len = e[a + 1]
               /\ \E c \in DOMAIN QueryBytes : SubSeq(s, 1, NextSequence(s).len) = QueryBytes[c]
<1> DEFINE p == h[a + 1]
           g == e[a + 1]
           b == Len(w)
           q == Span(w, p, g)
<1>1. p \in Nat /\ g \in Nat /\ k <= p /\ p < g /\ g <= b
  BY QueriesAhead
<1>2. IsList(w) /\ b \in Nat /\ n \in Nat /\ k \in Nat /\ k <= b /\ a \in Nat
  BY PutFacts
<1>3. PICK c \in DOMAIN QueryBytes : q = QueryBytes[c]
  <2>1. a + 1 \in 1 .. n
    BY <1>2
  <2>2. AskedAt(w, h[a + 1], e[a + 1])
    BY <2>1 DEF Put
  <2> QED BY <2>2 DEF AskedAt
<1> HIDE DEF p, g
<1>4. IsList(q) /\ Len(q) = g - p /\ \A i \in 1 .. g - p : q[i] = w[p + i]
  <2>1. p <= g /\ g <= Len(w)
    BY <1>1
  <2> QED BY Zenon, <1>1, <1>2, <2>1, SpanIs
<1>5. Len(q) >= 3 /\ q[1] = ESC /\ q[2] \in {"[", "]"}
  BY <1>3, QueryFront
<1>6. IsList(s) /\ Len(s) = b - k /\ \A i \in 1 .. b - k : s[i] = w[k + i]
  <2>1. IsList(Span(w, k, b)) /\ Len(Span(w, k, b)) = b - k
        /\ \A i \in 1 .. b - k : Span(w, k, b)[i] = w[k + i]
    <3>1. b <= Len(w)
      BY <1>2
    <3> HIDE DEF b
    <3> QED BY <1>2, <3>1, SpanIs
  <2> QED BY <2>1
<1> HIDE DEF b, q
<1>7. CASE p = k
  <2>1. Len(q) <= Len(s) /\ \A i \in 1 .. Len(q) : s[i] = q[i]
    <3>1. Len(q) <= Len(s)
      BY <1>1, <1>2, <1>4, <1>6, <1>7
    <3>2. ASSUME NEW i \in 1 .. Len(q) PROVE s[i] = q[i]
      <4>1. i \in 1 .. g - p /\ i \in 1 .. b - k
        BY <1>1, <1>2, <1>4, <1>6, <3>1
      <4> QED BY <1>4, <1>6, <1>7, <4>1
    <3> QED BY <3>1, <3>2
  <2>2. Begins(s, QueryBytes[c])
    BY <1>3, <1>4, <1>6, <2>1 DEF Begins
  <2>3. /\ NextSequence(s).kind # "none" /\ NextSequence(s).len = Len(QueryBytes[c])
        /\ SubSeq(s, 1, NextSequence(s).len) = QueryBytes[c]
    BY <2>2, QueryTaken
  <2>4. k + NextSequence(s).len = g
    <3>1. NextSequence(s).len = g - k
      BY <1>3, <1>4, <1>7, <2>3
    <3> QED BY <1>1, <1>2, <3>1
  <2> QED BY <2>3, <2>4 DEF g
<1>8. CASE p # k
  <2> DEFINE j == p - k + 1
  <2>1. j \in 2 .. Len(s) - 1 /\ k + j = p + 1 /\ k + (j + 1) = p + 2
    BY <1>1, <1>2, <1>4, <1>5, <1>6, <1>8
  <2>2. s[j] = w[p + 1] /\ s[j + 1] = w[p + 2]
    <3>1. j \in 1 .. b - k /\ j + 1 \in 1 .. b - k
      BY <1>2, <1>6, <2>1
    <3> HIDE DEF j
    <3> QED BY <1>6, <2>1, <3>1
  <2>3. w[p + 1] = ESC /\ w[p + 2] \in {"[", "]"}
    <3>1. 1 \in 1 .. g - p /\ 2 \in 1 .. g - p
      BY <1>1, <1>4, <1>5
    <3> QED BY <1>4, <1>5, <3>1
  <2>4. k + (j - 1) = p
    BY <1>1, <1>2
  <2> HIDE DEF j
  <2>5. NextSequence(s).kind # "none" /\ NextSequence(s).len \in 1 .. j - 1
    BY Zenon, <1>6, <2>1, <2>2, <2>3, NextBefore
  <2>6. k + NextSequence(s).len <= p
    BY <1>1, <1>2, <2>1, <2>4, <2>5
  <2> QED BY <2>5, <2>6 DEF p
<1> QED BY <1>7, <1>8

(* A sequence before the next query, or after the last, is obeyed.          *)
LEMMA ObeyedOn ==
  ASSUME NEW w, NEW h, NEW e, NEW n, Put(w, h, e, n), NEW k, NEW a, NEW said,
         Obeyed(w, h, k, a, n, said), NEW m \in Nat, m <= Len(w), a < n => m <= h[a + 1],
         NEW then, IsList(then), Len(then) >= Len(said)
  PROVE  Obeyed(w, h, m, a, n, then)
<1>1. /\ IsList(w) /\ Len(w) \in Nat /\ n \in Nat /\ a \in Nat /\ a <= n
      /\ IsList(said) /\ a <= Len(said)
      /\ \A i \in 1 .. n : h[i] \in Nat
  BY PutFacts
<1>2. a <= Len(then)
  BY <1>1 DEF IsList
<1>3. ASSUME NEW i \in a + 1 .. n PROVE m <= h[i]
  <2>1. a < n
    BY <1>1
  <2>2. m <= h[a + 1] /\ h[a + 1] \in Nat /\ h[a + 1] <= h[i]
    BY <2>1, QueriesAhead
  <2>3. h[i] \in Nat
    <3>1. i \in 1 .. n
      BY <1>1
    <3> QED BY <1>1, <3>1
  <2> QED BY <2>2, <2>3
<1> QED BY <1>1, <1>2, <1>3 DEF Obeyed

(* The next query is obeyed, and answered.                                  *)
LEMMA ObeyedAsked ==
  ASSUME NEW w, NEW h, NEW e, NEW n, Put(w, h, e, n), NEW k, NEW a, NEW said,
         Obeyed(w, h, k, a, n, said), a < n, NEW x
  PROVE  Obeyed(w, h, e[a + 1], a + 1, n, Append(said, x))
<1>1. /\ IsList(w) /\ Len(w) \in Nat /\ n \in Nat /\ a \in Nat
      /\ IsList(said) /\ a <= Len(said)
  BY PutFacts
<1> DEFINE m == e[a + 1]
           then == Append(said, x)
           b == a + 1
<1>2. m \in Nat /\ m <= Len(w) /\ \A i \in a + 2 .. n : m <= h[i]
  BY QueriesAhead
<1>3. IsList(then) /\ Len(then) = Len(said) + 1 /\ Len(said) \in Nat
  BY <1>1, ListAppend
<1> HIDE DEF m, then
<1>4. b \in Nat /\ b <= n /\ b <= Len(then) /\ b + 1 = a + 2
  BY <1>1, <1>3
<1> HIDE DEF b
<1>5. Obeyed(w, h, m, b, n, then)
  BY <1>2, <1>3, <1>4 DEF Obeyed
<1> QED BY <1>5 DEF m, then, b

(* The terminal obeys a sequence.                                           *)
LEMMA AskObey ==
  ASSUME StreamInv, AskInv, TerminalObeys
  PROVE  AskInv'
<1>1. PICK w, h, e, k, a : Asking(w, h, e, k, a)
  BY AskIs
<1> DEFINE n == queries
           s == Span(w, k, Len(w))
           x == NextSequence(s).len
           m == k + x
<1>2. h \in [Nat -> Nat] /\ e \in [Nat -> Nat]
  BY <1>1, Zenon DEF Asking
<1>3. Put(w, h, e, n) /\ Obeyed(w, h, k, a, n, told)
  BY <1>1, Zenon DEF Asking
<1>4. out = s
  BY <1>1, Zenon DEF Asking
<1>5. /\ NextSequence(out).kind # "none"
      /\ out' = SubSeq(out, NextSequence(out).len + 1, Len(out))
      /\ \/ AskedFor(SubSeq(out, 1, NextSequence(out).len)) = {} /\ told' = told
         \/ \E c \in DOMAIN QueryBytes : told' = Append(told, Answer(c))
      /\ queries' = queries
  BY DEF TerminalObeys, Says, AskedFor
<1>6. /\ IsList(w) /\ Len(w) \in Nat /\ n \in Nat /\ k \in Nat /\ k <= Len(w)
      /\ a \in Nat /\ a <= n /\ IsList(told) /\ a <= Len(told)
  BY <1>3, PutFacts
<1> DEFINE b == Len(w)
<1>7. IsList(Span(w, k, b)) /\ Len(Span(w, k, b)) = b - k
  <2>1. b \in Nat /\ k <= b /\ b <= Len(w)
    BY <1>6
  <2> HIDE DEF b
  <2> QED BY <1>6, <2>1, SpanIs
<1>8. x \in Nat /\ x <= b - k
  <2>1. x \in 0 .. Len(s)
    BY <1>7, NextLength
  <2>2. Len(s) = b - k
    BY <1>7
  <2> HIDE DEF x, s, b
  <2> QED BY <2>1, <2>2
<1>9. m \in Nat /\ m <= b
  <2> HIDE DEF x, b
  <2> QED BY <1>6, <1>8 DEF b
<1>10. out' = Span(w, m, b)
  <2>1. b \in Nat /\ k <= b /\ b <= Len(w)
    BY <1>6
  <2>2. out' = SubSeq(Span(w, k, b), x + 1, Len(Span(w, k, b)))
    BY <1>4, <1>5
  <2> HIDE DEF x, b, s, n
  <2>4. IsList(w) /\ k \in Nat /\ x \in Nat /\ x <= b - k
    BY <1>6, <1>8
  <2>3. SubSeq(Span(w, k, b), x + 1, Len(Span(w, k, b))) = Span(w, k + x, b)
    BY Zenon, <2>1, <2>4, SpanRest
  <2> QED BY <2>2, <2>3
<1>11. IsList(told') /\ Len(told') >= Len(told)
  <2>1. CASE told' = told
    BY <1>6, <2>1 DEF IsList
  <2>2. CASE \E c \in DOMAIN QueryBytes : told' = Append(told, Answer(c))
    <3>1. PICK y : told' = Append(told, y)
      BY <2>2
    <3> QED BY <1>6, <3>1, ListAppend
  <2> QED BY <1>5, <2>1, <2>2
<1>12. PICK p, c : Obeyed(w, h, p, c, n, told') /\ p = m
  <2>1. CASE a = n
    <3>1. Obeyed(w, h, m, a, n, told')
      <4>1. a < n => m <= h[a + 1]
        BY <1>6, <2>1
      <4> HIDE DEF m, n
      <4> QED BY <1>3, <1>9, <1>11, <4>1, ObeyedOn DEF b
    <3> QED BY <3>1
  <2>2. CASE a # n
    <3>1. a < n
      BY <1>6, <2>2
    <3> HIDE DEF n
    <3>2. \/ k + NextSequence(s).len <= h[a + 1]
          \/ /\ k + NextSequence(s).len = e[a + 1]
             /\ \E c \in DOMAIN QueryBytes : SubSeq(s, 1, NextSequence(s).len) = QueryBytes[c]
      BY <1>3, <3>1, QueryNext
    <3>3. CASE m <= h[a + 1]
      <4>1. Obeyed(w, h, m, a, n, told')
        <5>1. a < n => m <= h[a + 1]
          BY <3>3
        <5> HIDE DEF m
        <5> QED BY <1>3, <1>9, <1>11, <5>1, ObeyedOn DEF b
      <4> QED BY <4>1
    <3>4. ASSUME m = e[a + 1], NEW c \in DOMAIN QueryBytes, SubSeq(s, 1, x) = QueryBytes[c]
          PROVE  \E p, d : Obeyed(w, h, p, d, n, told') /\ p = m
      <4>1. AskedFor(SubSeq(out, 1, NextSequence(out).len)) # {}
        <5>1. QueryBytes[c] = SubSeq(out, 1, NextSequence(out).len)
          BY <1>4, <3>4
        <5> QED BY Zenon, <5>1 DEF AskedFor
      <4>2. PICK y : told' = Append(told, y)
        BY <1>5, <4>1
      <4> HIDE DEF m
      <4>3. Obeyed(w, h, e[a + 1], a + 1, n, Append(told, y))
        BY <1>3, <3>1, ObeyedAsked
      <4>4. Obeyed(w, h, m, a + 1, n, told')
        BY <3>4, <4>2, <4>3, Zenon
      <4> QED BY <4>4
    <3> QED BY <3>2, <3>3, <3>4
  <2> QED BY <2>1, <2>2
<1> HIDE DEF m, b
<1>13. Put(w, h, e, queries') /\ Obeyed(w, h, m, c, queries', told')
  BY <1>3, <1>5, <1>12, Zenon DEF n
<1>14. out' = Span(w, m, Len(w))
  BY <1>10, Zenon DEF b
<1> QED BY <1>2, <1>13, <1>14, Zenon DEF AskInv

(* An item that asks is written as one of the queries.                      *)
LEMMA QueryItem ==
  ASSUME NEW i \in Item, IsQuery(i)
  PROVE  \E c \in DOMAIN QueryBytes : EncodeDyn(i) = QueryBytes[c]
<1>1. CASE i.kind = "query"
  <2>1. i.ask \in DOMAIN QueryBytes
    BY <1>1 DEF Item
  <2>2. EncodeDyn(i) = QueryBytes[i.ask]
    BY <1>1 DEF EncodeDyn
  <2> QED BY <2>1, <2>2
<1>2. CASE i.kind = "kitty" /\ i.op = "query"
  <2>1. EncodeDyn(i) = KittyBytes(i)
    BY <1>2 DEF EncodeDyn
  <2>2. KittyBytes(i) = CSI \o <<"?", "u">>
    BY <1>2 DEF KittyBytes
  <2>3. QueryBytes["kitty"] = CSI \o <<"?", "u">> /\ "kitty" \in DOMAIN QueryBytes
    BY DEF QueryBytes
  <2>4. EncodeDyn(i) = QueryBytes["kitty"]
    BY <2>1, <2>2, <2>3, Zenon
  <2> QED BY <2>3, <2>4, Zenon
<1> QED BY <1>1, <1>2 DEF IsQuery

(* Nothing is written and nothing obeyed.                                   *)
LEMMA AskElsewhere ==
  ASSUME AskInv, UNCHANGED <<out, told, queries>>
  PROVE  AskInv'
BY Zenon DEF AskInv

(* An item is written. *)
LEMMA AskItem ==
  ASSUME StreamInv, AskInv, EncodeItem
  PROVE  AskInv'
<1> DEFINE i == Head(todo)
           t == EncodeDyn(i)
<1>1. todo # <<>> /\ out' = out \o t /\ told' = told
      /\ queries' = queries + (IF IsQuery(i) THEN 1 ELSE 0)
  BY DEF EncodeItem
<1>2. i \in Item
  BY <1>1 DEF StreamInv
<1>3. IsList(t)
  BY <1>2, EncodeSize
<1>4. queries \in Nat
  <2>1. PICK w, h, e, k, a : Asking(w, h, e, k, a)
    BY AskIs
  <2>2. Put(w, h, e, queries)
    BY <2>1, Zenon DEF Asking
  <2> QED BY <2>2 DEF Put
<1>5. CASE IsQuery(i)
  <2>1. PICK c \in DOMAIN QueryBytes : t = QueryBytes[c]
    BY <1>2, <1>5, QueryItem
  <2>2. out' = out \o QueryBytes[c]
    BY <1>1, <2>1
  <2>3. queries' = queries + 1
    BY <1>1, <1>5
  <2> HIDE DEF t, i
  <2> QED BY <1>1, <2>2, <2>3, AskQuery
<1>6. CASE ~IsQuery(i)
  <2>1. queries' = queries
    BY <1>1, <1>4, <1>6
  <2> HIDE DEF t, i
  <2> QED BY <1>1, <1>3, <2>1, AskPlain
<1> QED BY <1>5, <1>6

(* Part of an item is written. *)
LEMMA AskPart ==
  ASSUME StreamInv, AskInv, WriterFails
  PROVE  AskInv'
<1> DEFINE i == Head(todo)
           bytes == EncodeDyn(i)
<1>1. todo # <<>> /\ queries' = queries /\ told' = told
  BY DEF WriterFails
<1>2. PICK k \in 0 .. (Len(bytes) - 1) : out' = out \o SubSeq(bytes, 1, k)
  BY Zenon DEF WriterFails
<1>3. i \in Item
  BY <1>1 DEF StreamInv
<1>4. IsList(bytes)
  BY <1>3, EncodeSize
<1> DEFINE part == SubSeq(bytes, 1, k)
<1>5. IsList(part)
  <2> HIDE DEF bytes
  <2>1. k \in Int /\ k <= Len(bytes) /\ 1 \in Nat \ {0}
    BY <1>4 DEF IsList
  <2> QED BY <1>4, <2>1, SliceList
<1>6. out' = out \o part
  BY <1>2
<1> HIDE DEF part
<1> QED BY <1>1, <1>5, <1>6, AskPlain

(* Every step keeps the queries in their places. *)
LEMMA AskStep == StreamInv /\ AskInv /\ [Next]_vars => AskInv'
<1> SUFFICES ASSUME StreamInv, AskInv, [Next]_vars PROVE AskInv'
  OBVIOUS
<1>1. CASE UNCHANGED vars
  BY <1>1, AskElsewhere DEF vars, writeVars, termVars, readVars
<1>2. CASE Begin \/ EncodeDone
  BY <1>2, AskElsewhere DEF Begin, EncodeDone, termVars, readVars
<1>3. CASE (\E bytes \in Noise : PressKey(bytes)) \/ Arrive \/ Take \/ Drop
  BY <1>3, AskElsewhere DEF PressKey, Arrive, Take, Drop, writeVars, termVars, readVars
<1> QED BY <1>1, <1>2, <1>3, AskItem, AskPart, AskObey DEF Next

(* With no sequence left to obey, every query is answered.                  *)
LEMMA AskEnd == AskInv /\ NextSequence(out).kind = "none" => queries <= Len(told)
<1> SUFFICES ASSUME AskInv, NextSequence(out).kind = "none" PROVE queries <= Len(told)
  OBVIOUS
<1>1. PICK w, h, e, k, a : Asking(w, h, e, k, a)
  BY AskIs
<1>2. Put(w, h, e, queries) /\ Obeyed(w, h, k, a, queries, told)
  BY <1>1, Zenon DEF Asking
<1>3. out = Span(w, k, Len(w))
  BY <1>1, Zenon DEF Asking
<1>4. a \in Nat /\ queries \in Nat /\ a <= queries /\ a <= Len(told)
  BY <1>2, PutFacts
<1>5. ~(a < queries)
  BY <1>2, <1>3, QueryNext
<1> QED BY <1>4, <1>5

(* NoAnswerStuck: a caller that has asked and not heard never has all the   *)
(* bytes in and nothing to do: every query in what was written, whatever    *)
(* half of an item is in front of it, is taken by the terminal as a whole   *)
(* and answered, and of an answer not yet heard no byte is thrown away.     *)
THEOREM AnswersReach == KeysApart => (Spec => []NoAnswerStuck)
<1> SUFFICES ASSUME KeysApart PROVE Spec => []NoAnswerStuck
  OBVIOUS
<1>1. Init => StreamInv /\ TalkInv /\ AskInv
  BY StreamInit, TalkInit, AskInit
<1>2. StreamInv /\ TalkInv /\ AskInv /\ [Next]_vars => (StreamInv /\ TalkInv /\ AskInv)'
  BY StreamStep, TalkStep, AskStep
<1>3. StreamInv /\ TalkInv /\ AskInv => NoAnswerStuck
  <2> SUFFICES ASSUME TalkInv, AskInv, Reading, NextSequence(out).kind = "none", back = <<>>
               PROVE  inbox # <<>> /\ (Accepted # {} \/ Rejected = Decoders)
    BY DEF NoAnswerStuck
  <2>1. queries <= Len(told)
    BY AskEnd
  <2>2. Len(heard) < queries
    BY DEF Reading
  <2>3. Len(heard) \in Nat /\ Len(told) \in Nat /\ queries \in Nat
    <3>1. PICK z, f, g, k, m : Talk(z, f, g, k, m)
      BY TalkIs
    <3>2. Sent(z, f, g, told) /\ Received(z, f, g, k, m, told, heard)
      BY <3>1, Zenon DEF Talk
    <3>3. Len(heard) \in Nat /\ Len(told) \in Nat
      BY <3>2, ReceivedFacts
    <3>4. PICK w, h, e, l, a : Asking(w, h, e, l, a)
      BY AskIs
    <3>5. Put(w, h, e, queries)
      BY <3>4, Zenon DEF Asking
    <3> QED BY <3>3, <3>5 DEF Put
  <2>4. Len(heard) < Len(told)
    BY <2>1, <2>2, <2>3
  <2> QED BY <2>4, TalkReads
<1> QED BY <1>1, <1>2, <1>3, PTL DEF Spec

-----------------------------------------------------------------------------
(* What the terminal draws: the bytes written so far fall into stages, each *)
(* a sequence the terminal takes as a whole or a scrap it throws away.      *)

(* p takes the terminal from t to u, whatever follows. *)
Whole(p, t, u) ==
  /\ IsList(p) /\ Len(p) >= 2 /\ p[1] = ESC /\ p[2] # "\\"
  /\ \A s : Begins(s, p) =>
       /\ NextSequence(s).kind # "none" /\ NextSequence(s).len = Len(p)
       /\ Obey(t, NextSequence(s).kind, p) = u

(* The terminal waits behind p, and throws it away when a new stage begins; *)
(* it may still wait for the second byte of that one.                       *)
Scrap(p) ==
  /\ IsList(p) /\ Len(p) >= 1 /\ p[1] = ESC /\ (Len(p) >= 2 => p[2] # "\\")
  /\ \A s : Begins(s, p) =>
       /\ Len(s) = Len(p) => NextSequence(s).kind = "none"
       /\ Len(s) > Len(p) /\ s[Len(p) + 1] = ESC /\ (Len(s) >= Len(p) + 2 => s[Len(p) + 2] # "\\") =>
            \/ NextSequence(s).kind = "none" /\ Len(s) = Len(p) + 1
            \/ NextSequence(s).kind = "text" /\ NextSequence(s).len = Len(p)

Stage(p, t, u) == Whole(p, t, u) \/ (Scrap(p) /\ u = t)

(* <<k, t>> \in G: were the first k bytes of w obeyed and the terminal in   *)
(* state t, it would come to state u when all are.                          *)
Onward(w, G, u, k, t) ==
  /\ k \in Nat /\ k <= Len(w)
  /\ k = Len(w) => t = u
  /\ k < Len(w) => \E l, v : /\ l \in Nat /\ <<l, v>> \in G /\ k < l /\ l <= Len(w)
                             /\ Stage(Span(w, k, l), t, v)

Staged(w, G, u) ==
  /\ IsList(w) /\ <<Len(w), u>> \in G
  /\ \A k, t : <<k, t>> \in G => Onward(w, G, u, k, t)

(* One more stage. *)
LEMMA StageAdded ==
  ASSUME NEW w, NEW G, NEW u, Staged(w, G, u), NEW p, NEW v, Stage(p, u, v), NEW q, InTurn(w, p, q)
  PROVE  Staged(q, G \cup {<<Len(q), v>>}, v)
<1> DEFINE H == G \cup {<<Len(q), v>>}
<1>1. IsList(w) /\ <<Len(w), u>> \in G /\ \A k, t : <<k, t>> \in G => Onward(w, G, u, k, t)
  BY DEF Staged
<1>2. IsList(p) /\ Len(p) >= 1
  BY DEF Stage, Whole, Scrap, IsList
<1>3. /\ IsList(q) /\ Len(w) \in Nat /\ Len(p) \in Nat /\ Len(q) = Len(w) + Len(p)
  BY DEF InTurn
<1>4. Len(w) < Len(q) /\ Len(q) \in Nat
  BY <1>2, <1>3
<1>5. ASSUME NEW k, NEW t, <<k, t>> \in G PROVE Onward(q, H, v, k, t)
  <2>1. Onward(w, G, u, k, t)
    BY <1>1, <1>5
  <2>2. k \in Nat /\ k <= Len(w)
    BY <2>1 DEF Onward
  <2>3. CASE k = Len(w)
    <3>1. t = u
      BY <2>1, <2>3 DEF Onward
    <3>2. Span(q, Len(w), Len(q)) = p
      BY <1>1, <1>2, SpanAdded
    <3>3. Stage(Span(q, k, Len(q)), t, v)
      BY <2>3, <3>1, <3>2
    <3>4. <<Len(q), v>> \in H
      OBVIOUS
    <3>5. k < Len(q) /\ k <= Len(q) /\ k # Len(q) /\ Len(q) <= Len(q)
      BY <1>3, <1>4, <2>2, <2>3
    <3> HIDE DEF H
    <3> QED BY <1>4, <2>2, <3>3, <3>4, <3>5 DEF Onward
  <2>4. CASE k # Len(w)
    <3>1. PICK l, x : /\ l \in Nat /\ <<l, x>> \in G /\ k < l /\ l <= Len(w)
                      /\ Stage(Span(w, k, l), t, x)
      <4>1. k < Len(w)
        BY <1>3, <2>2, <2>4
      <4> QED BY Zenon, <2>1, <4>1 DEF Onward
    <3>2. k <= l
      BY <2>2, <3>1
    <3>3. Span(q, k, l) = Span(w, k, l)
      BY <1>1, <1>2, <2>2, <3>1, <3>2, SpanStays
    <3>4. Stage(Span(q, k, l), t, x)
      BY <3>1, <3>3
    <3>5. <<l, x>> \in H
      BY <3>1
    <3>6. l <= Len(q) /\ k <= Len(q) /\ k # Len(q)
      BY <1>3, <1>4, <2>2, <3>1
    <3> HIDE DEF H
    <3> QED BY <2>2, <3>1, <3>4, <3>5, <3>6 DEF Onward
  <2> QED BY <2>3, <2>4
<1>6. Onward(q, H, v, Len(q), v)
  <2> HIDE DEF H
  <2> QED BY <1>4 DEF Onward
<1>7. \A k, t : <<k, t>> \in H => Onward(q, H, v, k, t)
  <2> SUFFICES ASSUME NEW k, NEW t, <<k, t>> \in H PROVE Onward(q, H, v, k, t)
    BY Zenon
  <2>1. CASE <<k, t>> \in G
    BY Zenon, <1>5, <2>1
  <2>2. CASE <<k, t>> \notin G
    <3>1. k = Len(q) /\ t = v
      BY <2>2
    <3> HIDE DEF H
    <3> QED BY <1>6, <3>1
  <2> QED BY <2>1, <2>2
<1> QED BY Zenon, <1>3, <1>7 DEF Staged

(* Where the terminal stands. *)
Standing(w, G, k, u, t, o) == Staged(w, G, u) /\ <<k, t>> \in G /\ o = Span(w, k, Len(w))

DrawInv == \E w, G, k : Standing(w, G, k, asked, screen, out)

(* A stage is written. *)
LEMMA StandingOn ==
  ASSUME NEW w, NEW G, NEW k, NEW u, NEW t, NEW o, Standing(w, G, k, u, t, o),
         NEW p, NEW v, Stage(p, u, v)
  PROVE  \E z, H : Standing(z, H, k, v, t, o \o p)
<1> DEFINE q == w \o p
           H == G \cup {<<Len(q), v>>}
<1>1. Staged(w, G, u) /\ <<k, t>> \in G /\ o = Span(w, k, Len(w))
  BY DEF Standing
<1>2. IsList(w) /\ IsList(p)
  BY <1>1 DEF Staged, Stage, Whole, Scrap
<1>3. InTurn(w, p, q)
  BY <1>2, ListsJoined
<1> HIDE DEF q
<1>4. Staged(q, H, v)
  BY <1>1, <1>3, StageAdded
<1>5. k \in Nat /\ k <= Len(w)
  BY Zenon, <1>1 DEF Staged, Onward
<1>6. o \o p = Span(q, k, Len(q))
  BY SMTT(40), <1>1, <1>2, <1>3, <1>5, SpanLonger
<1>7. <<k, t>> \in H
  BY <1>1
<1> HIDE DEF H
<1> QED BY <1>4, <1>6, <1>7 DEF Standing

(* What stands behind a place where a stage begins. *)
Behind(w, G, k, t, l, v, p) ==
  /\ <<l, v>> \in G /\ k \in Nat /\ l \in Nat /\ k < l /\ l <= Len(w) /\ Len(w) \in Nat
  /\ p = Span(w, k, l) /\ Stage(p, t, v)
  /\ IsList(p) /\ Len(p) = l - k /\ \A i \in 1 .. l - k : p[i] = w[k + i]

(* From any place but the last, a stage begins. *)
LEMMA StageAt ==
  ASSUME NEW w, NEW G, NEW u, Staged(w, G, u), NEW k, NEW t, <<k, t>> \in G, k < Len(w)
  PROVE  \E l, v, p : Behind(w, G, k, t, l, v, p)
<1>1. IsList(w) /\ Onward(w, G, u, k, t)
  BY DEF Staged
<1>2. PICK l, v : l \in Nat /\ <<l, v>> \in G /\ k < l /\ l <= Len(w) /\ Stage(Span(w, k, l), t, v)
  BY <1>1 DEF Onward
<1>3. k \in Nat /\ Len(w) \in Nat
  BY <1>1 DEF Onward, IsList
<1>4. k <= l
  BY <1>2, <1>3
<1> DEFINE p == Span(w, k, l)
<1>5. IsList(p) /\ Len(p) = l - k /\ \A i \in 1 .. l - k : p[i] = w[k + i]
  BY <1>1, <1>2, <1>3, <1>4, SpanIs
<1>6. p = Span(w, k, l) /\ Stage(p, t, v)
  BY <1>2
<1> HIDE DEF p
<1>7. Behind(w, G, k, t, l, v, p)
  BY <1>2, <1>3, <1>5, <1>6 DEF Behind
<1> QED BY <1>7

(* It begins with ESC, and no ST is there. *)
LEMMA StageFront ==
  ASSUME NEW w, NEW G, NEW u, Staged(w, G, u), NEW k, NEW t, <<k, t>> \in G, k < Len(w)
  PROVE  k \in Nat /\ w[k + 1] = ESC /\ (k + 2 <= Len(w) => w[k + 2] # "\\")
<1>1a. PICK l, v, p : Behind(w, G, k, t, l, v, p)
  BY StageAt
<1>1. /\ <<l, v>> \in G /\ k \in Nat /\ l \in Nat /\ k < l /\ l <= Len(w) /\ Len(w) \in Nat
     /\ p = Span(w, k, l) /\ Stage(p, t, v)
     /\ IsList(p) /\ Len(p) = l - k /\ \A i \in 1 .. l - k : p[i] = w[k + i]
  BY <1>1a DEF Behind
<1>2. p[1] = ESC /\ (Len(p) >= 2 => p[2] # "\\")
  BY <1>1 DEF Stage, Whole, Scrap
<1>3. w[k + 1] = ESC
  <2>1. 1 \in 1 .. l - k
    BY <1>1
  <2> QED BY <1>1, <1>2, <2>1
<1>4. ASSUME k + 2 <= Len(w) PROVE w[k + 2] # "\\"
  <2>1. CASE Len(p) >= 2
    <3>1. 2 \in 1 .. l - k
      BY <1>1, <2>1
    <3> QED BY <1>1, <1>2, <2>1, <3>1
  <2>2. CASE Len(p) < 2
    <3>1. l = k + 1 /\ l < Len(w) /\ l + 1 = k + 2
      BY <1>1, <1>4, <2>2
    <3>2a. PICK m, x, q : Behind(w, G, l, v, m, x, q)
      BY <1>1, <3>1, StageAt
    <3>2. /\ <<m, x>> \in G /\ l \in Nat /\ m \in Nat /\ l < m /\ m <= Len(w) /\ Len(w) \in Nat
         /\ q = Span(w, l, m) /\ Stage(q, v, x)
         /\ IsList(q) /\ Len(q) = m - l /\ \A i \in 1 .. m - l : q[i] = w[l + i]
      BY <3>2a DEF Behind
    <3>3. q[1] = ESC
      BY <3>2 DEF Stage, Whole, Scrap
    <3>4. 1 \in 1 .. m - l
      BY <3>2
    <3>5. w[l + 1] = ESC
      BY <3>2, <3>3, <3>4
    <3> QED BY <3>1, <3>5 DEF ESC
  <2>3. Len(p) \in Nat
    BY <1>1
  <2> QED BY <2>1, <2>2, <2>3
<1> QED BY <1>1, <1>3, <1>4

(* What the terminal has in front of it. *)
Facing(w, G, k, t, o, l, v, p) ==
  /\ <<l, v>> \in G /\ k \in Nat /\ l \in Nat /\ k < l /\ l <= Len(w) /\ Len(w) \in Nat
  /\ p = Span(w, k, l) /\ Stage(p, t, v) /\ Begins(o, p) /\ Len(p) = l - k /\ Len(o) = Len(w) - k
  /\ l < Len(w) => o[Len(p) + 1] = ESC /\ (Len(o) >= Len(p) + 2 => o[Len(p) + 2] # "\\")

(* What is still to be obeyed begins with a stage. *)
LEMMA StandingFaces ==
  ASSUME NEW w, NEW G, NEW k, NEW u, NEW t, NEW o, Standing(w, G, k, u, t, o), k < Len(w)
  PROVE  \E l, v, p : Facing(w, G, k, t, o, l, v, p)
<1>1. Staged(w, G, u) /\ <<k, t>> \in G /\ o = Span(w, k, Len(w))
  BY DEF Standing
<1>2a. PICK l, v, p : Behind(w, G, k, t, l, v, p)
  BY <1>1, StageAt
<1>2. /\ <<l, v>> \in G /\ k \in Nat /\ l \in Nat /\ k < l /\ l <= Len(w) /\ Len(w) \in Nat
     /\ p = Span(w, k, l) /\ Stage(p, t, v)
     /\ IsList(p) /\ Len(p) = l - k /\ \A i \in 1 .. l - k : p[i] = w[k + i]
  BY <1>2a DEF Behind
<1> DEFINE e == Len(w)
<1>3. IsList(w) /\ e \in Nat /\ k <= e /\ e <= Len(w)
  BY <1>1, <1>2 DEF Staged
<1> HIDE DEF e
<1>4. IsList(Span(w, k, e)) /\ Len(Span(w, k, e)) = e - k /\ \A i \in 1 .. e - k : Span(w, k, e)[i] = w[k + i]
  BY ZenonT(60), <1>2, <1>3, SpanIs
<1>5. IsList(o) /\ Len(o) = e - k /\ \A i \in 1 .. e - k : o[i] = w[k + i]
  BY <1>1, <1>4 DEF e
<1>6. Begins(o, p)
  <2>1. Len(p) <= Len(o)
    BY <1>2, <1>3, <1>5 DEF e
  <2>2. ASSUME NEW i \in 1 .. Len(p) PROVE o[i] = p[i]
    <3>1. i \in 1 .. l - k /\ i \in 1 .. e - k
      BY <1>2, <1>3, <1>5, <2>1
    <3> QED BY Zenon, <1>2, <1>5, <3>1
  <2> QED BY <1>2, <1>5, <2>1, <2>2 DEF Begins
<1>7. ASSUME l < e PROVE o[Len(p) + 1] = ESC /\ (Len(o) >= Len(p) + 2 => o[Len(p) + 2] # "\\")
  <2>1. w[l + 1] = ESC /\ (l + 2 <= Len(w) => w[l + 2] # "\\")
    BY <1>1, <1>2, <1>7, StageFront DEF e
  <2>2. Len(p) + 1 \in 1 .. e - k /\ k + (Len(p) + 1) = l + 1
    BY <1>2, <1>3, <1>7
  <2>3. o[Len(p) + 1] = ESC
    BY <1>5, <2>1, <2>2
  <2>4. ASSUME Len(o) >= Len(p) + 2 PROVE o[Len(p) + 2] # "\\"
    <3>1. Len(p) + 2 \in 1 .. e - k /\ k + (Len(p) + 2) = l + 2 /\ l + 2 <= Len(w)
      BY <1>2, <1>3, <1>5, <2>4 DEF e
    <3> QED BY <1>5, <2>1, <3>1
  <2> QED BY <2>3, <2>4
<1> QED BY Zenon, <1>2, <1>5, <1>6, <1>7 DEF Facing, e

(* When it waits it has drawn all. *)
LEMMA StandingEnd ==
  ASSUME NEW w, NEW G, NEW k, NEW u, NEW t, NEW o, Standing(w, G, k, u, t, o),
         NextSequence(o).kind = "none"
  PROVE  t = u
<1>1. Staged(w, G, u) /\ <<k, t>> \in G /\ o = Span(w, k, Len(w))
  BY DEF Standing
<1>2. IsList(w) /\ Onward(w, G, u, k, t)
  BY <1>1 DEF Staged
<1>3. k \in Nat /\ Len(w) \in Nat /\ k <= Len(w)
  BY <1>2 DEF Onward, IsList
<1>4. CASE k = Len(w)
  BY <1>2, <1>4 DEF Onward
<1>5. CASE k # Len(w)
  <2>1. PICK l, v, p : Facing(w, G, k, t, o, l, v, p)
    BY <1>3, <1>5, StandingFaces
  <2>2. /\ <<l, v>> \in G /\ l \in Nat /\ k < l /\ l <= Len(w) /\ Stage(p, t, v) /\ Begins(o, p)
        /\ Len(p) = l - k /\ Len(o) = Len(w) - k
        /\ l < Len(w) => o[Len(p) + 1] = ESC /\ (Len(o) >= Len(p) + 2 => o[Len(p) + 2] # "\\")
    BY <2>1 DEF Facing
  <2>3. ~Whole(p, t, v)
    BY <2>2 DEF Whole
  <2>4. Scrap(p) /\ v = t
    BY <2>2, <2>3 DEF Stage
  <2>5. Onward(w, G, u, l, v)
    BY <1>1, <2>2 DEF Staged
  <2>6. CASE l = Len(w)
    BY <2>4, <2>5, <2>6 DEF Onward
  <2>7. CASE l # Len(w)
    <3>1. l < Len(w) /\ Len(o) > Len(p)
      BY <1>3, <2>2, <2>7
    <3>2. Len(o) = Len(p) + 1
      BY <2>2, <2>4, <3>1 DEF Scrap
    <3>3. l + 1 = Len(w)
      BY <1>3, <2>2, <3>2
    <3>4a. PICK m, x, q : Behind(w, G, l, v, m, x, q)
      BY <1>1, <2>2, <3>1, StageAt
    <3>4. /\ <<m, x>> \in G /\ l \in Nat /\ m \in Nat /\ l < m /\ m <= Len(w) /\ Len(w) \in Nat
         /\ q = Span(w, l, m) /\ Stage(q, v, x)
         /\ IsList(q) /\ Len(q) = m - l /\ \A i \in 1 .. m - l : q[i] = w[l + i]
      BY <3>4a DEF Behind
    <3>5. m = Len(w) /\ Len(q) = 1
      BY <3>3, <3>4
    <3>6. ~Whole(q, v, x)
      BY <3>5 DEF Whole
    <3>7. x = v
      BY <3>4, <3>6 DEF Stage
    <3>8. Onward(w, G, u, m, x)
      BY <1>1, <3>4 DEF Staged
    <3>9. x = u
      BY <3>5, <3>8 DEF Onward
    <3> QED BY <2>4, <3>7, <3>9
  <2> QED BY <2>6, <2>7
<1> QED BY <1>4, <1>5

(* Otherwise it takes one stage. *)
LEMMA StandingNext ==
  ASSUME NEW w, NEW G, NEW k, NEW u, NEW t, NEW o, Standing(w, G, k, u, t, o),
         NEW n, n = NextSequence(o), n.kind # "none"
  PROVE  \E l : Standing(w, G, l, u, Obey(t, n.kind, SubSeq(o, 1, n.len)), SubSeq(o, n.len + 1, Len(o)))
<1>1. Staged(w, G, u) /\ <<k, t>> \in G /\ o = Span(w, k, Len(w))
  BY DEF Standing
<1>2. IsList(w) /\ Onward(w, G, u, k, t)
  BY <1>1 DEF Staged
<1>3. k \in Nat /\ Len(w) \in Nat /\ k <= Len(w)
  BY <1>2 DEF Onward, IsList
<1>4. k # Len(w)
  <2> SUFFICES ASSUME k = Len(w) PROVE FALSE
    OBVIOUS
  <2> DEFINE e == Len(w)
  <2>1. e \in Nat /\ e <= e /\ e <= Len(w) /\ e - e = 0
    BY <1>3
  <2> HIDE DEF e
  <2>2. IsList(Span(w, e, e)) /\ Len(Span(w, e, e)) = e - e
    BY <1>2, <2>1, SpanIs
  <2>3. IsList(o) /\ Len(o) = 0
    BY <1>1, <2>1, <2>2 DEF e
  <2>4. o = <<>>
    <3> DEFINE E == Range(o)
    <3>1. o \in Seq(E)
      BY <2>3 DEF IsList
    <3> HIDE DEF E
    <3> QED BY <2>3, <3>1
  <2>5. NextSequence(o) = Piece("none", 0)
    BY <2>4 DEF NextSequence, Piece
  <2> QED BY <2>5 DEF Piece
<1>5. PICK l, v, p : Facing(w, G, k, t, o, l, v, p)
  BY <1>3, <1>4, StandingFaces
<1>6. /\ <<l, v>> \in G /\ l \in Nat /\ k < l /\ l <= Len(w) /\ Stage(p, t, v) /\ Begins(o, p)
      /\ p = Span(w, k, l) /\ Len(p) = l - k /\ Len(o) = Len(w) - k
      /\ l < Len(w) => o[Len(p) + 1] = ESC /\ (Len(o) >= Len(p) + 2 => o[Len(p) + 2] # "\\")
  BY <1>5 DEF Facing
<1>7. n.len = Len(p) /\ Obey(t, n.kind, p) = v
  <2>1. CASE Whole(p, t, v)
    BY <1>6, <2>1 DEF Whole
  <2>2. CASE Scrap(p) /\ v = t
    <3>1. Len(o) # Len(p)
      BY <1>6, <2>2 DEF Scrap
    <3>2. l < Len(w) /\ Len(o) > Len(p)
      BY <1>3, <1>6, <3>1
    <3>3. n.kind = "text" /\ n.len = Len(p)
      BY Zenon, <1>6, <2>2, <3>2 DEF Scrap
    <3>4. Obey(t, n.kind, p) = t
      BY <3>3 DEF Obey
    <3> QED BY <2>2, <3>3, <3>4
  <2> QED BY <1>6, <2>1, <2>2 DEF Stage
<1>8. SubSeq(o, 1, n.len) = p
  <2> DEFINE a == 0
             b == Len(p)
  <2>1. IsList(o) /\ IsList(p) /\ Len(p) <= Len(o) /\ \A i \in 1 .. Len(p) : o[i] = p[i]
    BY <1>6 DEF Begins
  <2>2. a \in Nat /\ b \in Nat /\ a <= b /\ b <= Len(o) /\ Len(p) = b - a
    BY <1>3, <1>6, <2>1
  <2>3. \A i \in 1 .. b - a : p[i] = o[a + i]
    BY <2>1, <2>2
  <2>4. a + 1 = 1
    OBVIOUS
  <2> HIDE DEF a, b
  <2>5. p = Span(o, a, b)
    BY <2>1, <2>2, <2>3, SpanSame
  <2> QED BY <1>7, <2>4, <2>5 DEF Span, b
<1>9. SubSeq(o, n.len + 1, Len(o)) = Span(w, l, Len(w))
  <2> DEFINE e == Len(w)
             m == n.len
  <2>1. IsList(w) /\ k \in Nat /\ e \in Nat /\ k <= e /\ e <= Len(w)
    BY <1>2, <1>3
  <2>2. m \in Nat /\ m <= e - k /\ k + m = l
    BY <1>3, <1>6, <1>7
  <2>3. o = Span(w, k, e)
    BY <1>1
  <2> HIDE DEF e, m
  <2>4. SubSeq(Span(w, k, e), m + 1, Len(Span(w, k, e))) = Span(w, k + m, e)
    BY Zenon, <2>1, <2>2, SpanRest
  <2>5. SubSeq(o, m + 1, Len(o)) = Span(w, l, e)
    BY <2>2, <2>3, <2>4
  <2> QED BY <2>5 DEF e, m
<1>10. <<l, Obey(t, n.kind, SubSeq(o, 1, n.len))>> \in G
  BY Zenon, <1>6, <1>7, <1>8
<1> QED BY Zenon, <1>1, <1>9, <1>10 DEF Standing

-----------------------------------------------------------------------------
(* Whole sequences, and scraps of them.                                     *)

(* The sequences the encoders write, as the terminal reads them. *)
LEMMA WholeCsi ==
  ASSUME NEW b, CsiBody(b), NEW p, p = CSI \o b, NEW t, NEW u, Obey(t, "csi", p) = u
  PROVE  Whole(p, t, u)
<1>1. \A k, n : Piece(k, n).kind = k /\ Piece(k, n).len = n
  BY DEF Piece
<1>2. InTurn(CSI, b, p) /\ Len(CSI) = 2 /\ CSI[1] = ESC /\ CSI[2] = "[" /\ Len(b) >= 1
  <2>1. IsList(CSI) /\ Len(CSI) = 2
    BY FrameSize DEF Size
  <2>2. CSI[1] = ESC /\ CSI[2] = "["
    BY DEF CSI
  <2>3. IsList(b) /\ Len(b) >= 1
    BY DEF CsiBody
  <2> QED BY <2>1, <2>2, <2>3, ListsJoined
<1>3. IsList(p) /\ Len(p) = 2 + Len(b) /\ Len(b) \in Nat /\ p[1] = ESC /\ p[2] = "["
  BY <1>2 DEF InTurn
<1>4. ASSUME NEW s, Begins(s, p)
      PROVE  /\ NextSequence(s).kind # "none" /\ NextSequence(s).len = Len(p)
             /\ Obey(t, NextSequence(s).kind, p) = u
  <2>1. NextSequence(s) = Piece("csi", 2 + Len(b))
    <3>1. Begins(s, CSI \o b)
      BY <1>4
    <3> QED BY <3>1, CsiNext
  <2>2. NextSequence(s).kind = "csi" /\ NextSequence(s).len = Len(p)
    BY <1>1, <1>3, <2>1
  <2> QED BY <2>2
<1>5. "[" # "\\"
  OBVIOUS
<1>6. Len(p) >= 2
  BY <1>3
<1> QED BY <1>3, <1>4, <1>5, <1>6 DEF Whole

(* An OSC with a body that cannot end it is whole. *)
LEMMA WholeOsc ==
  ASSUME NEW b, OscBody(b), NEW p, p = (OSC \o b) \o ST, NEW t, NEW u, Obey(t, "osc", p) = u
  PROVE  Whole(p, t, u)
<1>1. \A k, n : Piece(k, n).kind = k /\ Piece(k, n).len = n
  BY DEF Piece
<1>2. AllInTurn(OSC, b, ST, p) /\ Len(OSC) = 2 /\ OSC[1] = ESC /\ OSC[2] = "]" /\ Len(ST) = 2
  <2>1. IsList(OSC) /\ Len(OSC) = 2 /\ IsList(ST) /\ Len(ST) = 2
    BY FrameSize DEF Size
  <2>2. OSC[1] = ESC /\ OSC[2] = "]"
    BY DEF OSC
  <2>3. IsList(b)
    BY DEF OscBody
  <2> QED BY <2>1, <2>2, <2>3, ThreeJoined
<1>0. Len(b) \in Nat
  BY DEF OscBody, IsList
<1>3. IsList(p) /\ Len(p) = 4 + Len(b) /\ p[1] = ESC /\ p[2] = "]"
  BY <1>0, <1>2 DEF AllInTurn
<1>4. ASSUME NEW s, Begins(s, p)
      PROVE  /\ NextSequence(s).kind # "none" /\ NextSequence(s).len = Len(p)
             /\ Obey(t, NextSequence(s).kind, p) = u
  <2>1. NextSequence(s) = Piece("osc", 4 + Len(b))
    <3>1. Begins(s, (OSC \o b) \o ST)
      BY <1>4
    <3> QED BY <3>1, OscNext
  <2>2. NextSequence(s).kind = "osc" /\ NextSequence(s).len = Len(p)
    BY <1>1, <1>3, <2>1
  <2> QED BY <2>2
<1>5. "]" # "\\"
  OBVIOUS
<1>6. Len(p) >= 2
  BY <1>0, <1>3
<1> QED BY <1>3, <1>4, <1>5, <1>6 DEF Whole

(* The two-byte sequences are whole. *)
LEMMA WholeEsc ==
  ASSUME NEW x \in {"7", "8"}, NEW p, p = <<ESC, x>>, NEW t, NEW u, Obey(t, "esc", p) = u
  PROVE  Whole(p, t, u)
<1>1. \A k, n : Piece(k, n).kind = k /\ Piece(k, n).len = n
  BY DEF Piece
<1>2. IsList(p) /\ Len(p) = 2 /\ p[1] = ESC /\ p[2] = x
  BY ListLiteral DEF Literals, Size
<1>3. x # "\\"
  OBVIOUS
<1>4. ASSUME NEW s, Begins(s, p)
      PROVE  /\ NextSequence(s).kind # "none" /\ NextSequence(s).len = Len(p)
             /\ Obey(t, NextSequence(s).kind, p) = u
  <2>1. IsList(s) /\ Len(s) >= 2 /\ s[1] = ESC /\ s[2] = x /\ Len(s) \in Nat
    BY <1>2, <1>4 DEF Begins, IsList
  <2>2. NextSequence(s) = Piece("esc", 2)
    <3>1. Len(s) > 1
      BY <2>1
    <3> QED BY <2>1, <3>1, NextCases
  <2>3. NextSequence(s).kind = "esc" /\ NextSequence(s).len = 2
    BY <1>1, <2>2
  <2> QED BY <1>2, <2>3
<1> QED BY <1>2, <1>3, <1>4 DEF Whole

(* What a write leaves that fails within a sequence. *)
LEMMA ScrapEsc == Scrap(<<ESC>>)
<1> DEFINE p == <<ESC>>
<1>1. \A k, n : Piece(k, n).kind = k /\ Piece(k, n).len = n
  BY DEF Piece
<1>2. IsList(p) /\ Len(p) = 1 /\ p[1] = ESC
  BY ListLiteral DEF Literals, Size
<1>3. ASSUME NEW s, Begins(s, p), Len(s) = Len(p) PROVE NextSequence(s).kind = "none"
  <2>1. IsList(s) /\ Len(s) = 1 /\ s[1] = ESC
    BY <1>2, <1>3 DEF Begins
  <2>2. \A i \in 1 .. Len(s) : s[i] = p[i]
    <3>1. \A i \in 1 .. Len(p) : s[i] = p[i]
      BY <1>3 DEF Begins
    <3> QED BY <1>3, <3>1
  <2>3. s = p
    <3> HIDE DEF p
    <3> QED BY <1>2, <1>3, <2>1, <2>2, SameList
  <2>4. NextSequence(s) = Piece("none", 0)
    BY <2>3 DEF NextSequence, Piece
  <2> QED BY <1>1, <2>4
<1>4. ASSUME NEW s, Begins(s, p), Len(s) > Len(p), s[Len(p) + 1] = ESC
      PROVE  NextSequence(s).kind = "text" /\ NextSequence(s).len = Len(p)
  <2>1. IsList(s) /\ Len(s) > 1 /\ s[1] = ESC /\ s[2] = ESC
    BY <1>2, <1>4 DEF Begins
  <2>2. s[2] \notin {"7", "8", "[", "]"}
    BY <2>1 DEF ESC
  <2>3. NextSequence(s) = Piece("text", 1)
    BY <2>1, <2>2, NextCases
  <2> QED BY <1>1, <1>2, <2>3
<1> HIDE DEF p
<1>5. Scrap(p)
  BY <1>2, <1>3, <1>4 DEF Scrap
<1> QED BY <1>5 DEF p

(* A CSI cut before its final byte is a scrap. *)
LEMMA ScrapCsi ==
  ASSUME NEW p, IsList(p), Len(p) >= 2, p[1] = ESC, p[2] = "[",
         \A i \in 3 .. Len(p) : p[i] # ESC /\ ~IsCsiFinal(p[i])
  PROVE  Scrap(p)
<1>1. \A k, n : Piece(k, n).kind = k /\ Piece(k, n).len = n
  BY DEF Piece
<1>2. ASSUME NEW s, Begins(s, p)
      PROVE  /\ Len(s) = Len(p) => NextSequence(s).kind = "none"
             /\ Len(s) > Len(p) /\ s[Len(p) + 1] = ESC =>
                  NextSequence(s).kind = "text" /\ NextSequence(s).len = Len(p)
  <2> DEFINE a == FirstStop(s)
             n == Len(p)
  <2>1. /\ IsList(s) /\ Len(s) \in Nat /\ n \in Nat /\ n <= Len(s) /\ Len(s) > 1
        /\ \A i \in 1 .. n : s[i] = p[i]
    BY <1>2 DEF Begins, IsList
  <2>2. s[1] = ESC /\ s[2] = "["
    BY <2>1
  <2>3. FirstPlace(s, a, StopPlaces(s))
    BY <2>1, FirstPlaces
  <2>4. ASSUME NEW i \in StopPlaces(s) PROVE i > n
    <3>1. i \in 3 .. Len(s) /\ (s[i] = ESC \/ IsCsiFinal(s[i]))
      BY DEF StopPlaces
    <3>2. CASE i <= n
      <4>1. i \in 3 .. n /\ i \in 1 .. n
        BY <2>1, <3>1, <3>2
      <4>2. s[i] = p[i]
        BY <2>1, <4>1
      <4> QED BY <3>1, <4>1, <4>2
    <3> QED BY <2>1, <3>1, <3>2
  <2>5. NextSequence(s) = IF a = 0 THEN Piece("none", 0)
                          ELSE IF s[a] = ESC THEN Piece("text", a - 1) ELSE Piece("csi", a)
    BY <2>1, <2>2, NextCases
  <2> HIDE DEF a
  <2>6. ASSUME Len(s) = n PROVE NextSequence(s).kind = "none"
    <3>1. a = 0
      BY <2>1, <2>3, <2>4, <2>6 DEF FirstPlace
    <3> QED BY <1>1, <2>5, <3>1
  <2>7. ASSUME Len(s) > n, s[n + 1] = ESC
        PROVE  NextSequence(s).kind = "text" /\ NextSequence(s).len = n
    <3>1. n + 1 \in 3 .. Len(s)
      BY <2>1, <2>7
    <3>2. n + 1 \in StopPlaces(s)
      BY <2>7, <3>1 DEF StopPlaces
    <3>3. a # 0 /\ a \in 3 .. Len(s) /\ a <= n + 1 /\ a > n
      BY <2>3, <2>4, <3>2 DEF FirstPlace
    <3>4. a = n + 1
      BY <2>1, <3>3
    <3>5. a - 1 = n /\ s[a] = ESC
      BY <2>1, <2>7, <3>4
    <3>6. NextSequence(s) = Piece("text", n)
      BY <2>5, <3>3, <3>5
    <3> QED BY <1>1, <3>6
  <2> QED BY <2>6, <2>7
<1>3. p[2] # "\\"
  OBVIOUS
<1>4. Len(p) >= 1
  BY DEF IsList
<1> QED BY <1>2, <1>3, <1>4 DEF Scrap

(* An OSC cut before its terminator is a scrap. *)
LEMMA ScrapOsc ==
  ASSUME NEW p, IsList(p), Len(p) >= 2, p[1] = ESC, p[2] = "]",
         \A i \in 3 .. Len(p) : p[i] # ESC
  PROVE  Scrap(p)
<1>1. \A k, n : Piece(k, n).kind = k /\ Piece(k, n).len = n
  BY DEF Piece
<1>2. ASSUME NEW s, Begins(s, p)
      PROVE  /\ Len(s) = Len(p) => NextSequence(s).kind = "none"
             /\ Len(s) > Len(p) /\ s[Len(p) + 1] = ESC /\ (Len(s) >= Len(p) + 2 => s[Len(p) + 2] # "\\") =>
                  \/ NextSequence(s).kind = "none" /\ Len(s) = Len(p) + 1
                  \/ NextSequence(s).kind = "text" /\ NextSequence(s).len = Len(p)
  <2> DEFINE a == FirstEsc(s)
             n == Len(p)
  <2>1. /\ IsList(s) /\ Len(s) \in Nat /\ n \in Nat /\ n <= Len(s) /\ Len(s) > 1
        /\ \A i \in 1 .. n : s[i] = p[i]
    BY <1>2 DEF Begins, IsList
  <2>2. s[1] = ESC /\ s[2] = "]"
    BY <2>1
  <2>3. FirstPlace(s, a, EscPlaces(s))
    BY <2>1, FirstPlaces
  <2>4. ASSUME NEW i \in EscPlaces(s) PROVE i > n
    <3>1. i \in 3 .. Len(s) /\ s[i] = ESC
      BY DEF EscPlaces
    <3>2. CASE i <= n
      <4>1. i \in 3 .. n /\ i \in 1 .. n
        BY <2>1, <3>1, <3>2
      <4>2. s[i] = p[i]
        BY <2>1, <4>1
      <4> QED BY <3>1, <4>1, <4>2
    <3> QED BY <2>1, <3>1, <3>2
  <2>5. NextSequence(s) = IF a = 0 \/ a = Len(s) THEN Piece("none", 0)
                          ELSE IF s[a + 1] = "\\" THEN Piece("osc", a + 1) ELSE Piece("text", a - 1)
    BY <2>1, <2>2, NextCases
  <2> HIDE DEF a
  <2>6. ASSUME Len(s) = n PROVE NextSequence(s).kind = "none"
    <3>1. a = 0
      BY <2>1, <2>3, <2>4, <2>6 DEF FirstPlace
    <3> QED BY <1>1, <2>5, <3>1
  <2>7. ASSUME Len(s) > n, s[n + 1] = ESC, Len(s) >= n + 2 => s[n + 2] # "\\"
        PROVE  \/ NextSequence(s).kind = "none" /\ Len(s) = n + 1
               \/ NextSequence(s).kind = "text" /\ NextSequence(s).len = n
    <3>1. n + 1 \in 3 .. Len(s)
      BY <2>1, <2>7
    <3>2. n + 1 \in EscPlaces(s)
      BY <2>7, <3>1 DEF EscPlaces
    <3>3. a # 0 /\ a \in 3 .. Len(s) /\ a <= n + 1 /\ a > n
      BY <2>3, <2>4, <3>2 DEF FirstPlace
    <3>4. a = n + 1 /\ a - 1 = n /\ a + 1 = n + 2
      BY <2>1, <3>3
    <3>5. CASE Len(s) = n + 1
      <4>1. NextSequence(s) = Piece("none", 0)
        BY <2>5, <3>4, <3>5
      <4> QED BY <1>1, <3>5, <4>1
    <3>6. CASE Len(s) # n + 1
      <4>1. s[a + 1] # "\\" /\ a # Len(s)
        BY <2>1, <2>7, <3>4, <3>6
      <4>2. NextSequence(s) = Piece("text", n)
        BY <2>5, <3>3, <3>4, <4>1
      <4> QED BY <1>1, <4>2
    <3> QED BY <3>5, <3>6
  <2> QED BY <2>6, <2>7
<1>3. p[2] # "\\"
  OBVIOUS
<1>4. Len(p) >= 1
  BY DEF IsList
<1> QED BY <1>2, <1>3, <1>4 DEF Scrap

-----------------------------------------------------------------------------
(* An item cut short.                                                       *)

(* What an item is written as: nothing, or one sequence. *)
Shape(x) ==
  \/ x = <<>>
  \/ \E y \in {"7", "8"} : x = <<ESC, y>>
  \/ \E b : CsiBody(b) /\ x = CSI \o b
  \/ \E b : OscBody(b) /\ x = (OSC \o b) \o ST

Torn(x, k) ==
  \/ Scrap(Span(x, 0, k))
  \/ /\ k > 1 /\ Scrap(Span(x, 0, k - 1))
     /\ Span(x, 0, k) = Append(Span(x, 0, k - 1), ESC)

(* The front of a list. *)
LEMMA FrontIs ==
  ASSUME NEW x, IsList(x), NEW k \in Nat, k <= Len(x)
  PROVE  /\ IsList(Span(x, 0, k)) /\ Len(Span(x, 0, k)) = k
         /\ \A i \in 1 .. k : Span(x, 0, k)[i] = x[i]
<1> DEFINE a == 0
<1>1. a \in Nat /\ a <= k /\ k - a = k /\ \A i \in 1 .. k : a + i = i
  OBVIOUS
<1> HIDE DEF a
<1>2. IsList(Span(x, a, k)) /\ Len(Span(x, a, k)) = k - a /\ \A i \in 1 .. k - a : Span(x, a, k)[i] = x[a + i]
  BY Zenon, <1>1, SpanIs
<1> QED BY <1>1, <1>2 DEF a

(* The front of a sequence is a scrap, or a scrap and an ESC. *)
LEMMA TornFirst ==
  ASSUME NEW x, IsList(x), Len(x) >= 1, x[1] = ESC
  PROVE  Torn(x, 1)
<1> DEFINE p == Span(x, 0, 1)
<1>1. IsList(p) /\ Len(p) = 1 /\ p[1] = ESC
  <2> DEFINE k == 1
  <2>1. k \in Nat /\ k <= Len(x) /\ 1 \in 1 .. k
    OBVIOUS
  <2> HIDE DEF k
  <2>2. /\ IsList(Span(x, 0, k)) /\ Len(Span(x, 0, k)) = k
        /\ \A i \in 1 .. k : Span(x, 0, k)[i] = x[i]
    BY <2>1, FrontIs
  <2>3. IsList(Span(x, 0, k)) /\ Len(Span(x, 0, k)) = k /\ Span(x, 0, k)[1] = ESC
    BY <2>1, <2>2
  <2> QED BY <2>3 DEF k
<1>2. IsList(<<ESC>>) /\ Len(<<ESC>>) = 1 /\ <<ESC>>[1] = ESC
  BY ListLiteral DEF Literals, Size
<1> HIDE DEF p
<1>3. p = <<ESC>>
  <2> DEFINE q == <<ESC>>
  <2>1. IsList(q) /\ Len(p) = Len(q) /\ \A i \in 1 .. Len(p) : p[i] = q[i]
    BY <1>1, <1>2
  <2> HIDE DEF q
  <2>2. p = q
    BY <1>1, <2>1, SameList
  <2> QED BY <2>2 DEF q
<1>4. Scrap(p)
  BY <1>3, ScrapEsc
<1> QED BY <1>4 DEF Torn, p

(* A CSI cut anywhere is torn. *)
LEMMA TornCsi ==
  ASSUME NEW b, CsiBody(b), NEW x, x = CSI \o b, NEW k \in Nat, k >= 1, k < Len(x)
  PROVE  Torn(x, k)
<1>1. /\ IsList(b) /\ Len(b) >= 1 /\ Len(b) \in Nat
      /\ \A i \in 1 .. Len(b) - 1 : b[i] # ESC /\ ~IsCsiFinal(b[i])
  BY DEF CsiBody, IsList
<1>2. InTurn(CSI, b, x) /\ Len(CSI) = 2 /\ CSI[1] = ESC /\ CSI[2] = "["
  <2>1. IsList(CSI) /\ Len(CSI) = 2
    BY FrameSize DEF Size
  <2>2. CSI[1] = ESC /\ CSI[2] = "["
    BY DEF CSI
  <2> QED BY <1>1, <2>1, <2>2, ListsJoined
<1>3. /\ IsList(x) /\ Len(x) = 2 + Len(b) /\ x[1] = ESC /\ x[2] = "["
      /\ \A i \in 1 .. Len(b) : x[2 + i] = b[i]
  BY <1>2 DEF InTurn
<1>4. CASE k = 1
  <2>1. Len(x) >= 1
    BY <1>1, <1>3
  <2> QED BY Zenon, <1>3, <1>4, <2>1, TornFirst
<1>5. CASE k # 1
  <2> DEFINE p == Span(x, 0, k)
  <2>1. IsList(p) /\ Len(p) = k /\ \A i \in 1 .. k : p[i] = x[i]
    <3>1. k <= Len(x)
      BY <1>1, <1>3
    <3> QED BY Zenon, <1>3, <3>1, FrontIs
  <2>2. k >= 2 /\ 1 \in 1 .. k /\ 2 \in 1 .. k
    BY <1>5
  <2>3. p[1] = ESC /\ p[2] = "["
    BY <1>3, <2>1, <2>2
  <2>4. ASSUME NEW i \in 3 .. k PROVE p[i] # ESC /\ ~IsCsiFinal(p[i])
    <3> DEFINE j == i - 2
    <3>1. j \in 1 .. Len(b) - 1 /\ j \in 1 .. Len(b) /\ 2 + j = i /\ i \in 1 .. k
      BY <1>1, <1>3, <2>4
    <3> HIDE DEF j, p
    <3> QED BY SMTT(40), <1>1, <1>3, <2>1, <3>1
  <2> HIDE DEF p
  <2>5. Scrap(p)
    <3>1. /\ IsList(p) /\ Len(p) >= 2 /\ p[1] = ESC /\ p[2] = "["
          /\ \A i \in 3 .. Len(p) : p[i] # ESC /\ ~IsCsiFinal(p[i])
      BY <2>1, <2>2, <2>3, <2>4
    <3> QED BY <3>1, ScrapCsi
  <2> QED BY <2>5 DEF Torn, p
<1> QED BY <1>4, <1>5

(* An OSC cut anywhere is torn, within its terminator too. *)
LEMMA TornOsc ==
  ASSUME NEW b, OscBody(b), NEW x, x = (OSC \o b) \o ST, NEW k \in Nat, k >= 1, k < Len(x)
  PROVE  Torn(x, k)
<1>1. IsList(b) /\ Len(b) \in Nat /\ \A i \in 1 .. Len(b) : b[i] # ESC
  BY DEF OscBody, IsList
<1> DEFINE n == Len(b)
<1>2. AllInTurn(OSC, b, ST, x) /\ Len(OSC) = 2 /\ OSC[1] = ESC /\ OSC[2] = "]"
      /\ Len(ST) = 2 /\ ST[1] = ESC
  <2>1. IsList(OSC) /\ Len(OSC) = 2 /\ IsList(ST) /\ Len(ST) = 2
    BY FrameSize DEF Size
  <2>2. OSC[1] = ESC /\ OSC[2] = "]" /\ ST[1] = ESC
    BY DEF OSC, ST
  <2> QED BY <1>1, <2>1, <2>2, ThreeJoined
<1>3. /\ IsList(x) /\ Len(x) = 4 + n /\ x[1] = ESC /\ x[2] = "]" /\ x[3 + n] = ESC
      /\ \A i \in 1 .. n : x[2 + i] = b[i]
  <2>1. /\ IsList(x) /\ Len(x) = 2 + n + 2 /\ \A i \in 1 .. 2 : x[i] = OSC[i]
        /\ \A i \in 1 .. n : x[2 + i] = b[i]
        /\ \A i \in 1 .. 2 : x[2 + n + i] = ST[i]
    BY Zenon, <1>2 DEF AllInTurn
  <2>2. 1 \in 1 .. 2 /\ 2 \in 1 .. 2 /\ 2 + n + 1 = 3 + n
    BY <1>1
  <2>3. x[1] = OSC[1] /\ x[2] = OSC[2] /\ x[2 + n + 1] = ST[1]
    BY Zenon, <2>1, <2>2
  <2> QED BY <1>1, <1>2, <2>1, <2>2, <2>3
<1> HIDE DEF n
<1>0. n \in Nat
  BY <1>1 DEF n
<1>6. ASSUME NEW m \in Nat, m >= 2, m <= 2 + n PROVE Scrap(Span(x, 0, m))
  <2> DEFINE p == Span(x, 0, m)
  <2>1. IsList(p) /\ Len(p) = m /\ \A i \in 1 .. m : p[i] = x[i]
    <3>1. m <= Len(x)
      BY <1>0, <1>3, <1>6
    <3> QED BY Zenon, <1>3, <3>1, FrontIs
  <2>2. 1 \in 1 .. m /\ 2 \in 1 .. m
    BY <1>6
  <2>3. p[1] = ESC /\ p[2] = "]"
    BY Zenon, <1>3, <2>1, <2>2
  <2>4. ASSUME NEW i \in 3 .. m PROVE p[i] # ESC
    <3> DEFINE j == i - 2
    <3>1. j \in 1 .. n /\ 2 + j = i /\ i \in 1 .. m
      BY <1>0, <1>6, <2>4
    <3> HIDE DEF j, p
    <3> QED BY Zenon, <1>1, <1>3, <2>1, <3>1 DEF n
  <2> HIDE DEF p
  <2>5. /\ IsList(p) /\ Len(p) >= 2 /\ p[1] = ESC /\ p[2] = "]"
        /\ \A i \in 3 .. Len(p) : p[i] # ESC
    BY <1>6, <2>1, <2>3, <2>4
  <2> QED BY <2>5, ScrapOsc DEF p
<1>4. CASE k = 1
  <2>1. Len(x) >= 1
    BY <1>0, <1>3
  <2> QED BY Zenon, <1>3, <1>4, <2>1, TornFirst
<1>5. CASE k # 1 /\ k <= 2 + n
  <2>1. k >= 2
    BY <1>5
  <2>2. Scrap(Span(x, 0, k))
    BY <1>5, <1>6, <2>1
  <2> QED BY <2>2 DEF Torn
<1>7. CASE k > 2 + n
  <2> DEFINE m == 2 + n
  <2>1. m \in Nat /\ m >= 2 /\ k = m + 1 /\ k - 1 = m /\ m < Len(x) /\ m + 1 = 3 + n /\ k > 1
    BY <1>0, <1>3, <1>7
  <2>2. Scrap(Span(x, 0, m))
    BY <1>6, <2>1
  <2> DEFINE a == 0
  <2>3. a \in Nat /\ a <= m
    BY <2>1
  <2> HIDE DEF m, a
  <2>4. Append(Span(x, a, m), x[m + 1]) = Span(x, a, m + 1)
    BY Zenon, <1>3, <2>1, <2>3, SpanNext
  <2>5. Span(x, 0, k) = Append(Span(x, 0, k - 1), ESC)
    BY Zenon, <1>3, <2>1, <2>4 DEF a
  <2> QED BY <2>1, <2>2, <2>5 DEF Torn
<1>8. k <= 2 + n \/ k > 2 + n
  BY <1>0
<1> QED BY <1>4, <1>5, <1>7, <1>8

(* An item cut anywhere within is torn. *)
LEMMA TornShape ==
  ASSUME NEW x, IsList(x), Shape(x), NEW k \in Nat, k >= 1, k < Len(x)
  PROVE  Torn(x, k)
<1>1. CASE x = <<>>
  <2>1. Len(x) = 0
    BY <1>1
  <2> QED BY <2>1
<1>2. CASE \E y \in {"7", "8"} : x = <<ESC, y>>
  <2>1. Len(x) = 2 /\ x[1] = ESC
    BY <1>2
  <2>2. k = 1 /\ Len(x) >= 1
    BY <2>1
  <2> QED BY <2>1, <2>2, TornFirst
<1>3. CASE \E b : CsiBody(b) /\ x = CSI \o b
  BY Zenon, <1>3, TornCsi
<1>4. CASE \E b : OscBody(b) /\ x = (OSC \o b) \o ST
  BY Zenon, <1>4, TornOsc
<1> QED BY Zenon, <1>1, <1>2, <1>3, <1>4 DEF Shape

(* A write that fails leaves nothing the terminal would obey. *)
LEMMA StandingTorn ==
  ASSUME NEW w, NEW G, NEW j, NEW u, NEW t, NEW o, Standing(w, G, j, u, t, o), IsList(o),
         NEW x, IsList(x), Shape(x), NEW k \in Nat, k < Len(x)
  PROVE  \E z, H : Standing(z, H, j, u, t, o \o SubSeq(x, 1, k))
<1> DEFINE p == Span(x, 0, k)
<1>1. SubSeq(x, 1, k) = p
  <2>1. 0 + 1 = 1
    OBVIOUS
  <2> QED BY <2>1 DEF Span
<1>2. IsList(p) /\ Len(p) = k
  <2>1. k <= Len(x)
    BY DEF IsList
  <2> QED BY <2>1, FrontIs
<1>3. CASE k = 0
  <2>1. p = <<>>
    <3> DEFINE E == Range(p)
    <3>1. p \in Seq(E)
      BY <1>2 DEF IsList
    <3> HIDE DEF E, p
    <3> QED BY <1>2, <1>3, <3>1
  <2>2. o \o <<>> = o
    <3> DEFINE E == Range(o)
    <3>1. o \in Seq(E)
      BY DEF IsList
    <3> HIDE DEF E
    <3> QED BY <3>1, ConcatEmptySeq
  <2>3. o \o SubSeq(x, 1, k) = o
    BY Zenon, <1>1, <2>1, <2>2
  <2> QED BY Zenon, <2>3
<1>4. CASE k # 0
  <2>1. Torn(x, k)
    <3>1. k >= 1
      BY <1>4
    <3> QED BY <3>1, TornShape
  <2>2. CASE Scrap(p)
    <3>1. Stage(p, u, u)
      BY <2>2 DEF Stage
    <3> HIDE DEF p
    <3>2. \E z, H : Standing(z, H, j, u, t, o \o p)
      BY <3>1, StandingOn
    <3> QED BY Zenon, <1>1, <3>2
  <2>3. CASE k > 1 /\ Scrap(Span(x, 0, k - 1)) /\ p = Append(Span(x, 0, k - 1), ESC)
    <3> DEFINE q == Span(x, 0, k - 1)
               e == <<ESC>>
    <3>1. Stage(q, u, u) /\ Stage(e, u, u)
      BY <2>3, ScrapEsc DEF Stage
    <3>2. IsList(q)
      BY <2>3 DEF Scrap
    <3>3. p = q \o e
      <4> DEFINE E == Range(q) \cup {ESC}
      <4>1. q \in Seq(E)
        BY <3>2, ListTyped
      <4>2. ESC \in E /\ p = Append(q, ESC)
        BY <2>3
      <4> HIDE DEF q, E, p
      <4>3. Append(q, ESC) = q \o <<ESC>>
        BY <4>1, <4>2
      <4> QED BY <4>2, <4>3
    <3>4. (o \o q) \o e = o \o (q \o e)
      <4> DEFINE E == (Range(q) \cup Range(o)) \cup {ESC}
      <4>1. q \in Seq(E) /\ o \in Seq(E)
        BY <3>2, ListTyped
      <4>2. e \in Seq(E)
        OBVIOUS
      <4> HIDE DEF q, e, E
      <4> QED BY <4>1, <4>2, ConcatAssociative
    <3> HIDE DEF q, e, p
    <3>5. PICK z, H : Standing(z, H, j, u, t, o \o q)
      BY <3>1, StandingOn
    <3>6. \E y, I : Standing(y, I, j, u, t, (o \o q) \o e)
      BY <3>1, <3>5, StandingOn
    <3> QED BY Zenon, <1>1, <3>3, <3>4, <3>6
  <2> QED BY <2>1, <2>2, <2>3 DEF Torn
<1> QED BY <1>3, <1>4

-----------------------------------------------------------------------------
(* Splitting a text at the semicolons.                                      *)

(* The last part grows by a byte. *)
Longer(p, b) == [p EXCEPT ![Len(p)] = Append(@, b)]

(* Longer puts the byte in the last part and leaves the others. *)
LEMMA LongerIs ==
  ASSUME NEW p, IsList(p), Len(p) >= 1, NEW b
  PROVE  /\ IsList(Longer(p, b)) /\ Len(Longer(p, b)) = Len(p)
         /\ \A i \in 1 .. Len(p) : Longer(p, b)[i] = IF i = Len(p) THEN Append(p[i], b) ELSE p[i]
<1> DEFINE E == Range(p) \cup {Append(p[Len(p)], b)}
           x == Append(p[Len(p)], b)
           n == Len(p)
           q == [p EXCEPT ![n] = x]
<1>1. p \in Seq(E) /\ x \in E /\ n \in Nat /\ n \in 1 .. n
  BY ListTyped DEF IsList
<1>2. Longer(p, b) = q
  BY DEF Longer
<1>4. Len(p) = n
  OBVIOUS
<1> HIDE DEF E, x, n
<1>3. q \in Seq(E) /\ Len(q) = n /\ \A i \in 1 .. n : q[i] = IF i = n THEN x ELSE p[i]
  BY <1>1, <1>4
<1> HIDE DEF q
<1>5. IsList(q)
  BY <1>3, ListIn
<1>6. \A i \in 1 .. n : q[i] = IF i = n THEN Append(p[i], b) ELSE p[i]
  BY <1>3 DEF x, n
<1> QED BY <1>2, <1>3, <1>5, <1>6 DEF n

(* It is the same part in a longer list. *)
LEMMA LongerCat ==
  ASSUME NEW x, IsList(x), NEW p, IsList(p), Len(p) >= 1, NEW b
  PROVE  Longer(x \o p, b) = x \o Longer(p, b)
<1> DEFINE q == x \o p
           r == Longer(p, b)
           s == x \o r
           u == Longer(q, b)
           n == Len(p)
           k == Len(x)
<1>1. IsList(r) /\ Len(r) = n /\ \A i \in 1 .. n : r[i] = IF i = n THEN Append(p[i], b) ELSE p[i]
  BY LongerIs
<1>2. InTurn(x, p, q)
  BY ListsJoined
<1>3. IsList(q) /\ k \in Nat /\ n \in Nat /\ Len(q) = k + n
      /\ (\A i \in 1 .. k : q[i] = x[i]) /\ (\A i \in 1 .. n : q[k + i] = p[i])
  BY <1>2 DEF InTurn
<1>4. InTurn(x, r, s)
  <2> HIDE DEF r
  <2> QED BY <1>1, ListsJoined
<1>5. IsList(s) /\ Len(s) = k + n
      /\ (\A i \in 1 .. k : s[i] = x[i]) /\ (\A i \in 1 .. n : s[k + i] = r[i])
  BY <1>1, <1>4 DEF InTurn
<1>6. IsList(u) /\ Len(u) = Len(q) /\ \A i \in 1 .. Len(q) : u[i] = IF i = Len(q) THEN Append(q[i], b) ELSE q[i]
  <2>1. Len(q) >= 1
    BY <1>3
  <2> HIDE DEF q
  <2> QED BY Zenon, <1>3, <2>1, LongerIs
<1>8. n >= 1
  OBVIOUS
<1> HIDE DEF q, r, s, u, n, k
<1>7. ASSUME NEW i \in 1 .. Len(u) PROVE u[i] = s[i]
  <2>1. CASE i <= k
    <3>1. i \in 1 .. k /\ i # Len(q) /\ i \in 1 .. Len(q)
      BY <1>3, <1>6, <1>7, <1>8, <2>1
    <3> QED BY <1>3, <1>5, <1>6, <3>1
  <2>2. CASE i > k
    <3> DEFINE j == i - k
    <3>1. j \in 1 .. n /\ k + j = i /\ (j = n <=> i = Len(q)) /\ i \in 1 .. Len(q)
      BY <1>3, <1>6, <1>7, <2>2
    <3> HIDE DEF j
    <3>2. q[i] = p[j] /\ s[i] = r[j]
      BY Zenon, <1>3, <1>5, <3>1
    <3> QED BY Zenon, <1>1, <1>6, <3>1, <3>2
  <2>3. i <= k \/ i > k
    BY <1>3, <1>6, <1>7
  <2> QED BY <2>1, <2>2, <2>3
<1>9. Len(u) = Len(s)
  BY <1>3, <1>5, <1>6
<1>10. u = s
  BY <1>5, <1>6, <1>7, <1>9, SameList
<1> QED BY <1>10 DEF u, s, r, q

(* One more element, in lists of any kind. *)
LEMMA AppendCat ==
  ASSUME NEW L, NEW x, ListOf(x, L), NEW f, ListOf(f, L), NEW e, e \in L
  PROVE  Append(x \o f, e) = x \o Append(f, e)
BY DEF ListOf

(* Append is the concatenation of one. *)
LEMMA AppendIs ==
  ASSUME NEW L, NEW f, ListOf(f, L), NEW e, e \in L
  PROVE  Append(f, e) = f \o <<e>> /\ ListOf(Append(f, e), L) /\ Append(f, e) # <<>>
<1>1. Append(f, e) = f \o <<e>>
  BY DEF ListOf
<1>2. ListOf(Append(f, e), L)
  BY DEF ListOf
<1>3. Append(f, e) # <<>>
  <2>1. Len(Append(f, e)) = Len(f) + 1 /\ Len(f) \in Nat
    BY DEF ListOf
  <2>2. Len(<<>>) = 0
    OBVIOUS
  <2> QED BY <2>1, <2>2
<1> QED BY <1>1, <1>2, <1>3

(* One part. *)
LEMMA OnePart ==
  ASSUME NEW A, NEW s, ListOf(s, A), NEW b
  PROVE  <<s>> \in Parts(A) /\ Longer(<<s>>, b) = <<Append(s, b)>>
<1> DEFINE p == <<s>>
           q == <<Append(s, b)>>
           r == Longer(p, b)
<1>1. IsList(p) /\ Len(p) = 1 /\ p[1] = s /\ IsList(q) /\ Len(q) = 1 /\ q[1] = Append(s, b)
  BY ListLiteral DEF Literals, Size
<1>2. p \in Seq(Seq(A)) /\ p # <<>>
  BY DEF ListOf
<1> HIDE DEF p, q
<1>6. IsList(p) /\ Len(p) >= 1
  BY <1>1
<1>3. IsList(r) /\ Len(r) = Len(p) /\ \A i \in 1 .. Len(p) : r[i] = IF i = Len(p) THEN Append(p[i], b) ELSE p[i]
  BY <1>6, LongerIs
<1> HIDE DEF r
<1>4. Len(r) = Len(q) /\ \A i \in 1 .. Len(r) : r[i] = q[i]
  BY <1>1, <1>3
<1>5. r = q
  BY <1>1, <1>3, <1>4, SameList
<1> QED BY <1>2, <1>5 DEF p, q, r, Parts

Semicolon == ";"
NoParts == << <<>> >>

(* What one byte does to the parts. *)
LEMMA SplitRule ==
  ASSUME NEW A, NEW b \in A, NEW p \in Parts(A)
  PROVE  /\ b = Semicolon => SplitStep(A)[<<p, b>>] = Append(p, <<>>)
         /\ b # Semicolon => SplitStep(A)[<<p, b>>] = Longer(p, b)
BY Zenon DEF SplitStep, Longer, Semicolon

(* Parts are lists, one at least. *)
LEMMA PartsAre ==
  ASSUME NEW A, NEW p \in Parts(A)
  PROVE  ListOf(p, Seq(A)) /\ IsList(p) /\ Len(p) >= 1
<1>1. p \in Seq(Seq(A)) /\ p # <<>>
  BY DEF Parts
<1>2. IsList(p)
  BY <1>1, ListIn
<1>3. Len(p) >= 1
  BY <1>1
<1> QED BY <1>1, <1>2, <1>3 DEF ListOf

(* A new part is empty. *)
LEMMA PartsNext ==
  ASSUME NEW A, NEW x, ListOf(x, Seq(A))
  PROVE  Append(x, <<>>) \in Parts(A) /\ Append(x, <<>>) = x \o NoParts
<1> DEFINE L == Seq(A)
           e == <<>>
<1>1. e \in L
  OBVIOUS
<1> HIDE DEF L, e
<1>2. Append(x, e) = x \o <<e>> /\ ListOf(Append(x, e), L) /\ Append(x, e) # <<>>
  BY <1>1, AppendIs DEF L
<1> QED BY <1>2 DEF ListOf, L, e, Parts, NoParts

(* Both sides of SplitOn, one byte more. *)
LEMMA SplitBoth ==
  ASSUME NEW A, NEW x, ListOf(x, Seq(A)), NEW f \in Parts(A), NEW g \in Parts(A), g = x \o f, NEW b \in A
  PROVE  SplitStep(A)[<<g, b>>] = x \o SplitStep(A)[<<f, b>>]
<1>1. ListOf(f, Seq(A)) /\ IsList(f) /\ Len(f) >= 1
  BY PartsAre
<1>2. IsList(x)
  BY ListIn DEF ListOf
<1>3. CASE b = Semicolon
  <2> DEFINE L == Seq(A)
             e == <<>>
  <2>1. e \in L
    OBVIOUS
  <2> HIDE DEF L, e
  <2>4. ListOf(x, L) /\ ListOf(f, L)
    BY <1>1 DEF L
  <2>2. Append(x \o f, e) = x \o Append(f, e)
    BY <2>1, <2>4, AppendCat
  <2>3. SplitStep(A)[<<f, b>>] = Append(f, e) /\ SplitStep(A)[<<g, b>>] = Append(g, e)
    BY Zenon, <1>3, SplitRule DEF e
  <2> QED BY Zenon, <2>2, <2>3
<1>4. CASE b # Semicolon
  <2>1. Longer(x \o f, b) = x \o Longer(f, b)
    BY <1>1, <1>2, LongerCat
  <2>2. SplitStep(A)[<<f, b>>] = Longer(f, b) /\ SplitStep(A)[<<g, b>>] = Longer(g, b)
    BY Zenon, <1>4, SplitRule
  <2> QED BY <2>1, <2>2
<1> QED BY Zenon, <1>3, <1>4

(* Splitting goes on from the parts before a semicolon. *)
LEMMA SplitOn ==
  ASSUME NEW A, NEW x, ListOf(x, Seq(A)), NEW t, ListOf(t, A)
  PROVE  Fold(SplitStep(A), Append(x, <<>>), t) = x \o Fold(SplitStep(A), NoParts, t)
<1> DEFINE step == SplitStep(A)
           base == Append(x, <<>>)
           Q == {s \in Seq(A) : Fold(step, base, s) = x \o Fold(step, NoParts, s)}
<1>1. NoParts \in Parts(A) /\ StepOf(step, Parts(A), A)
  BY SplitStepType DEF NoParts
<1>2. base \in Parts(A) /\ base = x \o NoParts
  BY PartsNext
<1> HIDE DEF base
<1>3. <<>> \in Q
  <2>1. Fold(step, base, <<>>) = base /\ Fold(step, NoParts, <<>>) = NoParts
    BY FoldEmpty
  <2>2. <<>> \in Seq(A)
    OBVIOUS
  <2> HIDE DEF step
  <2> QED BY <1>2, <2>1, <2>2
<1>4. ASSUME NEW s, ListOf(s, A), NEW b \in A, Fold(step, base, s) = x \o Fold(step, NoParts, s)
      PROVE  Fold(step, base, Append(s, b)) = x \o Fold(step, NoParts, Append(s, b))
  <2> DEFINE f == Fold(step, NoParts, s)
             g == Fold(step, base, s)
  <2> HIDE DEF step, Q, f, g
  <2> DEFINE V == Parts(A)
  <2>5. NoParts \in V /\ base \in V /\ StepOf(step, V, A) /\ ListOf(s, A)
    BY <1>1, <1>2, <1>4
  <2> HIDE DEF V
  <2>6. Fold(step, NoParts, Append(s, b)) = step[<<f, b>>] /\ f \in V
    BY Zenon, <2>5, FoldAppend DEF f
  <2>7. Fold(step, base, Append(s, b)) = step[<<g, b>>] /\ g \in V
    BY Zenon, <2>5, FoldAppend DEF g
  <2>1. Fold(step, NoParts, Append(s, b)) = step[<<f, b>>] /\ f \in Parts(A)
    BY <2>6 DEF V
  <2>2. Fold(step, base, Append(s, b)) = step[<<g, b>>] /\ g \in Parts(A)
    BY <2>7 DEF V
  <2>3. g = x \o f
    BY <1>4 DEF f, g
  <2>4. step[<<g, b>>] = x \o step[<<f, b>>]
    BY Zenon, <2>1, <2>2, <2>3, SplitBoth DEF step
  <2> QED BY <2>1, <2>2, <2>4
<1>5. \A s \in Seq(A), b \in A : s \in Q => Append(s, b) \in Q
  <2> SUFFICES ASSUME NEW s \in Seq(A), NEW b \in A, s \in Q PROVE Append(s, b) \in Q
    BY Zenon
  <2>1. ListOf(s, A) /\ Append(s, b) \in Seq(A)
    BY DEF ListOf
  <2>2. Fold(step, base, s) = x \o Fold(step, NoParts, s)
    OBVIOUS
  <2>3. Fold(step, base, Append(s, b)) = x \o Fold(step, NoParts, Append(s, b))
    <3> HIDE DEF Q, step
    <3> QED BY Zenon, <1>4, <2>1, <2>2
  <2> QED BY <2>1, <2>3
<1>6. t \in Q
  <2> HIDE DEF Q
  <2> QED BY <1>3, <1>5, ListsInductive
<1>7. Fold(step, base, t) = x \o Fold(step, NoParts, t)
  <2> HIDE DEF step
  <2> QED BY <1>6
<1> QED BY <1>7 DEF base

(* The parts of two texts, with a semicolon between them. *)
LEMMA SplitCat ==
  ASSUME NEW s, IsList(s), NEW t, IsList(t)
  PROVE  Split((s \o <<Semicolon>>) \o t) = Split(s) \o Split(t)
<1> DEFINE c == Semicolon
           A == (Range(s) \cup Range(t)) \cup {c}
           step == SplitStep(A)
           m == s \o <<c>>
           x == Split(s)
           y == Fold(step, NoParts, m)
<1>1. s \in Seq(A) /\ t \in Seq(A) /\ c \in A
  BY ListTyped
<1> HIDE DEF A, c
<1>2. NoParts \in Parts(A) /\ StepOf(step, Parts(A), A)
  BY SplitStepType DEF NoParts
<1>4. ListOf(s, A) /\ ListOf(t, A)
  BY <1>1 DEF ListOf
<1>3. m = Append(s, c) /\ ListOf(m, A)
  BY Zenon, <1>1, <1>4, AppendIs
<1> HIDE DEF m
<1>11. ListOf(m \o t, A)
  BY <1>3, <1>4 DEF ListOf
<1>5. x = Fold(step, NoParts, s) /\ Split(t) = Fold(step, NoParts, t) /\ Split(m \o t) = Fold(step, NoParts, m \o t)
  BY <1>3, <1>4, <1>11, SplitIsFold DEF NoParts
<1> HIDE DEF x, y
<1>12. \A p \in Parts(A) : step[<<p, c>>] = Append(p, <<>>)
  BY Zenon, <1>1, SplitRule DEF c
<1> HIDE DEF step
<1>6. x \in Parts(A)
  BY <1>2, <1>4, <1>5, FoldTyped
<1>7. y = Append(x, <<>>)
  <2> DEFINE V == Parts(A)
  <2>3. NoParts \in V /\ StepOf(step, V, A) /\ ListOf(s, A) /\ c \in A
    BY <1>1, <1>2, <1>4
  <2> HIDE DEF V
  <2>1. Fold(step, NoParts, Append(s, c)) = step[<<Fold(step, NoParts, s), c>>]
    BY <2>3, FoldAppend
  <2>2. y = step[<<x, c>>]
    BY <1>3, <1>5, <2>1 DEF y
  <2> QED BY Zenon, <1>6, <1>12, <2>2
<1>8. Fold(step, NoParts, m \o t) = Fold(step, y, t)
  <2>1. Fold(step, NoParts, m \o t) = Fold(step, Fold(step, NoParts, m), t)
    BY <1>2, <1>3, <1>4, FoldCat
  <2> QED BY <2>1 DEF y
<1>9. Fold(step, Append(x, <<>>), t) = x \o Fold(step, NoParts, t)
  <2>1. ListOf(x, Seq(A))
    BY <1>6, PartsAre
  <2> QED BY <1>4, <2>1, SplitOn DEF step
<1>10. Split(m \o t) = x \o Split(t)
  BY <1>5, <1>7, <1>8, <1>9
<1> QED BY Zenon, <1>10 DEF m, x, c

(* A text without a semicolon is one part. *)
LEMMA SplitOne ==
  ASSUME NEW A, Semicolon \notin A, NEW t, ListOf(t, A)
  PROVE  Split(t) = <<t>>
<1> DEFINE step == SplitStep(A)
           Q == {s \in Seq(A) : Fold(step, NoParts, s) = <<s>>}
<1>1. NoParts \in Parts(A) /\ StepOf(step, Parts(A), A)
  BY SplitStepType DEF NoParts
<1>2. <<>> \in Q
  <2>1. Fold(step, NoParts, <<>>) = NoParts
    BY FoldEmpty
  <2>2. <<>> \in Seq(A)
    OBVIOUS
  <2> HIDE DEF step
  <2> QED BY <2>1, <2>2 DEF NoParts
<1>3. ASSUME NEW s, ListOf(s, A), NEW b \in A, Fold(step, NoParts, s) = <<s>>
      PROVE  Fold(step, NoParts, Append(s, b)) = <<Append(s, b)>>
  <2> HIDE DEF step, Q
  <2> DEFINE V == Parts(A)
  <2>6. NoParts \in V /\ StepOf(step, V, A) /\ ListOf(s, A) /\ b \in A
    BY <1>1, <1>3
  <2> HIDE DEF V
  <2>1. Fold(step, NoParts, Append(s, b)) = step[<<Fold(step, NoParts, s), b>>]
    BY <2>6, FoldAppend
  <2>2. <<s>> \in Parts(A) /\ Longer(<<s>>, b) = <<Append(s, b)>>
    BY Zenon, <1>3, OnePart
  <2>3. b # Semicolon
    OBVIOUS
  <2> DEFINE p == <<s>>
  <2>4. p \in Parts(A)
    BY <2>2
  <2> HIDE DEF p
  <2>5. step[<<p, b>>] = Longer(p, b)
    BY <2>3, <2>4, SplitRule DEF step
  <2> QED BY <1>3, <2>1, <2>2, <2>5 DEF p
<1>4. \A s \in Seq(A), b \in A : s \in Q => Append(s, b) \in Q
  <2> SUFFICES ASSUME NEW s \in Seq(A), NEW b \in A, s \in Q PROVE Append(s, b) \in Q
    OBVIOUS
  <2>1. ListOf(s, A) /\ Append(s, b) \in Seq(A)
    BY DEF ListOf
  <2>2. Fold(step, NoParts, s) = <<s>>
    OBVIOUS
  <2>3. Fold(step, NoParts, Append(s, b)) = <<Append(s, b)>>
    <3> HIDE DEF Q, step
    <3> QED BY <1>3, <2>1, <2>2
  <2> QED BY <2>1, <2>3
<1>5. t \in Q
  <2> HIDE DEF Q
  <2> QED BY <1>2, <1>4, ListsInductive
<1>7. Split(t) = Fold(step, NoParts, t)
  BY SplitIsFold DEF NoParts
<1> QED BY <1>5, <1>7

-----------------------------------------------------------------------------
(* The sequences that items are.                                            *)

Marks == {"?", ">", "<", "="}
NoMark == "none"

(* What a CSI sequence asks for is in the bytes between its front and its   *)
(* last byte.                                                               *)
LEMMA ObeyCsiIs ==
  ASSUME NEW t, NEW p, NEW a, a = SubSeq(p, 3, Len(p) - 1)
  PROVE  /\ a = <<>> \/ a[1] \notin Marks =>
              Obey(t, "csi", p) = ObeyCsi(t, NoMark, Split(a), p[Len(p)])
         /\ a # <<>> /\ a[1] \in Marks =>
              Obey(t, "csi", p) = ObeyCsi(t, a[1], Split(Tail(a)), p[Len(p)])
<1> DEFINE lead == IF a # <<>> /\ a[1] \in Marks THEN a[1] ELSE NoMark
           args == IF lead = NoMark THEN a ELSE Tail(a)
<1>1. Obey(t, "csi", p) = ObeyCsi(t, lead, Split(args), p[Len(p)])
  BY Zenon DEF Obey, Marks, NoMark
<1>2. NoMark \notin Marks
  BY DEF NoMark, Marks
<1> HIDE DEF NoMark, Marks
<1>3. ASSUME a = <<>> \/ a[1] \notin Marks PROVE lead = NoMark /\ args = a
  BY <1>3
<1>4. ASSUME a # <<>>, a[1] \in Marks PROVE lead = a[1] /\ args = Tail(a)
  BY <1>2, <1>4
<1> HIDE DEF lead, args
<1>5. ASSUME a = <<>> \/ a[1] \notin Marks
      PROVE  Obey(t, "csi", p) = ObeyCsi(t, NoMark, Split(a), p[Len(p)])
  BY Zenon, <1>1, <1>3, <1>5
<1>6. ASSUME a # <<>>, a[1] \in Marks
      PROVE  Obey(t, "csi", p) = ObeyCsi(t, a[1], Split(Tail(a)), p[Len(p)])
  BY Zenon, <1>1, <1>4, <1>6
<1> QED BY <1>5, <1>6

(* Joining lists is associative. *)
LEMMA CatAssoc ==
  ASSUME NEW a, IsList(a), NEW b, IsList(b), NEW c, IsList(c)
  PROVE  (a \o b) \o c = a \o (b \o c)
<1> DEFINE E == (Range(a) \cup Range(b)) \cup Range(c)
<1>1. a \in Seq(E) /\ b \in Seq(E) /\ c \in Seq(E)
  BY ListTyped
<1> HIDE DEF E
<1> QED BY <1>1, ConcatAssociative

(* The arguments of a CSI sequence: neither an ESC nor a final byte.        *)
Argument(a) == IsList(a) /\ \A i \in 1 .. Len(a) : a[i] # ESC /\ ~IsCsiFinal(a[i])
CsiEnd(f)   == f # ESC /\ IsCsiFinal(f)

(* An argument and a final byte make the body of a CSI. *)
LEMMA ArgumentBody ==
  ASSUME NEW a, Argument(a), NEW f, CsiEnd(f)
  PROVE  CsiBody(a \o <<f>>)
<1> DEFINE e == <<f>>
           b == a \o e
<1>1. IsList(a) /\ IsList(e) /\ Len(e) = 1 /\ e[1] = f
  BY ListLiteral DEF Argument, Literals, Size
<1> HIDE DEF e
<1>2. InTurn(a, e, b)
  BY <1>1, ListsJoined
<1> HIDE DEF b
<1>3. IsList(b) /\ Len(a) \in Nat /\ Len(b) = Len(a) + 1 /\ b[Len(a) + 1] = f
      /\ \A i \in 1 .. Len(a) : b[i] = a[i]
  <2>1. 1 \in 1 .. Len(e)
    BY <1>1
  <2> QED BY <1>1, <1>2, <2>1 DEF InTurn
<1>4. \A i \in 1 .. Len(b) - 1 : b[i] # ESC /\ ~IsCsiFinal(b[i])
  <2>1. Len(b) - 1 = Len(a)
    BY <1>3
  <2> QED BY <1>3, <2>1 DEF Argument
<1>5. b[Len(b)] # ESC /\ IsCsiFinal(b[Len(b)]) /\ Len(b) >= 1
  BY <1>3 DEF CsiEnd
<1>6. CsiBody(b)
  BY <1>3, <1>4, <1>5 DEF CsiBody
<1> QED BY <1>6 DEF b, e

(* They are found again where Obey looks for them. *)
LEMMA ArgumentFound ==
  ASSUME NEW a, IsList(a), NEW f, NEW p, p = CSI \o (a \o <<f>>)
  PROVE  SubSeq(p, 3, Len(p) - 1) = a /\ p[Len(p)] = f
<1> DEFINE e == <<f>>
           q == (CSI \o a) \o e
<1>1. IsList(CSI) /\ Len(CSI) = 2
  BY FrameSize DEF Size
<1>2. IsList(e) /\ Len(e) = 1 /\ e[1] = f
  BY ListLiteral DEF Literals, Size
<1> HIDE DEF e
<1>3. AllInTurn(CSI, a, e, q)
  BY <1>1, <1>2, ThreeJoined
<1>4. p = q
  BY <1>1, <1>2, CatAssoc DEF e
<1> HIDE DEF q
<1>5. SubSeq(q, Len(CSI) + 1, Len(CSI) + Len(a)) = a
  BY Zenon, <1>1, <1>2, <1>3, PartsFound
<1>6. Len(a) \in Nat
  BY DEF IsList
<1>7. Len(q) = 2 + Len(a) + 1 /\ q[2 + Len(a) + 1] = f
  BY <1>1, <1>2, <1>3 DEF AllInTurn
<1>8. Len(CSI) + 1 = 3 /\ Len(CSI) + Len(a) = Len(q) - 1
  BY <1>1, <1>6, <1>7
<1>9. q[Len(q)] = f
  BY <1>7
<1> QED BY Zenon, <1>4, <1>5, <1>8, <1>9

(* What an encoder may write for a step from t to u: nothing when the step  *)
(* is none, or a whole sequence.                                            *)
Drawn(p, t, u) == IsList(p) /\ Shape(p) /\ (Whole(p, t, u) \/ (p = <<>> /\ u = t))

(* A CSI is drawn as the terminal obeys it. *)
LEMMA DrawnCsi ==
  ASSUME NEW b, CsiBody(b), NEW p, p = CSI \o b, NEW t, NEW u, Obey(t, "csi", p) = u
  PROVE  Drawn(p, t, u)
<1>1. Whole(p, t, u)
  BY Zenon, WholeCsi
<1>2. Shape(p)
  BY Zenon DEF Shape
<1> QED BY <1>1, <1>2 DEF Drawn, Whole

(* An OSC is drawn as the terminal obeys it. *)
LEMMA DrawnOsc ==
  ASSUME NEW b, OscBody(b), NEW p, p = (OSC \o b) \o ST, NEW t, NEW u, Obey(t, "osc", p) = u
  PROVE  Drawn(p, t, u)
<1>1. Whole(p, t, u)
  BY Zenon, WholeOsc
<1>2. Shape(p)
  BY Zenon DEF Shape
<1> QED BY <1>1, <1>2 DEF Drawn, Whole

(* A two-byte sequence is drawn as the terminal obeys it. *)
LEMMA DrawnEsc ==
  ASSUME NEW x \in {"7", "8"}, NEW p, p = <<ESC, x>>, NEW t, NEW u, Obey(t, "esc", p) = u
  PROVE  Drawn(p, t, u)
<1>1. Whole(p, t, u)
  BY WholeEsc
<1>2. Shape(p)
  BY DEF Shape
<1> QED BY <1>1, <1>2 DEF Drawn, Whole

(* A CSI sequence without and with a mark before its arguments. *)
LEMMA DrawnPlain ==
  ASSUME NEW a, Argument(a), a = <<>> \/ a[1] \notin Marks, NEW f, CsiEnd(f),
         NEW t, NEW u, ObeyCsi(t, NoMark, Split(a), f) = u
  PROVE  Drawn((CSI \o a) \o <<f>>, t, u)
<1> DEFINE b == a \o <<f>>
           p == CSI \o b
           c == SubSeq(p, 3, Len(p) - 1)
<1>1. CsiBody(b)
  BY ArgumentBody
<1>2. c = a /\ p[Len(p)] = f
  BY Zenon, ArgumentFound DEF Argument
<1>3. p = (CSI \o a) \o <<f>>
  BY SMTT(40), FrameSize, ListLiteral, CatAssoc DEF Argument, Literals
<1> HIDE DEF b, p, c
<1>4. Obey(t, "csi", p) = u
  <2>1. c = <<>> \/ c[1] \notin Marks => Obey(t, "csi", p) = ObeyCsi(t, NoMark, Split(c), p[Len(p)])
    BY Zenon, ObeyCsiIs DEF c
  <2> QED BY <1>2, <2>1
<1>5. Drawn(p, t, u)
  BY Zenon, <1>1, <1>4, DrawnCsi DEF p
<1> QED BY <1>3, <1>5

(* A CSI with a private mark is drawn as its argument and final byte say. *)
LEMMA DrawnMarked ==
  ASSUME NEW a, Argument(a), NEW m \in Marks, NEW f, CsiEnd(f),
         NEW t, NEW u, ObeyCsi(t, m, Split(a), f) = u
  PROVE  Drawn(((CSI \o <<m>>) \o a) \o <<f>>, t, u)
<1> DEFINE g == <<m>>
           d == g \o a
           b == d \o <<f>>
           p == CSI \o b
           c == SubSeq(p, 3, Len(p) - 1)
<1>1. IsList(g) /\ Len(g) = 1 /\ g[1] = m /\ IsList(a) /\ IsList(<<f>>) /\ IsList(CSI)
  BY ListLiteral, FrameSize DEF Literals, Size, Argument
<1>2. m # ESC /\ ~IsCsiFinal(m)
  BY DEF Marks, ESC, IsCsiFinal
<1> HIDE DEF g
<1>3. InTurn(g, a, d)
  BY <1>1, ListsJoined
<1>4. p = ((CSI \o g) \o a) \o <<f>>
  <2>4. IsList(CSI) /\ IsList(g) /\ IsList(a)
    BY <1>1
  <2>1. (CSI \o g) \o a = CSI \o (g \o a)
    BY SMTT(40), <2>4, CatAssoc
  <2>2. IsList(d)
    BY <1>3 DEF InTurn
  <2> HIDE DEF d
  <2>3. CSI \o (d \o <<f>>) = (CSI \o d) \o <<f>>
    BY <1>1, <2>2, CatAssoc
  <2> QED BY <2>1, <2>3 DEF d
<1> HIDE DEF d
<1>5. IsList(d) /\ Len(a) \in Nat /\ Len(d) = 1 + Len(a) /\ d[1] = m
      /\ \A i \in 1 .. Len(a) : d[1 + i] = a[i]
  BY <1>1, <1>3 DEF InTurn
<1>6. Argument(d)
  <2>1. ASSUME NEW i \in 1 .. Len(d) PROVE d[i] # ESC /\ ~IsCsiFinal(d[i])
    <3>1. CASE i = 1
      BY <1>2, <1>5, <3>1
    <3>2. CASE i # 1
      <4> DEFINE j == i - 1
      <4>1. j \in 1 .. Len(a) /\ 1 + j = i
        BY <1>5, <2>1, <3>2
      <4> HIDE DEF j
      <4>2. d[i] = a[j]
        BY <1>5, <4>1
      <4> QED BY <4>1, <4>2 DEF Argument
    <3> QED BY <3>1, <3>2
  <2> QED BY <1>5, <2>1 DEF Argument
<1>7. d # <<>> /\ Tail(d) = a
  <2>1. Len(d) >= 1
    BY <1>5
  <2>2. IsList(Tail(d)) /\ Len(Tail(d)) = Len(d) - 1 /\ \A i \in 1 .. Len(d) - 1 : Tail(d)[i] = d[i + 1]
    BY <1>5, <2>1, TailPlaces
  <2>3. Len(Tail(d)) = Len(a) /\ \A i \in 1 .. Len(Tail(d)) : Tail(d)[i] = a[i]
    <3>1. Len(d) - 1 = Len(a)
      BY <1>5
    <3>2. \A i \in 1 .. Len(a) : d[i + 1] = a[i]
      BY <1>5
    <3> QED BY <2>2, <3>1, <3>2
  <2>4. Tail(d) = a
    BY Zenon, <1>1, <2>2, <2>3, SameList
  <2>5. Len(<<>>) = 0
    OBVIOUS
  <2> QED BY <1>5, <2>4, <2>5
<1>8. CsiBody(b)
  BY <1>6, ArgumentBody
<1>9. c = d /\ p[Len(p)] = f
  BY Zenon, <1>5, ArgumentFound
<1> HIDE DEF b, p, c
<1>10. Obey(t, "csi", p) = u
  <2>1. c # <<>> /\ c[1] \in Marks => Obey(t, "csi", p) = ObeyCsi(t, c[1], Split(Tail(c)), p[Len(p)])
    BY Zenon, ObeyCsiIs DEF c
  <2> QED BY Zenon, <1>5, <1>7, <1>9, <2>1
<1>11. Drawn(p, t, u)
  BY Zenon, <1>8, <1>10, DrawnCsi DEF p
<1> QED BY Zenon, <1>4, <1>11 DEF g

-----------------------------------------------------------------------------
(* What the arguments of a CSI say.                                         *)

(* The first and the last number of the arguments. *)
Reads(a, n, m) == LET q == Split(a) IN Num(q[1]) = n /\ Num(q[Len(q)]) = m
Written(a, n, m) == Argument(a) /\ (a = <<>> \/ a[1] \notin Marks) /\ Reads(a, n, m)

(* Digits end nothing, mark nothing and separate nothing. *)
LEMMA DigitBytesAre == \A d \in Digits : d # ESC /\ ~IsCsiFinal(d) /\ d \notin Marks /\ d # Semicolon
BY Zenon, ByteClasses DEF ESC, IsCsiFinal, Marks, Semicolon

(* A numeral is one parameter. *)
LEMMA NumeralParts ==
  ASSUME NEW s, ListOf(s, Digits), s # <<>>
  PROVE  Argument(s) /\ Len(s) >= 1 /\ s[1] \notin Marks /\ Split(s) = <<s>> /\ IsList(s)
<1>1. IsList(s) /\ Len(s) \in Nat /\ Len(s) >= 1 /\ \A i \in 1 .. Len(s) : s[i] \in Digits
  <2>1. IsList(s)
    BY ListIn DEF ListOf
  <2> QED BY <2>1 DEF ListOf
<1>2. Argument(s)
  BY <1>1, DigitBytesAre DEF Argument
<1>3. s[1] \notin Marks
  <2>1. 1 \in 1 .. Len(s)
    BY <1>1
  <2> QED BY <1>1, <2>1, DigitBytesAre
<1>4. Semicolon \notin Digits
  BY DigitBytesAre
<1>5. Split(s) = <<s>>
  BY <1>4, SplitOne
<1> QED BY <1>1, <1>2, <1>3, <1>5

(* A number is read as itself, first and last. *)
LEMMA NumeralWritten ==
  ASSUME NEW n \in FiveDigits
  PROVE  Written(Itoa(n), n, n)
<1> DEFINE s == Itoa(n)
<1>1. ListOf(s, Digits) /\ s # <<>> /\ Num(s) = n
  BY NumItoa
<1> HIDE DEF s
<1>2. Argument(s) /\ s[1] \notin Marks /\ Split(s) = <<s>>
  BY <1>1, NumeralParts
<1>3. Reads(s, n, n)
  <2> DEFINE q == <<s>>
  <2>1. Len(q) = 1 /\ q[1] = s
    OBVIOUS
  <2> HIDE DEF q
  <2> QED BY <1>1, <1>2, <2>1 DEF Reads, q
<1> QED BY <1>2, <1>3 DEF Written, s

(* Two arguments with a byte between them are one. *)
LEMMA TwoArguments ==
  ASSUME NEW a, Argument(a), NEW b, Argument(b), NEW c, c # ESC, ~IsCsiFinal(c)
  PROVE  Argument((a \o <<c>>) \o b) /\ (Len(a) >= 1 => ((a \o <<c>>) \o b)[1] = a[1])
<1> DEFINE e == <<c>>
           q == (a \o e) \o b
<1>1. IsList(a) /\ IsList(b) /\ IsList(e) /\ Len(e) = 1 /\ e[1] = c
  BY ListLiteral DEF Argument, Literals, Size
<1> HIDE DEF e
<1>2. AllInTurn(a, e, b, q)
  BY <1>1, ThreeJoined
<1> HIDE DEF q
<1>3. IsList(q) /\ Len(a) \in Nat /\ Len(b) \in Nat /\ Len(q) = Len(a) + 1 + Len(b)
      /\ (\A i \in 1 .. Len(a) : q[i] = a[i]) /\ (\A i \in 1 .. 1 : q[Len(a) + i] = e[i])
      /\ (\A i \in 1 .. Len(b) : q[Len(a) + 1 + i] = b[i])
  BY <1>1, <1>2 DEF AllInTurn, IsList
<1>4. ASSUME NEW i \in 1 .. Len(q) PROVE q[i] # ESC /\ ~IsCsiFinal(q[i])
  <2>1. CASE i \in 1 .. Len(a)
    <3>1. q[i] = a[i]
      BY <1>3, <2>1
    <3> QED BY <2>1, <3>1 DEF Argument
  <2>2. CASE i = Len(a) + 1
    <3>1. q[i] = e[1]
      <4>1. 1 \in 1 .. 1
        OBVIOUS
      <4> QED BY <1>3, <2>2, <4>1
    <3> QED BY <1>1, <3>1
  <2>3. CASE i > Len(a) + 1
    <3> DEFINE j == i - Len(a) - 1
    <3>1. j \in 1 .. Len(b) /\ Len(a) + 1 + j = i
      BY <1>3, <1>4, <2>3
    <3> HIDE DEF j
    <3>2. q[i] = b[j]
      BY <1>3, <3>1
    <3> QED BY <3>1, <3>2 DEF Argument
  <2>4. i \in 1 .. Len(a) \/ i = Len(a) + 1 \/ i > Len(a) + 1
    BY <1>3, <1>4
  <2> QED BY <2>1, <2>2, <2>3, <2>4
<1>5. Argument(q)
  BY <1>3, <1>4 DEF Argument
<1>6. Len(a) >= 1 => q[1] = a[1]
  BY <1>3
<1> QED BY <1>5, <1>6 DEF q, e

(* Two lists of one are a pair. *)
LEMMA PairIs == ASSUME NEW s, NEW r PROVE <<s>> \o <<r>> = <<s, r>>
<1> DEFINE x == <<s>>
           y == <<r>>
           z == <<s, r>>
           q == x \o y
<1>1. /\ IsList(x) /\ Len(x) = 1 /\ x[1] = s /\ IsList(y) /\ Len(y) = 1 /\ y[1] = r
      /\ IsList(z) /\ Len(z) = 2 /\ z[1] = s /\ z[2] = r
  BY ListLiteral DEF Literals, Size
<1> HIDE DEF x, y, z
<1>2. InTurn(x, y, q)
  BY <1>1, ListsJoined
<1> HIDE DEF q
<1>3. IsList(q) /\ Len(q) = 2 /\ q[1] = s /\ q[2] = r
  BY <1>1, <1>2 DEF InTurn
<1>4. Len(q) = Len(z) /\ \A i \in 1 .. Len(q) : q[i] = z[i]
  BY <1>1, <1>3
<1>5. q = z
  BY Zenon, <1>1, <1>3, <1>4, SameList
<1> QED BY <1>5 DEF q, x, y, z

(* Two numbers are read as themselves. *)
LEMMA TwoWritten ==
  ASSUME NEW n \in FiveDigits, NEW m \in FiveDigits
  PROVE  Written((Itoa(n) \o <<Semicolon>>) \o Itoa(m), n, m)
<1> DEFINE s == Itoa(n)
           r == Itoa(m)
           a == (s \o <<Semicolon>>) \o r
<1>1. ListOf(s, Digits) /\ s # <<>> /\ Num(s) = n
  BY NumItoa
<1>2. ListOf(r, Digits) /\ r # <<>> /\ Num(r) = m
  BY NumItoa
<1> HIDE DEF s, r
<1>3. Argument(s) /\ s[1] \notin Marks /\ Split(s) = <<s>> /\ IsList(s) /\ Len(s) >= 1
  BY <1>1, NumeralParts
<1>4. Argument(r) /\ Split(r) = <<r>> /\ IsList(r)
  BY <1>2, NumeralParts
<1>5. Semicolon # ESC /\ ~IsCsiFinal(Semicolon)
  BY DEF Semicolon, ESC, IsCsiFinal
<1>6. Argument(a) /\ a[1] = s[1]
  BY <1>3, <1>4, <1>5, TwoArguments
<1>7. Split(a) = Split(s) \o Split(r)
  BY Zenon, <1>3, <1>4, SplitCat
<1>8. Split(a) = <<s, r>>
  BY Zenon, <1>3, <1>4, <1>7, PairIs
<1> HIDE DEF a
<1>9. Reads(a, n, m)
  <2> DEFINE q == <<s, r>>
  <2>1. Len(q) = 2 /\ q[1] = s /\ q[2] = r
    OBVIOUS
  <2> HIDE DEF q
  <2> QED BY <1>1, <1>2, <1>8, <2>1 DEF Reads, q
<1>10. Written(a, n, m)
  BY <1>3, <1>6, <1>9 DEF Written
<1> QED BY <1>10 DEF a, s, r

(* What each kind of CSI sequence does. *)
LEMMA CsiMoves ==
  ASSUME NEW t, NEW q, NEW f \in {"A", "B", "C", "D"}, NEW lead,
         NEW n, n = Num(q[1]), n # 0
  PROVE  ObeyCsi(t, lead, q, f) = [t EXCEPT !.at = Moved(t.at, f, n)]
BY DEF ObeyCsi

(* CSI row ; column H. *)
LEMMA CsiPlaces ==
  ASSUME NEW t, NEW q
  PROVE  ObeyCsi(t, NoMark, q, "H") = [t EXCEPT !.at = <<Clip(Num(q[1])), Clip(Num(q[Len(q)]))>>]
BY DEF ObeyCsi, NoMark

(* CSI part J and K. *)
LEMMA CsiErases ==
  ASSUME NEW t, NEW q, NEW f, f \in {"J", "K"}, NEW lead, NEW n, n = Num(q[1])
  PROVE  ObeyCsi(t, lead, q, f) = [t EXCEPT !.erased = <<n, f>>]
BY DEF ObeyCsi

(* CSI ? mode h and l. *)
LEMMA CsiModes ==
  ASSUME NEW t, NEW q, NEW lead
  PROVE  /\ ObeyCsi(t, lead, q, "h") = [t EXCEPT !.modes = @ \cup {Num(q[1])}]
         /\ ObeyCsi(t, lead, q, "l") = [t EXCEPT !.modes = @ \ {Num(q[1])}]
BY DEF ObeyCsi

KittyTop(t)  == t.kitty[Len(t.kitty)]
TopSet(t, v) == [t EXCEPT !.kitty[Len(t.kitty)] = v]

(* CSI > flags u, CSI < count u and CSI = flags ; how u. *)
LEMMA CsiKitty ==
  ASSUME NEW t, NEW q
  PROVE  /\ ObeyCsi(t, ">", q, "u") = [t EXCEPT !.kitty = Append(@, Bits(Num(q[1])))]
         /\ ObeyCsi(t, "<", q, "u") = [t EXCEPT !.kitty = PopStack(@, Num(q[1]))]
         /\ Num(q[Len(q)]) = 1 => ObeyCsi(t, "=", q, "u") = TopSet(t, Bits(Num(q[1])))
         /\ Num(q[Len(q)]) = 2 => ObeyCsi(t, "=", q, "u") = TopSet(t, KittyTop(t) \cup Bits(Num(q[1])))
         /\ Num(q[Len(q)]) = 3 => ObeyCsi(t, "=", q, "u") = TopSet(t, KittyTop(t) \ Bits(Num(q[1])))
BY DEF ObeyCsi, TopSet, KittyTop

(* CSI parameters m. *)
LEMMA CsiStyles ==
  ASSUME NEW t, NEW q, NEW lead
  PROVE  ObeyCsi(t, lead, q, "m") = [t EXCEPT !.style = ObeySgr(@, q)]
BY DEF ObeyCsi

(* The CSI queries change nothing on the screen. *)
LEMMA CsiAsks ==
  ASSUME NEW t, NEW q, NEW lead, NEW f \in {"n", "c", "p"}
  PROVE  ObeyCsi(t, lead, q, f) = t
BY DEF ObeyCsi

(* Nor does the query for the kitty flags. *)
LEMMA CsiAsksKitty == \A t, q : ObeyCsi(t, "?", q, "u") = t
BY DEF ObeyCsi

-----------------------------------------------------------------------------
(* The cursor.                                                              *)

(* A screen is a record, whose style is a record of its four parts.         *)
Drawable(t) ==
  /\ ScreenOK(t) /\ t = [x \in DOMAIN t |-> t[x]]
  /\ t.style = Style(t.style.attrs, t.style.underline, t.style.fg, t.style.bg)

(* The final bytes of the items end a CSI. *)
LEMMA FinalsEnd ==
  \A f \in {"A", "B", "C", "D", "H", "J", "K", "h", "l", "m", "u"} : CsiEnd(f)
BY DEF CsiEnd, IsCsiFinal, ESC

(* A u16 has five digits at most. *)
LEMMA U16Five == \A n \in U16 : n \in FiveDigits
BY Fitting

(* One number, with and without a mark. *)
LEMMA DrawnNumber ==
  ASSUME NEW n \in FiveDigits, NEW f, CsiEnd(f), NEW t, NEW u,
         \A q : Num(q[1]) = n => ObeyCsi(t, NoMark, q, f) = u
  PROVE  Drawn((CSI \o Itoa(n)) \o <<f>>, t, u)
<1> DEFINE a == Itoa(n)
<1>1. Written(a, n, n)
  BY NumeralWritten
<1> HIDE DEF a
<1>2. Argument(a) /\ (a = <<>> \/ a[1] \notin Marks) /\ Num(Split(a)[1]) = n
  BY <1>1 DEF Written, Reads
<1>3. ObeyCsi(t, NoMark, Split(a), f) = u
  BY <1>2
<1>4. Drawn((CSI \o a) \o <<f>>, t, u)
  BY <1>2, <1>3, DrawnPlain
<1> QED BY <1>4 DEF a

(* A private CSI of one number is drawn as that number says. *)
LEMMA DrawnMarkedNumber ==
  ASSUME NEW n \in FiveDigits, NEW m \in Marks, NEW f, CsiEnd(f), NEW t, NEW u,
         \A q : Num(q[1]) = n => ObeyCsi(t, m, q, f) = u
  PROVE  Drawn(((CSI \o <<m>>) \o Itoa(n)) \o <<f>>, t, u)
<1> DEFINE a == Itoa(n)
<1>1. Written(a, n, n)
  BY NumeralWritten
<1> HIDE DEF a
<1>2. Argument(a) /\ Num(Split(a)[1]) = n
  BY <1>1 DEF Written, Reads
<1>3. ObeyCsi(t, m, Split(a), f) = u
  BY <1>2
<1>4. Drawn(((CSI \o <<m>>) \o a) \o <<f>>, t, u)
  BY <1>2, <1>3, DrawnMarked
<1> QED BY <1>4 DEF a

(* A move. *)
LEMMA SameCell ==
  ASSUME NEW t, Drawable(t)
  PROVE  /\ [t EXCEPT !.at = <<Clip(t.at[1]), t.at[2]>>] = t
         /\ [t EXCEPT !.at = <<t.at[1], Clip(t.at[2])>>] = t
         /\ t.at[1] \in 1 .. ScreenSize /\ t.at[2] \in 1 .. ScreenSize
<1>1. t.at \in (1 .. ScreenSize) \X (1 .. ScreenSize) /\ t = [x \in DOMAIN t |-> t[x]]
  BY DEF Drawable, ScreenOK, Cells
<1>2. t.at[1] \in 1 .. ScreenSize /\ t.at[2] \in 1 .. ScreenSize /\ t.at = <<t.at[1], t.at[2]>>
  BY <1>1
<1>3. Clip(t.at[1]) = t.at[1] /\ Clip(t.at[2]) = t.at[2]
  BY <1>2 DEF Clip
<1>4. [t EXCEPT !.at = t.at] = t
  BY <1>1
<1> QED BY <1>2, <1>3, <1>4

(* A relative move is drawn, a move of zero by no bytes. *)
LEMMA DrawnMove ==
  ASSUME NEW t, Drawable(t), NEW i, i.kind = "cursor", i.move \in DOMAIN MoveFinal, i.n \in U16
  PROVE  Drawn(EncodeDyn(i), t, Meaning(t, i))
<1> DEFINE n == i.n
           f == MoveFinal[i.move]
           u == Meaning(t, i)
           e == EncodeDyn(i)
<1>1. i.move \in {"up", "down", "right", "left"} /\ f \in {"A", "B", "C", "D"}
  BY DEF MoveFinal
<1>2. e = CsiN(n, f)
  BY Zenon, <1>1 DEF EncodeDyn, CursorBytes
<1>3. /\ i.move = "up" => f = "A" /\ u = [t EXCEPT !.at = <<Clip(t.at[1] - n), t.at[2]>>]
      /\ i.move = "down" => f = "B" /\ u = [t EXCEPT !.at = <<Clip(t.at[1] + n), t.at[2]>>]
      /\ i.move = "left" => f = "D" /\ u = [t EXCEPT !.at = <<t.at[1], Clip(t.at[2] - n)>>]
      /\ i.move = "right" => f = "C" /\ u = [t EXCEPT !.at = <<t.at[1], Clip(t.at[2] + n)>>]
  BY DEF Meaning, MoveFinal
<1>4. CASE n = 0
  <2>1. e = <<>>
    BY <1>2, <1>4 DEF CsiN
  <2>2. t.at[1] - n = t.at[1] /\ t.at[1] + n = t.at[1] /\ t.at[2] - n = t.at[2] /\ t.at[2] + n = t.at[2]
    BY <1>4, SameCell
  <2> HIDE DEF n, f, u, e
  <2>3. u = t
    BY <1>1, <1>3, <2>2, SameCell
  <2>4. IsList(<<>>)
    BY ListLiteral DEF Literals
  <2> QED BY <2>1, <2>3, <2>4 DEF Drawn, Shape, u, e
<1>5. CASE n # 0
  <2>1. e = (CSI \o Itoa(n)) \o <<f>>
    BY <1>2, <1>5 DEF CsiN
  <2>2. n \in FiveDigits /\ CsiEnd(f)
    BY <1>1, U16Five, FinalsEnd
  <2> HIDE DEF n, f, e, u
  <2>3. u = [t EXCEPT !.at = Moved(t.at, f, n)]
    BY <1>1, <1>3 DEF Moved
  <2>4. ASSUME NEW q, Num(q[1]) = n PROVE ObeyCsi(t, NoMark, q, f) = u
    <3>1. f \in {"A", "B", "C", "D"} /\ n = Num(q[1]) /\ n # 0
      BY <1>1, <1>5, <2>4
    <3>2. ObeyCsi(t, NoMark, q, f) = [t EXCEPT !.at = Moved(t.at, f, n)]
      BY <3>1, CsiMoves
    <3> QED BY <2>3, <3>2
  <2>5. Drawn((CSI \o Itoa(n)) \o <<f>>, t, u)
    BY <2>2, <2>4, DrawnNumber
  <2> QED BY <2>1, <2>5 DEF e, u
<1> QED BY <1>4, <1>5

(* A goto is drawn, with the arguments of 0 and 1 left out. *)
LEMMA DrawnGoto ==
  ASSUME NEW t, NEW i, i.kind = "cursor", i.move = "goto", i.row \in U16, i.col \in U16
  PROVE  Drawn(EncodeDyn(i), t, Meaning(t, i))
<1> DEFINE n == i.row
           m == i.col
           r == Itoa(n)
           c == Itoa(m)
           s == <<Semicolon>>
           f == "H"
           a == (r \o s) \o c
           u == Meaning(t, i)
<1>1. EncodeDyn(i) = (((CSI \o r) \o s) \o c) \o <<f>>
  BY Zenon DEF EncodeDyn, CursorBytes, Semicolon, MoveFinal
<1>2. u = [t EXCEPT !.at = <<Clip(n), Clip(m)>>]
  BY DEF Meaning
<1>3. n \in FiveDigits /\ m \in FiveDigits
  BY U16Five
<1>4. IsList(r) /\ IsList(c) /\ IsList(s) /\ IsList(CSI)
  BY <1>3, ItoaSize, ListLiteral, FrameSize DEF Literals, FiveDigits
<1> HIDE DEF n, m, s
<1>5. Written(a, n, m)
  BY <1>3, TwoWritten DEF s
<1> HIDE DEF r, c, u
<1>6. ((CSI \o r) \o s) \o c = CSI \o a
  <2>1. (CSI \o r) \o s = CSI \o (r \o s)
    <3>1. IsList(CSI) /\ IsList(r) /\ IsList(s)
      BY <1>4
    <3> HIDE DEF a, f
    <3> QED BY <3>1, CatAssoc
  <2> DEFINE d == r \o s
  <2>2. IsList(d)
    <3>1. InTurn(r, s, d)
      BY <1>4, ListsJoined
    <3> QED BY <3>1 DEF InTurn
  <2> HIDE DEF d
  <2>3. (CSI \o d) \o c = CSI \o (d \o c)
    BY SMTT(40), <1>4, <2>2, CatAssoc
  <2> QED BY <2>1, <2>3 DEF d
<1> HIDE DEF a
<1>7. Argument(a) /\ (a = <<>> \/ a[1] \notin Marks) /\ Num(Split(a)[1]) = n /\ Num(Split(a)[Len(Split(a))]) = m
  BY <1>5 DEF Written, Reads
<1>8. ObeyCsi(t, NoMark, Split(a), f) = u
  BY <1>2, <1>7, CsiPlaces
<1>9. CsiEnd(f)
  BY FinalsEnd
<1> HIDE DEF f
<1>10. Drawn((CSI \o a) \o <<f>>, t, u)
  BY <1>7, <1>8, <1>9, DrawnPlain
<1> QED BY <1>1, <1>6, <1>10 DEF u

(* Save and restore are drawn. *)
LEMMA DrawnPlace ==
  ASSUME NEW t, NEW i, i.kind = "cursor", i.move \in {"save", "restore"}
  PROVE  Drawn(EncodeDyn(i), t, Meaning(t, i))
<1>1. \A p : Obey(t, "esc", p) = IF p[2] = "7" THEN [t EXCEPT !.saved = t.at] ELSE [t EXCEPT !.at = t.saved]
  BY DEF Obey
<1>2. ASSUME NEW x \in {"7", "8"}, EncodeDyn(i) = <<ESC, x>>,
             Meaning(t, i) = IF x = "7" THEN [t EXCEPT !.saved = t.at] ELSE [t EXCEPT !.at = t.saved]
      PROVE  Drawn(EncodeDyn(i), t, Meaning(t, i))
  <2> DEFINE p == <<ESC, x>>
             u == Meaning(t, i)
  <2>1. p[2] = x
    OBVIOUS
  <2> HIDE DEF p, u
  <2>2. Obey(t, "esc", p) = u
    BY <1>1, <1>2, <2>1 DEF u
  <2>3. Drawn(p, t, u)
    BY <2>2, DrawnEsc DEF p
  <2> QED BY <1>2, <2>3 DEF p, u
<1>3. CASE i.move = "save"
  <2> DEFINE x == "7"
  <2>1. EncodeDyn(i) = <<ESC, x>>
    BY <1>3 DEF EncodeDyn, CursorBytes, MoveFinal
  <2>2. Meaning(t, i) = IF x = "7" THEN [t EXCEPT !.saved = t.at] ELSE [t EXCEPT !.at = t.saved]
    BY <1>3 DEF Meaning
  <2> QED BY <1>2, <2>1, <2>2
<1>4. CASE i.move = "restore"
  <2> DEFINE x == "8"
  <2>1. EncodeDyn(i) = <<ESC, x>>
    BY <1>4 DEF EncodeDyn, CursorBytes, MoveFinal
  <2>2. Meaning(t, i) = IF x = "7" THEN [t EXCEPT !.saved = t.at] ELSE [t EXCEPT !.at = t.saved]
    BY <1>4 DEF Meaning
  <2> QED BY <1>2, <2>1, <2>2
<1> QED BY <1>3, <1>4

-----------------------------------------------------------------------------
(* Erasing, modes and the kitty stack.                                      *)

(* An erase is drawn. *)
LEMMA DrawnErase ==
  ASSUME NEW t, NEW i, i.kind = "erase", i.part \in {"0", "1", "2"}, i.final \in {"K", "J"}
  PROVE  Drawn(EncodeDyn(i), t, Meaning(t, i))
<1> DEFINE d == i.part
           a == <<d>>
           f == i.final
           e == <<f>>
           n == DigitValue[d]
           u == Meaning(t, i)
<1>1. EncodeDyn(i) = CSI \o <<d, f>>
  BY DEF EncodeDyn, EraseBytes
<1>2. u = [t EXCEPT !.erased = <<n, f>>]
  BY DEF Meaning
<1>3. d \in Digits /\ f \in {"J", "K"} /\ CsiEnd(f)
  BY Zenon, ByteClasses, FinalsEnd
<1> HIDE DEF d, f, n, u
<1>4. ListOf(a, Digits) /\ a # <<>>
  BY <1>3 DEF ListOf
<1>5. IsList(a) /\ IsList(e) /\ IsList(CSI) /\ <<d, f>> = a \o e
  BY Zenon, ListLiteral, FrameSize, PairIs DEF Literals
<1>6. Num(a) = n
  BY <1>3, NumOne DEF n
<1> HIDE DEF a, e
<1>7. EncodeDyn(i) = (CSI \o a) \o e
  <2>1. IsList(CSI) /\ IsList(a) /\ IsList(e)
    BY <1>5
  <2>2. (CSI \o a) \o e = CSI \o (a \o e)
    BY <2>1, CatAssoc
  <2> QED BY Zenon, <1>1, <1>5, <2>2
<1>8. Argument(a) /\ a[1] \notin Marks /\ Split(a) = <<a>>
  BY <1>4, NumeralParts
<1>9. ObeyCsi(t, NoMark, Split(a), f) = u
  <2> DEFINE q == <<a>>
  <2>1. q[1] = a
    OBVIOUS
  <2> HIDE DEF q
  <2>4. f \in {"J", "K"} /\ n = Num(q[1])
    BY <1>3, <1>6, <2>1
  <2>2. ObeyCsi(t, NoMark, q, f) = [t EXCEPT !.erased = <<n, f>>]
    BY <2>4 DEF ObeyCsi
  <2>3. ObeyCsi(t, NoMark, q, f) = u
    BY <1>2, <2>2
  <2> QED BY <1>8, <2>3 DEF q
<1>10. Drawn((CSI \o a) \o <<f>>, t, u)
  BY <1>3, <1>8, <1>9, DrawnPlain
<1> QED BY <1>7, <1>10 DEF u, e

(* The private marks. *)
LEMMA MarksAre == "?" \in Marks /\ ">" \in Marks /\ "<" \in Marks /\ "=" \in Marks
BY DEF Marks

(* A mode set or reset is drawn. *)
LEMMA DrawnMode ==
  ASSUME NEW t, NEW i, i.kind \in {"modeSet", "modeReset"}, i.mode \in DOMAIN ModeNumber
  PROVE  Drawn(EncodeDyn(i), t, Meaning(t, i))
<1> DEFINE n == ModeNumber[i.mode]
           f == IF i.kind = "modeSet" THEN "h" ELSE "l"
           m == "?"
           u == Meaning(t, i)
<1>1. EncodeDyn(i) = ((CSI \o <<m>>) \o Itoa(n)) \o <<f>>
  BY DEF EncodeDyn, ModeBytes
<1>2. u = IF f = "h" THEN [t EXCEPT !.modes = @ \cup {n}] ELSE [t EXCEPT !.modes = @ \ {n}]
  BY DEF Meaning
<1>3. f \in {"h", "l"} /\ CsiEnd(f) /\ m \in Marks
  BY FinalsEnd, MarksAre
<1>4. n \in FiveDigits
  BY DEF ModeNumber, FiveDigits
<1> HIDE DEF n, f, m, u
<1>5. ASSUME NEW q, Num(q[1]) = n PROVE ObeyCsi(t, m, q, f) = u
  <2>1. CASE f = "h"
    <3>1. ObeyCsi(t, m, q, "h") = [t EXCEPT !.modes = @ \cup {Num(q[1])}]
      BY CsiModes
    <3> QED BY <1>2, <1>5, <2>1, <3>1
  <2>2. CASE f = "l"
    <3>1. ObeyCsi(t, m, q, "l") = [t EXCEPT !.modes = @ \ {Num(q[1])}]
      BY CsiModes
    <3> QED BY <1>2, <1>5, <2>2, <3>1
  <2> QED BY <1>3, <2>1, <2>2
<1>6. Drawn(((CSI \o <<m>>) \o Itoa(n)) \o <<f>>, t, u)
  BY <1>3, <1>4, <1>5, DrawnMarkedNumber
<1> QED BY Zenon, <1>1, <1>6 DEF u

(* A u8 has five digits at most. *)
LEMMA OctetFive == \A n \in 0 .. 255 : n \in FiveDigits
BY DEF FiveDigits

(* A kitty push is drawn. *)
LEMMA DrawnPush ==
  ASSUME NEW t, NEW i, i.kind = "kitty", i.op = "push", i.flags \in 0 .. 255
  PROVE  Drawn(EncodeDyn(i), t, Meaning(t, i))
<1> DEFINE n == i.flags
           f == "u"
           m == ">"
           u == Meaning(t, i)
<1>1. EncodeDyn(i) = ((CSI \o <<m>>) \o Itoa(n)) \o <<f>>
  BY DEF EncodeDyn, KittyBytes
<1>2. u = [t EXCEPT !.kitty = Append(@, Bits(n))]
  BY DEF Meaning
<1>3. CsiEnd(f) /\ m \in Marks /\ n \in FiveDigits
  BY FinalsEnd, MarksAre, OctetFive
<1>4. \A q : ObeyCsi(t, m, q, f) = [t EXCEPT !.kitty = Append(@, Bits(Num(q[1])))]
  BY Zenon, CsiKitty
<1> HIDE DEF n, f, m, u
<1>5. \A q : Num(q[1]) = n => ObeyCsi(t, m, q, f) = u
  BY Zenon, <1>2, <1>4
<1>6. Drawn(((CSI \o <<m>>) \o Itoa(n)) \o <<f>>, t, u)
  BY <1>3, <1>5, DrawnMarkedNumber
<1> QED BY Zenon, <1>1, <1>6 DEF u

(* A kitty pop is drawn, of zero as of one. *)
LEMMA DrawnPop ==
  ASSUME NEW t, NEW i, i.kind = "kitty", i.op = "pop", i.count \in U16
  PROVE  Drawn(EncodeDyn(i), t, Meaning(t, i))
<1> DEFINE n == PopCount(i.count)
           f == "u"
           m == "<"
           u == Meaning(t, i)
<1>1. EncodeDyn(i) = ((CSI \o <<m>>) \o Itoa(n)) \o <<f>>
  BY DEF EncodeDyn, KittyBytes
<1>2. u = [t EXCEPT !.kitty = PopStack(@, n)]
  BY DEF Meaning, PopCount
<1>3. CsiEnd(f) /\ m \in Marks
  BY FinalsEnd, MarksAre
<1>7. n \in FiveDigits
  <2>1. i.count \in FiveDigits /\ 1 \in FiveDigits
    BY U16Five DEF FiveDigits
  <2> QED BY <2>1 DEF PopCount
<1>4. \A q : ObeyCsi(t, m, q, f) = [t EXCEPT !.kitty = PopStack(@, Num(q[1]))]
  BY Zenon, CsiKitty
<1> HIDE DEF n, f, m, u
<1>5. \A q : Num(q[1]) = n => ObeyCsi(t, m, q, f) = u
  BY <1>2, <1>4
<1>6. Drawn(((CSI \o <<m>>) \o Itoa(n)) \o <<f>>, t, u)
  BY <1>3, <1>5, <1>7, DrawnMarkedNumber
<1> QED BY Zenon, <1>1, <1>6 DEF u

(* A kitty set is drawn in each of its modes. *)
LEMMA DrawnSet ==
  ASSUME NEW t, NEW i, i.kind = "kitty", i.op = "set", i.flags \in 0 .. 255,
         i.mode \in DOMAIN SetModeNumber
  PROVE  Drawn(EncodeDyn(i), t, Meaning(t, i))
<1> DEFINE n == i.flags
           k == SetModeNumber[i.mode]
           r == Itoa(n)
           c == Itoa(k)
           s == <<Semicolon>>
           f == "u"
           m == "="
           g == CSI \o <<m>>
           a == (r \o s) \o c
           u == Meaning(t, i)
<1>1. EncodeDyn(i) = (((g \o r) \o s) \o c) \o <<f>>
  BY Zenon DEF EncodeDyn, KittyBytes, Semicolon
<1>2. /\ k = 1 => u = TopSet(t, Bits(n))
      /\ k = 2 => u = TopSet(t, KittyTop(t) \cup Bits(n))
      /\ k = 3 => u = TopSet(t, KittyTop(t) \ Bits(n))
  <2>1. (k = 1 => i.mode = "set") /\ (k = 2 => i.mode = "or") /\ (k = 3 => i.mode = "andNot")
    BY DEF SetModeNumber
  <2> HIDE DEF k
  <2>2. u = [t EXCEPT !.kitty[Len(t.kitty)] =
               CASE i.mode = "set" -> Bits(i.flags)
                 [] i.mode = "or" -> t.kitty[Len(t.kitty)] \cup Bits(i.flags)
                 [] i.mode = "andNot" -> t.kitty[Len(t.kitty)] \ Bits(i.flags)]
    BY Zenon DEF Meaning
  <2>3. ASSUME i.mode = "set" PROVE u = TopSet(t, Bits(n))
    <3>1. (CASE i.mode = "set" -> Bits(i.flags)
                 [] i.mode = "or" -> t.kitty[Len(t.kitty)] \cup Bits(i.flags)
                 [] i.mode = "andNot" -> t.kitty[Len(t.kitty)] \ Bits(i.flags)) = Bits(n)
      BY <2>3
    <3> HIDE DEF u
    <3> QED BY Zenon, <2>2, <3>1 DEF TopSet
  <2>4. ASSUME i.mode = "or" PROVE u = TopSet(t, KittyTop(t) \cup Bits(n))
    <3>1. (CASE i.mode = "set" -> Bits(i.flags)
                 [] i.mode = "or" -> t.kitty[Len(t.kitty)] \cup Bits(i.flags)
                 [] i.mode = "andNot" -> t.kitty[Len(t.kitty)] \ Bits(i.flags)) = KittyTop(t) \cup Bits(n)
      BY <2>4 DEF KittyTop
    <3> HIDE DEF u
    <3> QED BY Zenon, <2>2, <3>1 DEF TopSet
  <2>5. ASSUME i.mode = "andNot" PROVE u = TopSet(t, KittyTop(t) \ Bits(n))
    <3>1. (CASE i.mode = "set" -> Bits(i.flags)
                 [] i.mode = "or" -> t.kitty[Len(t.kitty)] \cup Bits(i.flags)
                 [] i.mode = "andNot" -> t.kitty[Len(t.kitty)] \ Bits(i.flags)) = KittyTop(t) \ Bits(n)
      BY <2>5 DEF KittyTop
    <3> HIDE DEF u
    <3> QED BY Zenon, <2>2, <3>1 DEF TopSet
  <2> HIDE DEF u
  <2> QED BY <2>1, <2>3, <2>4, <2>5
<1>3. n \in FiveDigits /\ k \in {1, 2, 3} /\ k \in FiveDigits /\ m \in Marks /\ CsiEnd(f)
  BY OctetFive, MarksAre, FinalsEnd DEF SetModeNumber
<1>4. IsList(r) /\ IsList(c) /\ IsList(s) /\ IsList(g)
  <2>1. IsList(CSI) /\ IsList(<<m>>)
    BY ListLiteral, FrameSize DEF Literals
  <2> HIDE DEF m
  <2>2. InTurn(CSI, <<m>>, g)
    BY <2>1, ListsJoined
  <2> QED BY <1>3, <2>2, ItoaSize, ListLiteral DEF Literals, FiveDigits, InTurn
<1> HIDE DEF n, k, s, m
<1>5. Written(a, n, k)
  BY <1>3, TwoWritten DEF s
<1> HIDE DEF r, c, u, g
<1>6. ((g \o r) \o s) \o c = g \o a
  <2>1. (g \o r) \o s = g \o (r \o s)
    BY <1>4, CatAssoc
  <2> DEFINE d == r \o s
  <2>2. IsList(d)
    <3>1. InTurn(r, s, d)
      BY <1>4, ListsJoined
    <3> QED BY <3>1 DEF InTurn
  <2> HIDE DEF d
  <2>4. IsList(g) /\ IsList(d) /\ IsList(c)
    BY <1>4, <2>2
  <2>3. (g \o d) \o c = g \o (d \o c)
    BY <2>4, CatAssoc
  <2> QED BY <2>1, <2>3 DEF d
<1> HIDE DEF a
<1>7. Argument(a) /\ Num(Split(a)[1]) = n /\ Num(Split(a)[Len(Split(a))]) = k
  BY <1>5 DEF Written, Reads
<1>8. ObeyCsi(t, m, Split(a), f) = u
  <2> DEFINE q == Split(a)
  <2>1. /\ Num(q[Len(q)]) = 1 => ObeyCsi(t, m, q, f) = TopSet(t, Bits(Num(q[1])))
        /\ Num(q[Len(q)]) = 2 => ObeyCsi(t, m, q, f) = TopSet(t, KittyTop(t) \cup Bits(Num(q[1])))
        /\ Num(q[Len(q)]) = 3 => ObeyCsi(t, m, q, f) = TopSet(t, KittyTop(t) \ Bits(Num(q[1])))
    BY Zenon, CsiKitty DEF m
  <2>2. Num(q[Len(q)]) = k /\ Num(q[1]) = n
    BY <1>7
  <2> HIDE DEF q, f
  <2>3. ASSUME k = 1 PROVE ObeyCsi(t, m, q, f) = u
    BY <1>2, <2>1, <2>2, <2>3
  <2>4. ASSUME k = 2 PROVE ObeyCsi(t, m, q, f) = u
    BY <1>2, <2>1, <2>2, <2>4
  <2>5. ASSUME k = 3 PROVE ObeyCsi(t, m, q, f) = u
    BY <1>2, <2>1, <2>2, <2>5
  <2>6. ObeyCsi(t, m, q, f) = u
    BY <1>3, <2>3, <2>4, <2>5
  <2> QED BY <2>6 DEF q
<1> HIDE DEF f
<1>9. Drawn(((CSI \o <<m>>) \o a) \o <<f>>, t, u)
  BY <1>3, <1>7, <1>8, DrawnMarked
<1> QED BY Zenon, <1>1, <1>6, <1>9 DEF u, g

(* A question changes nothing. *)
LEMMA DrawnAsk ==
  ASSUME NEW b, CsiBody(b), b[Len(b)] \in {"n", "c", "p"}, NEW t
  PROVE  Drawn(CSI \o b, t, t)
<1> DEFINE p == CSI \o b
           a == SubSeq(p, 3, Len(p) - 1)
           f == p[Len(p)]
<1>1. InTurn(CSI, b, p) /\ Len(CSI) = 2
  BY ListsJoined, FrameSize DEF CsiBody, Size
<1>2. f = b[Len(b)]
  <2>1. Len(b) \in Nat /\ Len(b) >= 1
    BY <1>1 DEF CsiBody, InTurn
  <2>2. Len(p) = 2 + Len(b) /\ p[2 + Len(b)] = b[Len(b)]
    <3>1. Len(b) \in 1 .. Len(b)
      BY <2>1
    <3> HIDE DEF p
    <3> QED BY <1>1, <3>1 DEF InTurn
  <2> HIDE DEF p
  <2> QED BY <2>2
<1>3. /\ a = <<>> \/ a[1] \notin Marks => Obey(t, "csi", p) = ObeyCsi(t, NoMark, Split(a), f)
      /\ a # <<>> /\ a[1] \in Marks => Obey(t, "csi", p) = ObeyCsi(t, a[1], Split(Tail(a)), f)
  BY Zenon, ObeyCsiIs
<1> HIDE DEF a, f
<1>4. \A lead, q : ObeyCsi(t, lead, q, f) = t
  BY <1>2, CsiAsks
<1>5. Obey(t, "csi", p) = t
  BY <1>3, <1>4
<1> HIDE DEF p
<1>6. Drawn(p, t, t)
  BY Zenon, <1>5, DrawnCsi DEF p
<1> QED BY <1>6 DEF p

(* The kitty query is drawn: it changes nothing. *)
LEMMA DrawnKittyQuery == ASSUME NEW t PROVE Drawn(QueryBytes["kitty"], t, t)
<1> DEFINE m == "?"
           f == "u"
           a == <<>>
           g == CSI \o <<m>>
<1>1. QueryBytes["kitty"] = CSI \o <<m, f>>
  BY DEF QueryBytes
<1>2. m \in Marks /\ CsiEnd(f) /\ \A q : ObeyCsi(t, m, q, f) = t
  BY MarksAre, FinalsEnd, CsiAsksKitty
<1> HIDE DEF m, f
<1>3. IsList(CSI) /\ IsList(<<m>>) /\ IsList(<<f>>) /\ <<m, f>> = <<m>> \o <<f>>
  BY Zenon, ListLiteral, FrameSize, PairIs DEF Literals
<1>4. CSI \o <<m, f>> = g \o <<f>>
  BY <1>3, CatAssoc
<1>5. IsList(g)
  <2>1. InTurn(CSI, <<m>>, g)
    BY <1>3, ListsJoined
  <2> QED BY <2>1 DEF InTurn
<1> HIDE DEF g
<1>6. g \o <<>> = g
  BY <1>5 DEF IsList
<1>7. Argument(a)
  <2>1. IsList(a) /\ Len(a) = 0
    BY ListLiteral DEF Literals, Size
  <2> QED BY <2>1 DEF Argument
<1>8. Drawn(((CSI \o <<m>>) \o a) \o <<f>>, t, t)
  <2>1. ObeyCsi(t, m, Split(a), f) = t
    BY <1>2
  <2> HIDE DEF a
  <2> QED BY <1>2, <1>7, <2>1, DrawnMarked
<1> QED BY Zenon, <1>1, <1>4, <1>6, <1>8 DEF g

-----------------------------------------------------------------------------
(* What an OSC says.                                                        *)

(* What an OSC sequence asks for is in the bytes between its front and its  *)
(* end.                                                                     *)
LEMMA ObeyOscIs ==
  ASSUME NEW t, NEW b, IsList(b), NEW p, p = (OSC \o b) \o ST
  PROVE  Obey(t, "osc", p) = ObeyOsc(t, b)
<1>1. IsList(OSC) /\ Len(OSC) = 2 /\ IsList(ST) /\ Len(ST) = 2
  BY FrameSize DEF Size
<1>2. AllInTurn(OSC, b, ST, p)
  BY <1>1, ThreeJoined
<1>3. SubSeq(p, Len(OSC) + 1, Len(OSC) + Len(b)) = b
  BY Zenon, <1>1, <1>2, PartsFound
<1>4. Len(b) \in Nat
  BY DEF IsList
<1>5. Len(p) = 2 + Len(b) + 2
  BY <1>1, <1>2 DEF AllInTurn
<1>6. Len(OSC) + 1 = 3 /\ Len(OSC) + Len(b) = Len(p) - 2
  BY <1>1, <1>4, <1>5
<1>7. SubSeq(p, 3, Len(p) - 2) = b
  BY <1>3, <1>6
<1>8. Obey(t, "osc", p) = ObeyOsc(t, SubSeq(p, 3, Len(p) - 2))
  BY Zenon DEF Obey
<1> QED BY Zenon, <1>7, <1>8

(* A split text has one part at least. *)
LEMMA SplitSome ==
  ASSUME NEW s, IsList(s)
  PROVE  IsList(Split(s)) /\ Len(Split(s)) \in Nat /\ Len(Split(s)) >= 1
<1> DEFINE A == Range(s)
           V == Parts(A)
           step == SplitStep(A)
<1>1. ListOf(s, A)
  BY DEF IsList, ListOf
<1>2. NoParts \in V /\ StepOf(step, V, A)
  BY SplitStepType DEF NoParts
<1>3. Split(s) = Fold(step, NoParts, s)
  BY <1>1, SplitIsFold DEF NoParts
<1> HIDE DEF step, V, A
<1>4. Fold(step, NoParts, s) \in V
  BY <1>1, <1>2, FoldTyped
<1>5. Split(s) \in Parts(A)
  BY <1>3, <1>4 DEF V
<1>6. IsList(Split(s)) /\ Len(Split(s)) >= 1
  BY <1>5, PartsAre
<1> QED BY <1>6 DEF IsList

(* The number that says what it is about, and the last part.                *)
LEMMA OscParts ==
  ASSUME NEW A, Semicolon \notin A, NEW c, ListOf(c, A), NEW r, IsList(r),
         NEW q, q = Split((c \o <<Semicolon>>) \o r)
  PROVE  q[1] = c /\ q[Len(q)] = Split(r)[Len(Split(r))]
<1> DEFINE f == <<c>>
           g == Split(r)
<1>1. IsList(c)
  BY ListIn DEF ListOf
<1>2. Split(c) = f
  BY SplitOne
<1>3. q = f \o g
  BY Zenon, <1>1, <1>2, SplitCat
<1>4. IsList(f) /\ Len(f) = 1 /\ f[1] = c
  BY ListLiteral DEF Literals, Size
<1>5. IsList(g) /\ Len(g) \in Nat /\ Len(g) >= 1
  BY SplitSome
<1> HIDE DEF f, g
<1>6. InTurn(f, g, q)
  BY Zenon, <1>3, <1>4, <1>5, ListsJoined
<1>7. q[1] = c
  <2>1. 1 \in 1 .. Len(f)
    BY <1>4
  <2> QED BY <1>4, <1>6, <2>1 DEF InTurn
<1>8. q[Len(q)] = g[Len(g)]
  <2>1. Len(q) = 1 + Len(g)
    BY <1>4, <1>6 DEF InTurn
  <2>2. Len(g) \in 1 .. Len(g)
    BY <1>5
  <2>3. q[1 + Len(g)] = g[Len(g)]
    BY <1>4, <1>6, <2>2 DEF InTurn
  <2> QED BY <2>1, <2>3
<1> QED BY <1>7, <1>8 DEF g

(* The same when the rest is one part. *)
LEMMA OscTwoParts ==
  ASSUME NEW A, Semicolon \notin A, NEW c, ListOf(c, A), NEW B, Semicolon \notin B, NEW r, ListOf(r, B),
         NEW q, q = Split((c \o <<Semicolon>>) \o r)
  PROVE  q[1] = c /\ q[Len(q)] = r
<1>1. IsList(r)
  BY ListIn DEF ListOf
<1>2. Split(r) = <<r>>
  BY SplitOne
<1>3. Len(<<r>>) = 1 /\ <<r>>[1] = r
  OBVIOUS
<1>4. q[1] = c /\ q[Len(q)] = Split(r)[Len(Split(r))]
  BY <1>1, OscParts
<1> QED BY <1>2, <1>3, <1>4

(* The numbers of the OSCs have no separator. *)
LEMMA OscCodes ==
  /\ ListOf(<<"7">>, {"7"}) /\ ListOf(<<"8">>, {"8"}) /\ ListOf(<<"5", "2">>, {"5", "2"})
  /\ ListOf(<<"1", "3", "3">>, {"1", "3"})
  /\ Semicolon \notin {"7"} /\ Semicolon \notin {"8"} /\ Semicolon \notin {"5", "2"}
  /\ Semicolon \notin {"1", "3"}
BY DEF ListOf, Semicolon

(* What the terminal does on an OSC, by its first part. *)
LEMMA OscObeyed ==
  ASSUME NEW t, NEW b, NEW q, q = Split(b)
  PROVE  /\ q[1] = <<"7">> => ObeyOsc(t, b) = [t EXCEPT !.cwd = PathOf(q[Len(q)])]
         /\ q[1] = <<"8">> => ObeyOsc(t, b) = [t EXCEPT !.link = LinkOf(b)]
         /\ q[1] = <<"5", "2">> /\ q[Len(q)] # <<"?">> =>
              ObeyOsc(t, b) = [t EXCEPT !.clip = IF IsBase64(q[Len(q)]) THEN Unbase64(q[Len(q)]) ELSE <<>>]
         /\ q[1] = <<"5", "2">> /\ q[Len(q)] = <<"?">> => ObeyOsc(t, b) = t
         /\ q[1] = <<"1", "3", "3">> => ObeyOsc(t, b) = [t EXCEPT !.mark = MarkNamed(q[Len(q)][1])]
<1>1. /\ <<"7">> # <<"8">> /\ <<"7">> # <<"5", "2">> /\ <<"7">> # <<"1", "3", "3">>
      /\ <<"8">> # <<"5", "2">> /\ <<"8">> # <<"1", "3", "3">> /\ <<"5", "2">> # <<"1", "3", "3">>
  OBVIOUS
<1>2. ObeyOsc(t, b) =
        CASE q[1] = <<"7">> -> [t EXCEPT !.cwd = PathOf(q[Len(q)])]
       [] q[1] = <<"8">> -> [t EXCEPT !.link = LinkOf(b)]
       [] q[1] = <<"5", "2">> /\ q[Len(q)] # <<"?">> ->
            [t EXCEPT !.clip = IF IsBase64(q[Len(q)]) THEN Unbase64(q[Len(q)]) ELSE <<>>]
       [] q[1] = <<"1", "3", "3">> -> [t EXCEPT !.mark = MarkNamed(q[Len(q)][1])]
       [] OTHER -> t
  BY Zenon DEF ObeyOsc
<1> DEFINE a == <<"7">>
           c == <<"8">>
           d == <<"5", "2">>
           e == <<"1", "3", "3">>
           n == <<"?">>
           z == q[Len(q)]
           y == q[1]
<1>3. /\ a # c /\ a # d /\ a # e /\ c # d /\ c # e /\ d # e
  BY <1>1
<1>4. ObeyOsc(t, b) =
        CASE y = a -> [t EXCEPT !.cwd = PathOf(z)]
       [] y = c -> [t EXCEPT !.link = LinkOf(b)]
       [] y = d /\ z # n -> [t EXCEPT !.clip = IF IsBase64(z) THEN Unbase64(z) ELSE <<>>]
       [] y = e -> [t EXCEPT !.mark = MarkNamed(z[1])]
       [] OTHER -> t
  BY <1>2
<1> HIDE DEF a, c, d, e, n, z, y
<1>5. y = a => ObeyOsc(t, b) = [t EXCEPT !.cwd = PathOf(z)]
  BY <1>3, <1>4
<1>6. y = c => ObeyOsc(t, b) = [t EXCEPT !.link = LinkOf(b)]
  BY <1>3, <1>4
<1>7. y = d /\ z # n => ObeyOsc(t, b) = [t EXCEPT !.clip = IF IsBase64(z) THEN Unbase64(z) ELSE <<>>]
  BY <1>3, <1>4
<1>8. y = d /\ z = n => ObeyOsc(t, b) = t
  BY <1>3, <1>4
<1>9. y = e => ObeyOsc(t, b) = [t EXCEPT !.mark = MarkNamed(z[1])]
  BY <1>3, <1>4
<1> QED BY Zenon, <1>5, <1>6, <1>7, <1>8, <1>9 DEF a, c, d, e, n, z, y

(* A text that does not end the sequence it stands in. *)
Quiet(b) == IsList(b) /\ \A i \in 1 .. Len(b) : b[i] # ESC

(* Texts without ESC, end to end. *)
LEMMA QuietCat ==
  ASSUME NEW a, Quiet(a), NEW b, Quiet(b)
  PROVE  Quiet(a \o b) /\ Len(a \o b) = Len(a) + Len(b) /\ Len(a) \in Nat /\ Len(b) \in Nat
<1> DEFINE q == a \o b
<1>1. IsList(a) /\ IsList(b)
  BY DEF Quiet
<1>2. InTurn(a, b, q)
  BY <1>1, ListsJoined
<1> HIDE DEF q
<1>3. ASSUME NEW i \in 1 .. Len(q) PROVE q[i] # ESC
  <2>1. Len(q) = Len(a) + Len(b) /\ Len(a) \in Nat /\ Len(b) \in Nat
    BY <1>2 DEF InTurn
  <2>2. CASE i <= Len(a)
    <3>1. i \in 1 .. Len(a)
      BY <2>1, <2>2
    <3>2. q[i] = a[i]
      BY <1>2, <3>1 DEF InTurn
    <3> QED BY <3>1, <3>2 DEF Quiet
  <2>3. CASE ~(i <= Len(a))
    <3> DEFINE j == i - Len(a)
    <3>1. j \in 1 .. Len(b) /\ i = Len(a) + j
      BY <2>1, <2>3
    <3> HIDE DEF j
    <3>2. q[i] = b[j]
      BY <1>2, <3>1 DEF InTurn
    <3> QED BY <3>1, <3>2 DEF Quiet
  <2> QED BY <2>2, <2>3
<1>4. IsList(q) /\ Len(q) = Len(a) + Len(b) /\ Len(a) \in Nat /\ Len(b) \in Nat
  BY <1>2 DEF InTurn
<1>5. Quiet(q)
  BY <1>3, <1>4 DEF Quiet
<1> QED BY <1>4, <1>5 DEF q

(* A byte other than ESC. *)
LEMMA QuietOne == ASSUME NEW x, x # ESC PROVE Quiet(<<x>>) /\ Len(<<x>>) = 1
<1> DEFINE s == <<x>>
<1>1. IsList(s) /\ Len(s) = 1 /\ s[1] = x
  BY ListLiteral DEF Literals, Size
<1> HIDE DEF s
<1>2. Quiet(s)
  <2>1. \A i \in 1 .. Len(s) : i = 1
    BY <1>1
  <2> QED BY <1>1, <2>1 DEF Quiet
<1> QED BY <1>1, <1>2 DEF s

(* An OSC of a text without ESC is drawn as the terminal obeys it. *)
LEMMA DrawnText ==
  ASSUME NEW b, Quiet(b), Len(b) >= 1, NEW t, NEW u, ObeyOsc(t, b) = u
  PROVE  Drawn((OSC \o b) \o ST, t, u)
<1> DEFINE p == (OSC \o b) \o ST
<1>1. IsList(b) /\ OscBody(b)
  BY DEF Quiet, OscBody
<1>2. Obey(t, "osc", p) = ObeyOsc(t, b)
  BY Zenon, <1>1, ObeyOscIs
<1>3. Obey(t, "osc", p) = u
  BY <1>2
<1> HIDE DEF p
<1>4. Drawn(p, t, u)
  BY Zenon, <1>1, <1>3, DrawnOsc DEF p
<1> QED BY <1>4 DEF p

(* Five bytes, put together in two ways. *)
LEMMA FiveOf ==
  ASSUME NEW a, NEW b, NEW c, NEW d, NEW e
  PROVE  /\ (<<a, b, c>> \o <<d>>) \o <<e>> = <<a, b, c, d, e>>
         /\ (<<a, b>> \o <<c>>) \o (<<d>> \o <<e>>) = <<a, b, c, d, e>>
<1> DEFINE q == <<a, b, c, d, e>>
<1>1. IsList(q) /\ Len(q) = 5 /\ q[1] = a /\ q[2] = b /\ q[3] = c /\ q[4] = d /\ q[5] = e
  BY FiveBytes DEF Size
<1>2. ASSUME NEW p, IsList(p), Len(p) = 5, p[1] = a, p[2] = b, p[3] = c, p[4] = d, p[5] = e
      PROVE  p = q
  <2> HIDE DEF q
  <2>1. \A i \in 1 .. Len(p) : i = 1 \/ i = 2 \/ i = 3 \/ i = 4 \/ i = 5
    BY <1>2
  <2>2. \A i \in 1 .. Len(p) : p[i] = q[i]
    BY <1>1, <1>2, <2>1
  <2> QED BY <1>1, <1>2, <2>2, SameList
<1> HIDE DEF q
<1>3. (<<a, b, c>> \o <<d>>) \o <<e>> = q
  <2> DEFINE x == <<a, b, c>>
             y == <<d>>
             z == <<e>>
             p == (x \o y) \o z
  <2>1. IsList(x) /\ IsList(y) /\ IsList(z)
    BY ListLiteral DEF Literals
  <2>2. /\ Len(x) = 3 /\ x[1] = a /\ x[2] = b /\ x[3] = c
        /\ Len(y) = 1 /\ y[1] = d /\ Len(z) = 1 /\ z[1] = e
    OBVIOUS
  <2> HIDE DEF x, y, z
  <2>3. AllInTurn(x, y, z, p)
    BY <2>1, ThreeJoined
  <2> HIDE DEF p
  <2>4. IsList(p) /\ Len(p) = 5 /\ p[1] = a /\ p[2] = b /\ p[3] = c /\ p[4] = d /\ p[5] = e
    BY <2>2, <2>3 DEF AllInTurn
  <2>5. p = q
    BY <1>2, <2>4
  <2> QED BY <2>5 DEF p, x, y, z
<1>4. (<<a, b>> \o <<c>>) \o (<<d>> \o <<e>>) = q
  <2> DEFINE x == <<a, b>>
             y == <<c>>
             z == <<d, e>>
             p == (x \o y) \o z
  <2>1. IsList(x) /\ IsList(y) /\ IsList(z)
    BY ListLiteral DEF Literals
  <2>2. /\ Len(x) = 2 /\ x[1] = a /\ x[2] = b /\ Len(y) = 1 /\ y[1] = c
        /\ Len(z) = 2 /\ z[1] = d /\ z[2] = e
    OBVIOUS
  <2>6. <<d>> \o <<e>> = z
    BY PairIs
  <2> HIDE DEF x, y, z
  <2>3. AllInTurn(x, y, z, p)
    BY <2>1, ThreeJoined
  <2> HIDE DEF p
  <2>4. IsList(p) /\ Len(p) = 5 /\ p[1] = a /\ p[2] = b /\ p[3] = c /\ p[4] = d /\ p[5] = e
    BY <2>2, <2>3 DEF AllInTurn
  <2>5. p = q
    BY <1>2, <2>4
  <2> QED BY Zenon, <2>5, <2>6 DEF p, x, y
<1> QED BY <1>3, <1>4 DEF q

(* The letter of a mark names it. *)
LEMMA MarkIs ==
  \A m \in DOMAIN MarkLetter :
    MarkNamed(MarkLetter[m]) = m /\ MarkLetter[m] # ESC /\ MarkLetter[m] # Semicolon
<1>1. DOMAIN MarkLetter = {"PromptStart", "CommandStart", "OutputStart", "CommandEnd"}
  BY DEF MarkLetter
<1>2. /\ MarkLetter["PromptStart"] = "A" /\ MarkLetter["CommandStart"] = "B"
      /\ MarkLetter["OutputStart"] = "C" /\ MarkLetter["CommandEnd"] = "D"
  BY DEF MarkLetter
<1>3. /\ MarkNamed("A") = "PromptStart" /\ MarkNamed("B") = "CommandStart"
      /\ MarkNamed("C") = "OutputStart" /\ MarkNamed("D") = "CommandEnd"
  BY DEF MarkNamed
<1>4. \A l \in {"A", "B", "C", "D"} : l # ESC /\ l # Semicolon
  BY Zenon DEF ESC, Semicolon
<1>5. ASSUME NEW m \in DOMAIN MarkLetter
      PROVE  MarkNamed(MarkLetter[m]) = m /\ MarkLetter[m] \in {"A", "B", "C", "D"}
  <2>1. CASE m = "PromptStart"
    BY <1>2, <1>3, <2>1
  <2>2. CASE m = "CommandStart"
    BY <1>2, <1>3, <2>2
  <2>3. CASE m = "OutputStart"
    BY <1>2, <1>3, <2>3
  <2>4. CASE m = "CommandEnd"
    BY <1>2, <1>3, <2>4
  <2> QED BY <1>1, <2>1, <2>2, <2>3, <2>4
<1> QED BY <1>4, <1>5

(* The numbers of the OSCs, byte by byte. *)
LEMMA CodeBytes ==
  /\ Quiet(<<"7">>) /\ Quiet(<<"8">>) /\ Quiet(<<"5", "2">>) /\ Quiet(<<"1", "3", "3">>)
  /\ Quiet(<<Semicolon>>) /\ Quiet(<<"c">>)
  /\ Len(<<"7">>) = 1 /\ Len(<<"8">>) = 1 /\ Len(<<"5", "2">>) = 2 /\ Len(<<"1", "3", "3">>) = 3
  /\ Len(<<Semicolon>>) = 1
<1>1. IsList(<<"7">>) /\ IsList(<<"8">>) /\ IsList(<<"5", "2">>) /\ IsList(<<"1", "3", "3">>)
      /\ IsList(<<Semicolon>>) /\ IsList(<<"c">>)
  BY ListLiteral DEF Literals
<1>2. "7" # ESC /\ "8" # ESC /\ "5" # ESC /\ "2" # ESC /\ "1" # ESC /\ "3" # ESC /\ Semicolon # ESC /\ "c" # ESC
  BY DEF ESC, Semicolon
<1>3. Quiet(<<"7">>) /\ Quiet(<<"8">>) /\ Quiet(<<"c">>) /\ Quiet(<<Semicolon>>)
  BY <1>2, QuietOne
<1>4. Quiet(<<"5", "2">>)
  BY <1>1, <1>2 DEF Quiet
<1>5. Quiet(<<"1", "3", "3">>)
  BY <1>1, <1>2 DEF Quiet
<1>6. /\ Len(<<"7">>) = 1 /\ Len(<<"8">>) = 1 /\ Len(<<"5", "2">>) = 2 /\ Len(<<"1", "3", "3">>) = 3
      /\ Len(<<Semicolon>>) = 1
  OBVIOUS
<1> QED BY <1>3, <1>4, <1>5, <1>6

(* A prompt mark is drawn. *)
LEMMA DrawnMark ==
  ASSUME NEW t, NEW i, i.kind = "osc133", i.mark \in DOMAIN MarkLetter
  PROVE  Drawn(EncodeDyn(i), t, Meaning(t, i))
<1> DEFINE x == MarkLetter[i.mark]
           c == <<"1", "3", "3">>
           s == <<Semicolon>>
           r == <<x>>
           b == (c \o s) \o r
           q == Split(b)
           u == Meaning(t, i)
<1>1. EncodeDyn(i) = (OSC \o <<"1", "3", "3", ";", x>>) \o ST
  BY Zenon DEF EncodeDyn, Osc133Bytes
<1>2. u = [t EXCEPT !.mark = MarkNamed(x)]
  <2>1. MarkNamed(x) = i.mark
    BY MarkIs
  <2>2. u = [t EXCEPT !.mark = i.mark]
    BY DEF Meaning
  <2> HIDE DEF u, x
  <2> QED BY <2>1, <2>2
<1>3. b = <<"1", "3", "3", ";", x>>
  <2> DEFINE one == "1"
             three == "3"
             k == Semicolon
  <2> HIDE DEF one, three, k, x
  <2>1. (<<one, three, three>> \o <<k>>) \o <<x>> = <<one, three, three, k, x>>
    BY ZenonT(60), FiveOf
  <2> QED BY Zenon, <2>1 DEF one, three, k, Semicolon
<1>4. x # ESC /\ x # Semicolon
  BY MarkIs
<1> HIDE DEF x, u
<1>5. r[1] = x
  OBVIOUS
<1>6. Quiet(c) /\ Quiet(s) /\ Quiet(r) /\ Len(c) = 3
  BY <1>4, CodeBytes, QuietOne
<1>7. q[1] = c /\ q[Len(q)] = r
  <2> DEFINE B == {x}
             A == {"1", "3"}
  <2>1. ListOf(r, B) /\ Semicolon \notin B
    BY <1>4 DEF ListOf
  <2>2. ListOf(c, A) /\ Semicolon \notin A
    BY OscCodes
  <2> HIDE DEF A, B, c, r
  <2> QED BY <2>1, <2>2, OscTwoParts
<1>8. q[1] = c => ObeyOsc(t, b) = [t EXCEPT !.mark = MarkNamed(q[Len(q)][1])]
  BY OscObeyed
<1> HIDE DEF c, s, r, q
<1>9. Quiet(b) /\ Len(b) >= 1
  <2>1. Quiet(c \o s) /\ Len(c \o s) = 3 + Len(s) /\ Len(s) \in Nat
    BY Zenon, <1>6, QuietCat
  <2> DEFINE d == c \o s
  <2> HIDE DEF d
  <2>2. Quiet(d) /\ Len(d) = 3 + Len(s) /\ Len(s) \in Nat
    BY <2>1 DEF d
  <2>3. Quiet(d \o r) /\ Len(d \o r) = Len(d) + Len(r) /\ Len(r) \in Nat
    BY Zenon, <1>6, <2>2, QuietCat
  <2> QED BY <2>2, <2>3 DEF d
<1> HIDE DEF b
<1>10. ObeyOsc(t, b) = u
  BY <1>2, <1>5, <1>7, <1>8
<1>11. Drawn((OSC \o b) \o ST, t, u)
  BY <1>9, <1>10, DrawnText
<1> QED BY Zenon, <1>1, <1>3, <1>11 DEF u

-----------------------------------------------------------------------------
(* The clipboard.                                                           *)

(* The bytes of base64, of which none ends a sequence or separates parts.   *)
Sextets == {"="} \cup DOMAIN Base64Value

(* No letter of base64 is a separator. *)
LEMMA LettersPlain == \A i \in 1 .. 64 : Letters64[i] # Semicolon
<1> DEFINE S == {"A", "B", "C", "D", "E", "F", "G", "H", "I", "J", "K", "L", "M",
                 "N", "O", "P", "Q", "R", "S", "T", "U", "V", "W", "X", "Y", "Z",
                 "a", "b", "c", "d", "e", "f", "g", "h", "i", "j", "k", "l", "m",
                 "n", "o", "p", "q", "r", "s", "t", "u", "v", "w", "x", "y", "z",
                 "0", "1", "2", "3", "4", "5", "6", "7", "8", "9", "+", "/"}
<1>1. \A i \in 1 .. 64 : Letters64[i] \in S
  BY DEF Letters64
<1>2. Semicolon \notin S
  BY Zenon DEF Semicolon
<1> HIDE DEF S
<1> QED BY <1>1, <1>2

(* No byte of base64 separates or ends anything. *)
LEMMA SextetBytes == Semicolon \notin Sextets /\ ESC \notin Sextets
<1>1. DOMAIN Base64Value = ToSet(Letters64)
  BY AlphabetIs DEF Base64Value
<1>2. ToSet(Letters64) = {Letters64[i] : i \in 1 .. 64}
  <2>1. DOMAIN Letters64 = 1 .. 64
    BY LettersDiffer DEF IsList
  <2> QED BY <2>1 DEF ToSet
<1>3. \A x \in ToSet(Letters64) : x # Semicolon /\ x # ESC
  <2>1. \A i \in 1 .. 64 : Letters64[i] # Semicolon /\ Letters64[i] # ESC
    BY LettersPlain, LettersDiffer
  <2> QED BY SMTT(40), <1>2, <2>1
<1>4. Semicolon # "=" /\ ESC # "="
  BY DEF Semicolon, ESC
<1> QED BY <1>1, <1>3, <1>4 DEF Sextets

(* A terminal reads a quartet as the decoder does, when it is a valid one.  *)
FourRead(q) ==
  LET n == Word(Pad(q[1]), Pad(q[2]), Pad(q[3]), Pad(q[4]))
  IN SubSeq(<<n \div 65536, (n \div 256) % 256, n % 256>>, 1,
            3 - (IF q[3] = "=" THEN 1 ELSE 0) - (IF q[4] = "=" THEN 1 ELSE 0))

(* The terminal reads base64 in fours. *)
LEMMA FourReadIs ==
  \A s : Unbase64(s) = FlattenSeq([i \in 1 .. Len(Chunks(s, 4)) |-> FourRead(Chunks(s, 4)[i])])
BY DEF Unbase64, FourRead, Pad, Word

(* The terminal reads four valid letters as the decoder does. *)
LEMMA FourSame ==
  ASSUME NEW q, NEW last, QuartetValid(q, last)
  PROVE  FourRead(q) = QuartetBytes(q)
<1> DEFINE v == [i \in 1 .. 4 |-> IF q[i] = "=" THEN 0 ELSE Base64Value[q[i]]]
           w == Word(v[1], v[2], v[3], v[4])
           m == Word(Pad(q[1]), Pad(q[2]), Pad(q[3]), Pad(q[4]))
           j == 3 - (IF q[3] = "=" THEN 1 ELSE 0) - (IF q[4] = "=" THEN 1 ELSE 0)
           k == IF q[3] = "=" THEN 1 ELSE IF q[4] = "=" THEN 2 ELSE 3
           bytes(n) == <<n \div 65536, (n \div 256) % 256, n % 256>>
<1>1. v[1] = Pad(q[1]) /\ v[2] = Pad(q[2]) /\ v[3] = Pad(q[3]) /\ v[4] = Pad(q[4])
  BY DEF Pad
<1>2. w = m
  <2> HIDE DEF v
  <2> QED BY <1>1
<1>3. j = k
  BY DEF QuartetValid
<1>4. QuartetBytes(q) = SubSeq(bytes(w), 1, k)
  BY DEF QuartetBytes, Word
<1>5. FourRead(q) = SubSeq(bytes(m), 1, j)
  BY DEF FourRead
<1> HIDE DEF w, m, j, k, bytes
<1> QED BY <1>2, <1>3, <1>4, <1>5

(* The terminal reads back the base64 of a payload. *)
LEMMA Unbase64Back ==
  ASSUME NEW p, p \in Seq(Octet)
  PROVE  /\ Unbase64(Base64(p)) = p /\ IsBase64(Base64(p))
         /\ ListOf(Base64(p), Sextets) /\ Base64(p) # <<"?">>
<1> DEFINE n == Threes(Len(p))
           c == Chunks(p, 3)
           B == Base64(p)
           D == Chunks(B, 4)
<1>1. /\ n \in Nat /\ IsList(B) /\ Len(B) = 4 * n
      /\ \A i \in 1 .. n, j \in 1 .. 4 : B[4 * (i - 1) + j] = Quartet(c[i])[j]
  BY QuartetsPlaced
<1>2. Base64Valid(B) /\ Base64Decode(B) = p
  BY Base64Back
<1>3. ASSUME NEW i \in 1 .. n, NEW j \in 1 .. 4
      PROVE  Quartet(c[i])[j] \in Sextets
  <2> DEFINE t == c[i]
             last == i = n
  <2>1. t \in Seq(Octet) /\ Len(t) \in 1 .. 3 /\ (Len(t) # 3 => last)
    BY ChunkFacts DEF ChunkAt
  <2> HIDE DEF last, t
  <2>2. QuartetValid(Quartet(t), last)
    BY <2>1, QuartetBack
  <2>3. Quartet(t)[j] \in Sextets
    BY <2>2 DEF QuartetValid, Sextets
  <2> QED BY <2>3 DEF t
<1> HIDE DEF B, c, n
<1>4. \A x \in 1 .. Len(B) : B[x] \in Sextets
  <2> SUFFICES ASSUME NEW x \in 1 .. Len(B) PROVE B[x] \in Sextets
    OBVIOUS
  <2>1. x \in 1 .. 4 * n
    BY <1>1
  <2>2. PICK i \in 1 .. n, j \in 1 .. 4 : x = 4 * (i - 1) + j
    BY Zenon, <1>1, <2>1, FourthPlace
  <2>3. B[x] = Quartet(c[i])[j]
    BY Zenon, <1>1, <2>2
  <2> QED BY <1>3, <2>3
<1>5. B \in Seq(Sextets)
  BY <1>1, <1>4, ListOver
<1>6. IsBase64(B)
  <2>1. Len(B) % 4 = 0
    BY <1>1
  <2> QED BY <1>4, <2>1 DEF IsBase64, Sextets
<1>7. B # <<"?">>
  <2>1. Len(<<"?">>) = 1
    OBVIOUS
  <2>2. Len(B) # 1
    BY <1>1
  <2> QED BY <2>1, <2>2
<1>8. Unbase64(B) = p
  <2> DEFINE r == [i \in 1 .. Len(D) |-> FourRead(D[i])]
             s == [i \in 1 .. Len(D) |-> QuartetBytes(D[i])]
  <2>1. Unbase64(B) = FlattenSeq(r)
    BY FourReadIs
  <2>2. Base64Decode(B) = FlattenSeq(s)
    BY DEF Base64Decode
  <2>3. \A i \in 1 .. Len(D) : FourRead(D[i]) = QuartetBytes(D[i])
    <3> SUFFICES ASSUME NEW i \in 1 .. Len(D) PROVE FourRead(D[i]) = QuartetBytes(D[i])
      OBVIOUS
    <3> DEFINE q == D[i]
               last == i = Len(D)
    <3>1. QuartetValid(q, last)
      BY <1>2 DEF Base64Valid
    <3> HIDE DEF q, last
    <3>2. FourRead(q) = QuartetBytes(q)
      BY <3>1, FourSame
    <3> QED BY <3>2 DEF q
  <2>4. r = s
    <3> HIDE DEF D
    <3> QED BY <2>3
  <2> QED BY Zenon, <1>2, <2>1, <2>2, <2>4
<1> QED BY <1>5, <1>6, <1>7, <1>8 DEF B, ListOf

ClipFront == (<<"5", "2">> \o <<Semicolon>>) \o (<<"c">> \o <<Semicolon>>)

(* What comes before the payload of an OSC 52. *)
LEMMA ClipFrontIs ==
  /\ ClipFront = <<"5", "2", ";", "c", ";">>
  /\ Quiet(ClipFront) /\ Len(ClipFront) = 5
<1>1. ClipFront = <<"5", "2", ";", "c", ";">>
  <2> DEFINE five == "5"
             two == "2"
             k == Semicolon
             c == "c"
  <2> HIDE DEF five, two, k, c
  <2>1. (<<five, two>> \o <<k>>) \o (<<c>> \o <<k>>) = <<five, two, k, c, k>>
    BY ZenonT(60), FiveOf
  <2> QED BY Zenon, <2>1 DEF ClipFront, five, two, c, k, Semicolon
<1>2. Quiet(ClipFront) /\ Len(ClipFront) = 5
  <2> DEFINE a == <<"5", "2">>
             s == <<Semicolon>>
             c == <<"c">>
  <2>1. Quiet(a) /\ Quiet(s) /\ Quiet(c) /\ Len(a) = 2 /\ Len(s) = 1 /\ Len(c) = 1
    BY CodeBytes
  <2> HIDE DEF a, s, c
  <2>5. Quiet(a \o s) /\ Len(a \o s) = Len(a) + Len(s)
    BY Zenon, <2>1, QuietCat
  <2>6. Quiet(c \o s) /\ Len(c \o s) = Len(c) + Len(s)
    BY Zenon, <2>1, QuietCat
  <2>2. Quiet(a \o s) /\ Len(a \o s) = 3 /\ Quiet(c \o s) /\ Len(c \o s) = 2
    BY <2>1, <2>5, <2>6
  <2> DEFINE x == a \o s
             y == c \o s
  <2> HIDE DEF x, y
  <2>3. Quiet(x) /\ Len(x) = 3 /\ Quiet(y) /\ Len(y) = 2
    BY <2>2 DEF x, y
  <2>7. Quiet(x \o y) /\ Len(x \o y) = Len(x) + Len(y)
    BY Zenon, <2>3, QuietCat
  <2>4. Quiet(x \o y) /\ Len(x \o y) = 5
    BY <2>3, <2>7
  <2> QED BY <2>4 DEF x, y, a, s, c, ClipFront
<1> QED BY Zenon, <1>1, <1>2

(* The parts of an OSC 52: the last is what stands behind the selection.    *)
LEMMA ClipParts ==
  ASSUME NEW A, Semicolon \notin A, NEW x, ListOf(x, A), NEW q, q = Split(ClipFront \o x)
  PROVE  q[1] = <<"5", "2">> /\ q[Len(q)] = x
<1> DEFINE c == <<"5", "2">>
           s == <<Semicolon>>
           d == <<"c">>
           g == c \o s
           h == d \o s
           r == h \o x
           C == {"5", "2"}
           D == {"c"}
<1>1. IsList(c) /\ IsList(s) /\ IsList(d)
  BY CodeBytes DEF Quiet
<1>2. IsList(x)
  BY ListIn DEF ListOf
<1>3. ListOf(c, C) /\ Semicolon \notin C
  BY OscCodes
<1>4. ListOf(d, D) /\ Semicolon \notin D
  <2>1. ListOf(d, D)
    BY DEF ListOf
  <2>2. Semicolon \notin D
    BY Zenon DEF Semicolon
  <2> QED BY <2>1, <2>2
<1> HIDE DEF c, s, d, C, D
<1>5. IsList(g) /\ IsList(h)
  <2>1. InTurn(c, s, g) /\ InTurn(d, s, h)
    BY <1>1, ListsJoined
  <2> QED BY <2>1 DEF InTurn
<1>6. ClipFront \o x = g \o r
  <2> HIDE DEF g, h
  <2>1. (g \o h) \o x = g \o (h \o x)
    BY <1>2, <1>5, CatAssoc
  <2> QED BY <2>1 DEF ClipFront, g, h, c, d, s
<1>7. IsList(r)
  <2> HIDE DEF h
  <2>1. InTurn(h, x, r)
    BY <1>2, <1>5, ListsJoined
  <2> QED BY <2>1 DEF InTurn
<1>8. Split(r)[Len(Split(r))] = x
  <2> DEFINE z == Split(r)
  <2>1. z = Split((d \o <<Semicolon>>) \o x)
    BY DEF s
  <2> HIDE DEF z, r
  <2>2. z[1] = d /\ z[Len(z)] = x
    BY <1>4, <2>1, OscTwoParts
  <2> QED BY <2>2 DEF z
<1> HIDE DEF r
<1>9. q[1] = c /\ q[Len(q)] = Split(r)[Len(Split(r))]
  <2>1. q = Split((c \o <<Semicolon>>) \o r)
    BY <1>6 DEF g, s
  <2> HIDE DEF g
  <2> QED BY <1>3, <1>7, <2>1, OscParts
<1> QED BY <1>8, <1>9 DEF c

(* ... and what the whole then asks of the terminal. *)
LEMMA DrawnClipText ==
  ASSUME NEW A, Semicolon \notin A, ESC \notin A, NEW x, ListOf(x, A), NEW t, NEW u,
         x = <<"?">> => u = t,
         x # <<"?">> => u = [t EXCEPT !.clip = IF IsBase64(x) THEN Unbase64(x) ELSE <<>>]
  PROVE  Drawn((OSC \o (ClipFront \o x)) \o ST, t, u)
<1> DEFINE b == ClipFront \o x
           q == Split(b)
           n == <<"?">>
<1>1. Quiet(x)
  <2>1. IsList(x) /\ Len(x) \in Nat /\ Range(x) \subseteq A
    BY ListIn DEF ListOf
  <2>2. \A i \in 1 .. Len(x) : x[i] \in A
    BY DEF ListOf
  <2> QED BY <2>1, <2>2 DEF Quiet
<1>2. Quiet(ClipFront) /\ Len(ClipFront) = 5
  BY Zenon, ClipFrontIs
<1>3. Quiet(b) /\ Len(b) = 5 + Len(x) /\ Len(x) \in Nat
  BY Zenon, <1>1, <1>2, QuietCat
<1>4. q[1] = <<"5", "2">> /\ q[Len(q)] = x
  BY ClipParts
<1>5. /\ q[1] = <<"5", "2">> /\ q[Len(q)] # n =>
              ObeyOsc(t, b) = [t EXCEPT !.clip = IF IsBase64(q[Len(q)]) THEN Unbase64(q[Len(q)]) ELSE <<>>]
      /\ q[1] = <<"5", "2">> /\ q[Len(q)] = n => ObeyOsc(t, b) = t
  BY OscObeyed
<1> HIDE DEF b, q, n
<1>6. ObeyOsc(t, b) = u
  <2>1. CASE x = n
    BY <1>4, <1>5, <2>1 DEF n
  <2>2. CASE x # n
    BY <1>4, <1>5, <2>2 DEF n
  <2> QED BY <2>1, <2>2
<1>7. Drawn((OSC \o b) \o ST, t, u)
  <2>1. Len(b) >= 1
    BY <1>3
  <2> QED BY <1>3, <1>6, <2>1, DrawnText
<1> QED BY <1>7 DEF b

(* A clipboard write is drawn. *)
LEMMA DrawnClip ==
  ASSUME NEW t, NEW i, i.kind = "osc52", i.payload \in Seq(Octet)
  PROVE  Drawn(EncodeDyn(i), t, Meaning(t, i))
<1> DEFINE p == i.payload
           B == Base64(p)
           u == Meaning(t, i)
<1>1. EncodeDyn(i) = ((OSC \o <<"5", "2", ";", "c", ";">>) \o B) \o ST
  BY Zenon DEF EncodeDyn, Osc52Bytes
<1>2. u = [t EXCEPT !.clip = p]
  BY DEF Meaning
<1>3. Unbase64(B) = p /\ IsBase64(B) /\ ListOf(B, Sextets) /\ B # <<"?">>
  BY Unbase64Back
<1> HIDE DEF B, p, u
<1>4. (OSC \o ClipFront) \o B = OSC \o (ClipFront \o B)
  <2>1. IsList(OSC) /\ IsList(ClipFront) /\ IsList(B)
    BY Zenon, <1>3, ListIn, FrameSize, ClipFrontIs DEF Quiet, ListOf
  <2> QED BY <2>1, CatAssoc
<1>5. Drawn((OSC \o (ClipFront \o B)) \o ST, t, u)
  <2>1. Semicolon \notin Sextets /\ ESC \notin Sextets
    BY SextetBytes
  <2>2. B # <<"?">> => u = [t EXCEPT !.clip = IF IsBase64(B) THEN Unbase64(B) ELSE <<>>]
    BY <1>2, <1>3
  <2>3. B = <<"?">> => u = t
    BY <1>3
  <2> QED BY <1>3, <2>1, <2>2, <2>3, DrawnClipText
<1>6. EncodeDyn(i) = (OSC \o (ClipFront \o B)) \o ST
  BY Zenon, <1>1, <1>4, ClipFrontIs
<1> QED BY <1>5, <1>6 DEF u

(* The clipboard query is drawn: it changes nothing. *)
LEMMA DrawnClipQuery == ASSUME NEW t PROVE Drawn(QueryBytes["osc52"], t, t)
<1> DEFINE x == <<"?">>
           A == {"?"}
<1>1. QueryBytes["osc52"] = (OSC \o <<"5", "2", ";", "c", ";", "?">>) \o ST
  BY Zenon DEF QueryBytes
<1>2. <<"5", "2", ";", "c", ";", "?">> = ClipFront \o x
  <2> DEFINE f == ClipFront
             s == <<"5", "2", ";", "c", ";", "?">>
             k == Semicolon
  <2>1. s = <<"5", "2", k, "c", k, "?">>
    BY Zenon DEF Semicolon
  <2>2. f = <<"5", "2", k, "c", k>>
    BY Zenon, ClipFrontIs DEF Semicolon
  <2> HIDE DEF s, k, f
  <2>3. IsList(f) /\ Len(f) = 5 /\ f[1] = "5" /\ f[2] = "2" /\ f[3] = k /\ f[4] = "c" /\ f[5] = k
    <3>1. IsList(f) /\ Len(f) = 5
      BY Zenon, ClipFrontIs DEF Quiet, f
    <3>2. f[1] = "5" /\ f[2] = "2" /\ f[3] = k /\ f[4] = "c" /\ f[5] = k
      BY <2>2
    <3> QED BY <3>1, <3>2
  <2>4. Len(s) = 6 /\ s[1] = "5" /\ s[2] = "2" /\ s[3] = k /\ s[4] = "c" /\ s[5] = k /\ s[6] = "?"
    BY <2>1
  <2>5. IsList(s)
    <3>1. s = [i \in 1 .. 6 |-> s[i]]
      BY <2>1
    <3> QED BY Zenon, <3>1, ListMade
  <2>6. IsList(x) /\ Len(x) = 1 /\ x[1] = "?"
    BY ListLiteral DEF Literals
  <2> HIDE DEF x
  <2>7. InTurn(f, x, f \o x)
    BY <2>3, <2>6, ListsJoined
  <2> DEFINE z == f \o x
  <2> HIDE DEF z
  <2>8. IsList(z) /\ Len(z) = 6 /\ z[1] = "5" /\ z[2] = "2" /\ z[3] = k /\ z[4] = "c" /\ z[5] = k /\ z[6] = "?"
    <3>1. InTurn(f, x, z)
      BY <2>7 DEF z
    <3> QED BY <2>3, <2>6, <3>1 DEF InTurn
  <2>9. \A i \in 1 .. Len(s) : s[i] = z[i]
    <3>1. \A i \in 1 .. Len(s) : i = 1 \/ i = 2 \/ i = 3 \/ i = 4 \/ i = 5 \/ i = 6
      BY <2>4
    <3> QED BY <2>4, <2>8, <3>1
  <2>10. s = z
    BY <2>4, <2>5, <2>8, <2>9, SameList
  <2> QED BY Zenon, <2>10 DEF s, z, f
<1>3. ListOf(x, A) /\ Semicolon \notin A /\ ESC \notin A
  <2>1. ListOf(x, A)
    BY DEF ListOf
  <2>2. Semicolon \notin A /\ ESC \notin A
    BY Zenon DEF Semicolon, ESC
  <2> QED BY <2>1, <2>2
<1> HIDE DEF A
<1>4. Drawn((OSC \o (ClipFront \o x)) \o ST, t, t)
  BY <1>3, DrawnClipText
<1> QED BY Zenon, <1>1, <1>2, <1>4

-----------------------------------------------------------------------------
(* Hyperlinks.                                                              *)

(* The first c of s from its place m on, or 0. *)
FirstAt(s, m, c) == SelectInSubSeq(s, m, Len(s), LAMBDA b : b = c)

(* The first occurrence of a byte. *)
LEMMA FirstByte ==
  ASSUME NEW s, IsList(s), NEW m \in Nat, NEW c, NEW p \in Nat, m <= p, p <= Len(s), s[p] = c,
         \A i \in m .. p - 1 : s[i] # c
  PROVE  FirstAt(s, m, c) = p
<1> DEFINE I == {i \in m .. Len(s) : s[i] = c}
           a == FirstAt(s, m, c)
<1>1. a = IF I # {} THEN Min(I) ELSE 0
  BY DEF FirstAt, SelectInSubSeq
<1>2. Len(s) \in Nat
  BY DEF IsList
<1>3. p \in I /\ I \in SUBSET Nat
  BY <1>2
<1>4. \A i \in I : p <= i
  <2> SUFFICES ASSUME NEW i \in I PROVE p <= i
    OBVIOUS
  <2>1. i \in Nat /\ m <= i /\ s[i] = c
    BY <1>2
  <2>2. ~(i \in m .. p - 1)
    BY <2>1
  <2> QED BY <2>1, <2>2
<1> HIDE DEF I, a
<1>5. I # {}
  BY <1>3
<1>6. Min(I) \in I /\ \A i \in I : Min(I) <= i
  BY <1>3, <1>5, FirstOf
<1>7. Min(I) = p
  <2>1. Min(I) \in Nat /\ Min(I) <= p /\ p <= Min(I)
    BY Zenon, <1>3, <1>4, <1>6
  <2> QED BY <2>1
<1> QED BY <1>1, <1>5, <1>7 DEF a

(* LinkOf, by the place of the second separator. *)
LEMMA LinkOfIs ==
  \A s : LinkOf(s) = SubSeq(s, FirstAt(s, 3, Semicolon) + 1, Len(s))
BY Zenon DEF LinkOf, FirstAt, Semicolon

(* The link is what follows parameters without a separator. *)
LEMMA LinkFound ==
  ASSUME NEW z, IsList(z), Len(z) >= 2, \A i \in 3 .. Len(z) : z[i] # Semicolon,
         NEW uri, IsList(uri)
  PROVE  LinkOf((z \o <<Semicolon>>) \o uri) = uri
<1> DEFINE s == <<Semicolon>>
           b == (z \o s) \o uri
           p == Len(z) + 1
<1>1. IsList(s) /\ Len(s) = 1 /\ s[1] = Semicolon
  BY ListLiteral DEF Literals, Size
<1>2. Len(z) \in Nat /\ Len(uri) \in Nat
  BY DEF IsList
<1> HIDE DEF s
<1>3. AllInTurn(z, s, uri, b)
  BY <1>1, ThreeJoined
<1> HIDE DEF b
<1>4. SubSeq(b, Len(z) + Len(s) + 1, Len(b)) = uri
  BY Zenon, <1>1, <1>3, PartsFound
<1>5. IsList(b) /\ Len(b) = Len(z) + 1 + Len(uri) /\ b[Len(z) + 1] = Semicolon
      /\ \A i \in 1 .. Len(z) : b[i] = z[i]
  <2>1. 1 \in 1 .. Len(s)
    BY <1>1
  <2> QED BY <1>1, <1>3, <2>1 DEF AllInTurn
<1>6. p \in Nat /\ 3 <= p /\ p <= Len(b) /\ b[p] = Semicolon
  BY <1>2, <1>5
<1>7. \A i \in 3 .. p - 1 : b[i] # Semicolon
  <2>1. \A i \in 3 .. p - 1 : i \in 1 .. Len(z) /\ i \in 3 .. Len(z)
    BY <1>2
  <2> QED BY <1>5, <2>1
<1> DEFINE m == 3
<1>8. m \in Nat /\ m <= p /\ \A i \in m .. p - 1 : b[i] # Semicolon
  BY <1>6, <1>7
<1>9. LinkOf(b) = SubSeq(b, FirstAt(b, m, Semicolon) + 1, Len(b))
  BY LinkOfIs
<1>10. p + 1 = Len(z) + Len(s) + 1
  BY <1>1, <1>2
<1> HIDE DEF m, p
<1>11. FirstAt(b, m, Semicolon) = p
  BY Zenon, <1>5, <1>6, <1>8, FirstByte
<1>12. LinkOf(b) = uri
  BY Zenon, <1>4, <1>9, <1>10, <1>11
<1> QED BY <1>12 DEF b, s

(* The bytes of a text. *)
LEMMA InText ==
  ASSUME NEW s, IsList(s), NEW c, c \notin ToSet(s)
  PROVE  \A i \in 1 .. Len(s) : s[i] # c
<1>1. DOMAIN s = 1 .. Len(s)
  BY DEF IsList
<1> QED BY <1>1 DEF ToSet

(* The id parameter of a plain id has no separator. *)
LEMMA IdBytes ==
  ASSUME NEW id, Quiet(id), Semicolon \notin ToSet(id)
  PROVE  LET a == IdParam(id) IN Quiet(a) /\ \A i \in 1 .. Len(a) : a[i] # Semicolon
<1> DEFINE a == IdParam(id)
<1>1. CASE id = <<>>
  <2>1. a = id
    BY <1>1 DEF IdParam
  <2>2. Len(id) = 0
    BY <1>1
  <2> QED BY <2>1, <2>2
<1>2. CASE id # <<>>
  <2> DEFINE e == <<"i", "d", "=">>
  <2>1. a = e \o id
    BY <1>2 DEF IdParam
  <2>2. IsList(e) /\ Len(e) = 3 /\ e[1] = "i" /\ e[2] = "d" /\ e[3] = "="
    BY ListLiteral DEF Literals
  <2> HIDE DEF e, a
  <2>3. \A i \in 1 .. Len(e) : e[i] # ESC /\ e[i] # Semicolon
    <3>1. "i" # ESC /\ "d" # ESC /\ "=" # ESC
      BY DEF ESC
    <3>2. "i" # Semicolon /\ "d" # Semicolon /\ "=" # Semicolon
      BY Zenon DEF Semicolon
    <3>3. \A i \in 1 .. Len(e) : i = 1 \/ i = 2 \/ i = 3
      BY <2>2
    <3> QED BY <2>2, <3>1, <3>2, <3>3
  <2>4. Quiet(e)
    BY <2>2, <2>3 DEF Quiet
  <2>5. Quiet(a)
    BY <2>1, <2>4, QuietCat
  <2>6. \A i \in 1 .. Len(id) : id[i] # Semicolon
    BY InText DEF Quiet
  <2>7. InTurn(e, id, a)
    BY <2>1, <2>2, ListsJoined DEF Quiet
  <2>8. ASSUME NEW i \in 1 .. Len(a) PROVE a[i] # Semicolon
    <3>1. Len(a) = 3 + Len(id) /\ Len(id) \in Nat
      BY <2>2, <2>7 DEF InTurn
    <3>2. CASE i <= 3
      <4>1. i \in 1 .. Len(e)
        BY <2>2, <3>1, <3>2
      <4> QED BY <2>3, <2>7, <4>1 DEF InTurn
    <3>3. CASE ~(i <= 3)
      <4> DEFINE j == i - 3
      <4>1. j \in 1 .. Len(id) /\ i = Len(e) + j
        BY <2>2, <3>1, <3>3
      <4> HIDE DEF j
      <4>2. a[i] = id[j]
        BY <2>7, <4>1 DEF InTurn
      <4> QED BY <2>6, <4>1, <4>2
    <3> QED BY <3>2, <3>3
  <2> QED BY <2>5, <2>8 DEF a
<1> QED BY <1>1, <1>2

(* Text behind text in a sequence. *)
Regrouped(o, a, b, c, d) ==
  /\ (((o \o a) \o b) \o c) \o d = o \o (((a \o b) \o c) \o d)
  /\ ((a \o b) \o c) \o d = a \o ((b \o c) \o d)
  /\ IsList((b \o c) \o d) /\ IsList((a \o b) \o c)

(* Five lists, grouped in two ways. *)
LEMMA FiveRegrouped ==
  ASSUME NEW o, IsList(o), NEW a, IsList(a), NEW b, IsList(b), NEW c, IsList(c), NEW d, IsList(d)
  PROVE  Regrouped(o, a, b, c, d)
<1> DEFINE ab == a \o b
           abc == ab \o c
           bc == b \o c
           bcd == bc \o d
<1>1. IsList(ab) /\ IsList(bc)
  <2>1. InTurn(a, b, ab) /\ InTurn(b, c, bc)
    BY ListsJoined
  <2> QED BY <2>1 DEF InTurn
<1>2. (o \o a) \o b = o \o ab
  BY CatAssoc
<1>3. ab \o c = a \o bc
  BY CatAssoc
<1> HIDE DEF ab, bc
<1>4. IsList(abc) /\ IsList(bcd)
  <2>1. InTurn(ab, c, abc) /\ InTurn(bc, d, bcd)
    BY <1>1, ListsJoined
  <2> QED BY <2>1 DEF InTurn
<1> HIDE DEF abc, bcd
<1>5. (o \o ab) \o c = o \o abc
  <2>1. IsList(o) /\ IsList(ab) /\ IsList(c)
    BY <1>1
  <2>2. (o \o ab) \o c = o \o (ab \o c)
    BY SMTT(40), <2>1, CatAssoc
  <2> QED BY <2>2 DEF abc
<1>6. (a \o bc) \o d = a \o bcd
  <2>1. IsList(a) /\ IsList(bc) /\ IsList(d)
    BY <1>1
  <2>2. (a \o bc) \o d = a \o (bc \o d)
    BY SMTT(40), <2>1, CatAssoc
  <2> QED BY <2>2 DEF bcd
<1>7. (o \o abc) \o d = o \o (abc \o d)
  <2>1. IsList(o) /\ IsList(abc) /\ IsList(d)
    BY <1>4
  <2> QED BY SMTT(40), <2>1, CatAssoc
<1> QED BY Zenon, <1>2, <1>3, <1>4, <1>5, <1>6, <1>7 DEF abc, bcd, ab, bc, Regrouped

(* A hyperlink is drawn, its link with separators in it or not. *)
LEMMA DrawnLink ==
  ASSUME NEW t, NEW i, i.kind = "osc8", Quiet(i.uri), Quiet(i.id), Semicolon \notin ToSet(i.id)
  PROVE  Drawn(EncodeDyn(i), t, Meaning(t, i))
<1> DEFINE x == i.uri
           a == IdParam(i.id)
           c == <<"8">>
           s == <<Semicolon>>
           e == c \o s
           z == e \o a
           b == (z \o s) \o x
           r == (a \o s) \o x
           q == Split(b)
           u == Meaning(t, i)
<1>1. EncodeDyn(i) = ((((OSC \o e) \o a) \o s) \o x) \o ST
  <2>1. EncodeDyn(i) = ((((OSC \o <<"8", ";">>) \o a) \o <<";">>) \o x) \o ST
    BY Zenon DEF EncodeDyn, Osc8Bytes
  <2>2. e = <<"8", Semicolon>>
    BY PairIs
  <2> HIDE DEF a, x, e
  <2> QED BY Zenon, <2>1, <2>2 DEF Semicolon
<1>2. u = [t EXCEPT !.link = x]
  BY DEF Meaning
<1>3. Quiet(x) /\ Quiet(a) /\ Quiet(c) /\ Quiet(s) /\ Len(c) = 1 /\ Len(s) = 1
      /\ \A j \in 1 .. Len(a) : a[j] # Semicolon
  BY IdBytes, CodeBytes
<1> HIDE DEF x, a, u
<1>4. q[1] = c => ObeyOsc(t, b) = [t EXCEPT !.link = LinkOf(b)]
  BY OscObeyed
<1> DEFINE C == {"8"}
<1>5. ListOf(c, C) /\ Semicolon \notin C
  BY OscCodes
<1> HIDE DEF c, s, C
<1>6. Quiet(e) /\ Len(e) = 2 /\ IsList(e)
  <2>1. Quiet(e) /\ Len(e) = Len(c) + Len(s)
    BY Zenon, <1>3, QuietCat
  <2> QED BY <1>3, <2>1 DEF Quiet
<1>7. b = e \o r /\ (((OSC \o e) \o a) \o s) \o x = OSC \o b /\ IsList(r) /\ IsList(z)
  <2>1. IsList(OSC) /\ IsList(a) /\ IsList(s) /\ IsList(x) /\ IsList(e)
    <3>1. InTurn(c, s, e)
      BY <1>3, ListsJoined DEF Quiet
    <3> QED BY <1>3, <3>1, FrameSize DEF Quiet, InTurn
  <2> HIDE DEF e
  <2>4. Regrouped(OSC, e, a, s, x)
    <3> HIDE DEF z, b, r, q
    <3> QED BY <2>1, FiveRegrouped
  <2>2. /\ (((OSC \o e) \o a) \o s) \o x = OSC \o (((e \o a) \o s) \o x)
        /\ ((e \o a) \o s) \o x = e \o ((a \o s) \o x)
        /\ IsList((a \o s) \o x)
    BY <2>4 DEF Regrouped
  <2>3. InTurn(e, a, z)
    BY <2>1, ListsJoined
  <2> QED BY <2>2, <2>3 DEF InTurn
<1>8. q[1] = c
  <2>1. q = Split((c \o <<Semicolon>>) \o r)
    BY Zenon, <1>7 DEF s
  <2> HIDE DEF q, r
  <2>2. q[1] = c /\ q[Len(q)] = Split(r)[Len(Split(r))]
    BY SMTT(40), <1>5, <1>7, <2>1, OscParts
  <2> QED BY <2>2
<1>9. Len(z) >= 2 /\ \A j \in 3 .. Len(z) : z[j] # Semicolon
  <2> HIDE DEF e
  <2>1. InTurn(e, a, z)
    BY <1>3, <1>6, ListsJoined DEF Quiet
  <2> HIDE DEF z
  <2>2. Len(z) = 2 + Len(a) /\ Len(a) \in Nat
    BY <1>6, <2>1 DEF InTurn
  <2>3. ASSUME NEW j \in 3 .. Len(z) PROVE z[j] # Semicolon
    <3> DEFINE k == j - 2
    <3>1. k \in 1 .. Len(a) /\ j = Len(e) + k
      BY <1>6, <2>2
    <3> HIDE DEF k
    <3>2. z[j] = a[k]
      BY <2>1, <3>1 DEF InTurn
    <3> QED BY <1>3, <3>1, <3>2
  <2> QED BY <2>2, <2>3
<1>10. LinkOf(b) = x
  <2> HIDE DEF z, b
  <2>1. IsList(x)
    BY <1>3 DEF Quiet
  <2>2. LinkOf((z \o <<Semicolon>>) \o x) = x
    BY Zenon, <1>7, <1>9, <2>1, LinkFound
  <2> QED BY <2>2 DEF b, s
<1>11. Quiet(b) /\ Len(b) >= 1
  <2> HIDE DEF e
  <2>1. Quiet(z) /\ Len(z) = Len(e) + Len(a) /\ Len(a) \in Nat
    BY Zenon, <1>3, <1>6, QuietCat
  <2> DEFINE y == z \o s
  <2> HIDE DEF z
  <2>2. Quiet(y) /\ Len(y) = Len(z) + Len(s)
    BY Zenon, <1>3, <2>1, QuietCat
  <2> HIDE DEF y
  <2>3. Quiet(y \o x) /\ Len(y \o x) = Len(y) + Len(x) /\ Len(x) \in Nat
    BY Zenon, <1>3, <2>2, QuietCat
  <2> QED BY <1>3, <1>6, <2>1, <2>2, <2>3 DEF y
<1> HIDE DEF b, q
<1>12. ObeyOsc(t, b) = u
  BY <1>2, <1>4, <1>8, <1>10
<1>13. Drawn((OSC \o b) \o ST, t, u)
  BY <1>11, <1>12, DrawnText
<1>14. EncodeDyn(i) = (OSC \o b) \o ST
  BY <1>1, <1>7
<1> QED BY <1>13, <1>14 DEF u

-----------------------------------------------------------------------------
(* Percent-encoding, and the working directory.                             *)

(* One byte of a path as a URL carries it, and the bytes that then occur.   *)
Code(x)     == IF x \in DOMAIN PercentCode THEN PercentCode[x] ELSE <<x>>
HexBytes    == {"%", "2", "0", "1", "B", "5", "C"}
UrlBytes(A) == (A \ DOMAIN PercentCode) \cup HexBytes

(* The bytes that are percent-encoded, and how. *)
LEMMA CodesAre ==
  /\ DOMAIN PercentCode = {" ", ESC, "\\", "%"}
  /\ PercentCode[" "] = <<"%", "2", "0">> /\ PercentCode[ESC] = <<"%", "1", "B">>
  /\ PercentCode["\\"] = <<"%", "5", "C">> /\ PercentCode["%"] = <<"%", "2", "5">>
BY DEF PercentCode, ESC

(* The bytes one byte becomes. *)
LEMMA CodeTyped ==
  ASSUME NEW A, NEW x \in A
  PROVE  ListOf(Code(x), UrlBytes(A)) /\ Code(x) # <<>>
<1> DEFINE E == UrlBytes(A)
<1>1. CASE x \in DOMAIN PercentCode
  <2>1. Code(x) \in {<<"%", "2", "0">>, <<"%", "1", "B">>, <<"%", "5", "C">>, <<"%", "2", "5">>}
    BY Zenon, <1>1, CodesAre DEF Code
  <2>2. HexBytes \subseteq E
    BY DEF UrlBytes
  <2>3. "%" \in HexBytes /\ "2" \in HexBytes /\ "0" \in HexBytes /\ "1" \in HexBytes
        /\ "B" \in HexBytes /\ "5" \in HexBytes /\ "C" \in HexBytes
    BY DEF HexBytes
  <2> HIDE DEF E
  <2>4. \A a, b, c \in E : <<a, b, c>> \in Seq(E) /\ <<a, b, c>> # <<>>
    OBVIOUS
  <2>5. Code(x) \in Seq(E) /\ Code(x) # <<>>
    <3>1. \A y \in HexBytes : y \in E
      BY <2>2
    <3> HIDE DEF E
    <3> QED BY Zenon, <2>1, <2>3, <2>4, <3>1
  <2> QED BY <2>5 DEF ListOf, E
<1>2. CASE x \notin DOMAIN PercentCode
  <2>1. Code(x) = <<x>> /\ x \in E
    BY <1>2 DEF Code, UrlBytes
  <2> HIDE DEF E
  <2>2. <<x>> \in Seq(E) /\ <<x>> # <<>>
    BY <2>1
  <2> QED BY <2>1, <2>2 DEF ListOf, E
<1> QED BY <1>1, <1>2

(* Percent encoding goes byte by byte. *)
LEMMA PercentAppend ==
  ASSUME NEW A, NEW s, ListOf(s, A), NEW x \in A
  PROVE  /\ PercentEncoded(Append(s, x)) = PercentEncoded(s) \o Code(x)
         /\ ListOf(PercentEncoded(s), UrlBytes(A))
         /\ PercentEncoded(<<>>) = <<>>
<1> DEFINE n == Len(s)
           E == UrlBytes(A)
           p == [i \in 1 .. n |-> Code(s[i])]
           t == Append(s, x)
           r == [i \in 1 .. n + 1 |-> Code(t[i])]
<1>1. n \in Nat /\ Len(t) = n + 1 /\ t[n + 1] = x /\ \A i \in 1 .. n : t[i] = s[i] /\ s[i] \in A
  BY DEF ListOf
<1>2. PercentEncoded(s) = FlattenSeq(p) /\ PercentEncoded(t) = FlattenSeq(r)
  <2>1. PercentEncoded(s) = FlattenSeq([i \in 1 .. Len(s) |-> Code(s[i])])
    BY DEF PercentEncoded, Code
  <2>2. PercentEncoded(t) = FlattenSeq([i \in 1 .. Len(t) |-> Code(t[i])])
    BY DEF PercentEncoded, Code
  <2> HIDE DEF t
  <2> QED BY <1>1, <2>1, <2>2
<1>3. p = [i \in 1 .. n |-> p[i]] /\ r = [i \in 1 .. n + 1 |-> r[i]]
  OBVIOUS
<1>4. \A i \in 1 .. n : p[i] \in Seq(E) /\ r[i] = p[i]
  <2> SUFFICES ASSUME NEW i \in 1 .. n PROVE p[i] \in Seq(E) /\ r[i] = p[i]
    BY Zenon
  <2>1. i \in 1 .. n + 1
    BY <1>1
  <2>2. p[i] = Code(s[i]) /\ r[i] = Code(s[i])
    <3> HIDE DEF t, n
    <3> QED BY <1>1, <2>1
  <2>3. ListOf(Code(s[i]), E)
    BY <1>1, CodeTyped
  <2> HIDE DEF p, r, E
  <2> QED BY <2>2, <2>3 DEF ListOf
<1>5. r[n + 1] = Code(x) /\ r[n + 1] \in Seq(E)
  <2>1. n + 1 \in 1 .. n + 1
    BY <1>1
  <2>2. r[n + 1] = Code(x)
    <3> HIDE DEF t, n
    <3> QED BY <1>1, <2>1
  <2>3. ListOf(Code(x), E)
    BY CodeTyped
  <2> HIDE DEF r, E
  <2> QED BY <2>2, <2>3 DEF ListOf
<1>6. PercentEncoded(<<>>) = <<>>
  <2>1. PercentEncoded(<<>>) = FlattenSeq([i \in 1 .. Len(<<>>) |-> Code(<<>>[i])])
    BY DEF PercentEncoded, Code
  <2>2. [i \in 1 .. Len(<<>>) |-> Code(<<>>[i])] = <<>>
    OBVIOUS
  <2>3. FlattenSeq(<<>>) = <<>>
    BY DEF FlattenSeq
  <2> QED BY <2>1, <2>2, <2>3
<1> HIDE DEF p, r, n, E, t
<1>7. FlattenSeq(p) \in Seq(E) /\ FlattenSeq(r) = FlattenSeq(p) \o r[n + 1]
  <2>1. n \in Nat /\ \A i \in 1 .. n : r[i] = p[i]
    BY <1>1, <1>4
  <2>3. \A i \in 1 .. n + 1 : ListOf(r[i], E)
    <3>1. \A i \in 1 .. n + 1 : i \in 1 .. n \/ i = n + 1
      BY <1>1
    <3> QED BY <1>4, <1>5, <3>1 DEF ListOf
  <2>4. ListsOf(p, n, E) /\ ListsOf(r, n + 1, E)
    BY Zenon, <1>3, <1>4, <2>3 DEF ListsOf, ListOf
  <2>2. FlattensOn(p, r, n, E)
    BY <2>1, <2>4, FlattenAppend
  <2> QED BY <2>2 DEF FlattensOn
<1> QED BY <1>2, <1>5, <1>6, <1>7 DEF t, E, ListOf

(* The bytes a text becomes. *)
LEMMA PercentTyped ==
  ASSUME NEW A, NEW s, ListOf(s, A)
  PROVE  ListOf(PercentEncoded(s), UrlBytes(A))
<1>1. CASE s = <<>>
  <2> DEFINE E == UrlBytes(A)
  <2>1. PercentEncoded(<<>>) = <<>>
    <3> DEFINE z == <<>>
               B == {1}
               y == 1
    <3>1. ListOf(z, B) /\ y \in B
      BY DEF ListOf
    <3> HIDE DEF z, B, y
    <3>2. PercentEncoded(<<>>) = <<>>
      BY <3>1, PercentAppend
    <3> QED BY <3>2
  <2>2. ListOf(<<>>, E)
    <3> HIDE DEF E
    <3> QED BY DEF ListOf
  <2> QED BY <1>1, <2>1, <2>2
<1>2. CASE s # <<>>
  <2>1. s[1] \in A
    BY <1>2 DEF ListOf
  <2> QED BY <2>1, PercentAppend
<1> QED BY <1>1, <1>2

(* No bytes become none. *)
LEMMA PercentNone == PercentEncoded(<<>>) = <<>>
<1> DEFINE z == <<>>
           B == {1}
           y == 1
<1>1. ListOf(z, B) /\ y \in B
  BY DEF ListOf
<1> HIDE DEF z, B, y
<1>2. PercentEncoded(<<>>) = <<>>
  BY <1>1, PercentAppend
<1> QED BY <1>2

(* A byte that needs no code stays the first. *)
LEMMA PercentFirst ==
  ASSUME NEW A, NEW s, ListOf(s, A), s # <<>>, s[1] \notin DOMAIN PercentCode
  PROVE  PercentEncoded(s) # <<>> /\ PercentEncoded(s)[1] = s[1]
<1> DEFINE Fine(t) == t # <<>> /\ t[1] \notin DOMAIN PercentCode
                      => PercentEncoded(t) # <<>> /\ PercentEncoded(t)[1] = t[1]
           Q == {t \in Seq(A) : Fine(t)}
<1>1. <<>> \in Q
  OBVIOUS
<1>2. ASSUME NEW u \in Seq(A), NEW x \in A, u \in Q PROVE Append(u, x) \in Q
  <2> DEFINE v == Append(u, x)
             p == PercentEncoded(u)
             c == Code(x)
  <2>0. Fine(u)
    BY <1>2
  <2>1. ListOf(u, A)
    BY DEF ListOf
  <2>2. PercentEncoded(v) = p \o c /\ ListOf(p, UrlBytes(A))
    BY Zenon, <2>1, PercentAppend
  <2>3. ListOf(c, UrlBytes(A)) /\ c # <<>>
    BY CodeTyped
  <2>4. v \in Seq(A)
    OBVIOUS
  <2>5. Fine(v)
    <3> SUFFICES ASSUME v # <<>>, v[1] \notin DOMAIN PercentCode
                 PROVE  PercentEncoded(v) # <<>> /\ PercentEncoded(v)[1] = v[1]
      OBVIOUS
    <3>1. CASE u = <<>>
      <4>1. v[1] = x /\ p = <<>>
        BY <3>1, PercentNone
      <4>2. c = <<x>>
        BY <4>1 DEF Code
      <4>3. <<>> \o <<x>> = <<x>>
        OBVIOUS
      <4> HIDE DEF v, c, p
      <4> QED BY <2>2, <4>1, <4>2, <4>3
    <3>2. CASE u # <<>>
      <4>1. v[1] = u[1]
        BY <3>2
      <4> HIDE DEF v, c
      <4>2. p # <<>> /\ p[1] = u[1]
        BY <2>0, <3>2, <4>1
      <4> HIDE DEF p
      <4>3. (p \o c)[1] = p[1] /\ p \o c # <<>>
        BY <2>2, <2>3, <4>2 DEF ListOf
      <4> QED BY <2>2, <4>1, <4>2, <4>3
    <3> QED BY <3>1, <3>2
  <2> HIDE DEF v
  <2> QED BY Zenon, <2>4, <2>5 DEF v
<1>3. s \in Q
  <2> HIDE DEF Q
  <2> QED BY <1>1, <1>2, ListsInductive
<1> QED BY <1>3

(* How a terminal reads a URL byte: text so far, hex digits still to come,  *)
(* and the first of them.                                                   *)
WireBytes  == UrlBytes(PathBytes)
HexCodes   == {0} \cup {HexValue[b] : b \in WireBytes}
NamedByte(h, b) == ByteNamed(h * 16 + HexValue[b])
PathNames  == PathBytes \cup WireBytes \cup {NamedByte(v[1], v[2]) : v \in HexCodes \X WireBytes}
Decoding   == [text : Seq(PathNames), left : {0, 1, 2}, code : HexCodes]
Unescaped(t) == [text |-> t, left |-> 0, code |-> 0]
DecodeByte(d, b) ==
  CASE d.left = 2 -> [d EXCEPT !.left = 1, !.code = HexValue[b]]
    [] d.left = 1 -> [text |-> Append(d.text, ByteNamed(d.code * 16 + HexValue[b])),
                      left |-> 0, code |-> 0]
    [] d.left = 0 /\ b = "%" -> [d EXCEPT !.left = 2]
    [] OTHER -> [d EXCEPT !.text = Append(@, b)]
DecodeStep == [p \in Decoding \X WireBytes |-> DecodeByte(p[1], p[2])]

(* A decoded text with nothing pending is a state of the decoding. *)
LEMMA ScannedType == \A t \in Seq(PathNames) : Unescaped(t) \in Decoding
<1>1. 0 \in HexCodes
  BY DEF HexCodes
<1> QED BY <1>1 DEF Unescaped, Decoding

(* One byte of percent-decoding, by cases. *)
LEMMA DecodeByteIs ==
  \A d, b : /\ d.left = 2 => DecodeByte(d, b) = [d EXCEPT !.left = 1, !.code = HexValue[b]]
            /\ d.left = 1 => DecodeByte(d, b) = Unescaped(Append(d.text, NamedByte(d.code, b)))
            /\ d.left = 0 /\ b = "%" => DecodeByte(d, b) = [d EXCEPT !.left = 2]
            /\ d.left = 0 /\ b # "%" => DecodeByte(d, b) = [d EXCEPT !.text = Append(@, b)]
BY DEF DecodeByte, Unescaped, NamedByte

(* One byte leads from state to state. *)
LEMMA DecodeByteType ==
  ASSUME NEW d \in Decoding, NEW b \in WireBytes
  PROVE  DecodeByte(d, b) \in Decoding
<1> DEFINE h == HexValue[b]
           x == NamedByte(d.code, b)
<1>1. d.text \in Seq(PathNames) /\ d.left \in {0, 1, 2} /\ d.code \in HexCodes
      /\ d = [text |-> d.text, left |-> d.left, code |-> d.code]
  BY DEF Decoding
<1>2. h \in HexCodes
  BY DEF HexCodes
<1>3. x \in PathNames
  <2>1. <<d.code, b>> \in HexCodes \X WireBytes
    BY <1>1
  <2>2. NamedByte(<<d.code, b>>[1], <<d.code, b>>[2]) = x
    OBVIOUS
  <2> HIDE DEF x
  <2> QED BY <2>1, <2>2 DEF PathNames
<1>4. b \in PathNames
  BY DEF PathNames
<1>5. CASE d.left = 2
  <2>1. DecodeByte(d, b) = [d EXCEPT !.left = 1, !.code = h]
    BY Zenon, <1>5, DecodeByteIs
  <2> HIDE DEF h
  <2> QED BY Zenon, <1>2, <2>1 DEF Decoding
<1>6. CASE d.left = 1
  <2>1. DecodeByte(d, b) = Unescaped(Append(d.text, x))
    BY Zenon, <1>6, DecodeByteIs
  <2> HIDE DEF x
  <2>2. Append(d.text, x) \in Seq(PathNames)
    BY <1>1, <1>3
  <2> QED BY Zenon, <2>1, <2>2, ScannedType
<1>7. CASE d.left = 0 /\ b = "%"
  <2>1. DecodeByte(d, b) = [d EXCEPT !.left = 2]
    BY Zenon, <1>7, DecodeByteIs
  <2> QED BY <2>1 DEF Decoding
<1>8. CASE d.left = 0 /\ b # "%"
  <2>1. DecodeByte(d, b) = [d EXCEPT !.text = Append(@, b)]
    BY Zenon, <1>8, DecodeByteIs
  <2>2. Append(d.text, b) \in Seq(PathNames)
    BY <1>1, <1>4
  <2> QED BY Zenon, <2>1, <2>2 DEF Decoding
<1> QED BY <1>1, <1>5, <1>6, <1>7, <1>8

(* Decoding is a step function. *)
LEMMA DecodeStepType == StepOf(DecodeStep, Decoding, WireBytes) /\ Unescaped(<<>>) \in Decoding
<1>1. StepOf(DecodeStep, Decoding, WireBytes)
  BY DecodeByteType DEF StepOf, DecodeStep
<1>2. <<>> \in Seq(PathNames)
  OBVIOUS
<1> QED BY Zenon, <1>1, <1>2, ScannedType

DecodeScan(s) == FoldLeft(DecodeByte, Unescaped(<<>>), s)

(* Decoding keeps the text of its last state. *)
LEMMA DecodedIs == \A s : PercentDecoded(s) = DecodeScan(s).text
BY Zenon DEF PercentDecoded, DecodeScan, DecodeByte, Unescaped

(* Decoding is a fold. *)
LEMMA DecodeIsFold ==
  ASSUME NEW s, ListOf(s, WireBytes)
  PROVE  DecodeScan(s) = Fold(DecodeStep, Unescaped(<<>>), s)
<1> DEFINE step == DecodeStep
           base == Unescaped(<<>>)
           Val == Decoding
           E == WireBytes
<1>1. base \in Val /\ StepOf(step, Val, E)
  BY DecodeStepType
<1>2. \E a : FoldedBy(a, Val, step, base, s)
  <2> HIDE DEF step, Val, base, E
  <2>1. ListOf(s, E)
    BY DEF E
  <2> QED BY <1>1, <2>1, FoldRule
<1>3. PICK a : FoldedBy(a, Val, step, base, s)
  BY <1>2
<1>4. Len(s) \in Nat /\ DOMAIN s = 1 .. Len(s) /\ \A i \in DOMAIN s : s[i] \in E
  BY DEF ListOf
<1>5. ASSUME NEW T \in SUBSET DOMAIN s, T # {}
      PROVE  a[T] = DecodeByte(a[T \ {Max(T)}], s[Max(T)])
  <2>1. Max(T) \in DOMAIN s
    BY Zenon, <1>4, <1>5, GreatestNumber
  <2>2. a[T] = step[<<a[T \ {Max(T)}], s[Max(T)]>>]
    <3> HIDE DEF step, base, Val
    <3> QED BY Zenon, <1>3, <1>5 DEF FoldedBy, FoldsOver
  <2>3. a[T \ {Max(T)}] \in Val /\ s[Max(T)] \in E
    <3> HIDE DEF step, base, Val, E
    <3> QED BY <1>3, <1>4, <2>1 DEF FoldedBy
  <2> QED BY <2>2, <2>3 DEF DecodeStep
<1>6. a = [T \in SUBSET DOMAIN s |->
             IF T = {} THEN base
             ELSE DecodeByte(a[T \ {Max(T)}], s[Max(T)])]
  <2>1. a[{}] = base /\ a = [T \in SUBSET DOMAIN s |-> a[T]]
    <3> HIDE DEF step, Val, base
    <3> QED BY <1>3 DEF FoldedBy, FoldsOver
  <2> HIDE DEF step, Val, base, E
  <2> QED BY Zenon, <1>5, <2>1
<1>7. PICK b : /\ b = [T \in SUBSET DOMAIN s |->
                       IF T = {} THEN base
                       ELSE DecodeByte(b[T \ {Max(T)}], s[Max(T)])]
               /\ DecodeScan(s) = b[DOMAIN s]
  <2>1. DecodeScan(s) = FoldLeft(DecodeByte, base, s)
    BY DEF DecodeScan
  <2> HIDE DEF step, Val, base, E
  <2>2. \E b : b = [T \in SUBSET DOMAIN s |->
                       IF T = {} THEN base
                       ELSE DecodeByte(b[T \ {Max(T)}], s[Max(T)])]
    BY Zenon, <1>6
  <2> QED BY Zenon, <2>1, <2>2 DEF FoldLeft, MapThenFoldSet
<1>8. a[{}] = b[{}] /\ AgreeOnLast(s, a, b) /\ IsSeq(s)
  <2> HIDE DEF step, Val, base, E
  <2> QED BY Zenon, <1>4, <1>6, <1>7 DEF AgreeOnLast, IsSeq
<1>9. \A T \in SUBSET DOMAIN s : a[T] = b[T]
  BY <1>8, FoldsAgree
<1> QED BY Zenon, <1>3, <1>7, <1>9 DEF FoldedBy

(* The value of a digit, and of the hex digits in use. *)
LEMMA DigitSmall ==
  ASSUME NEW j \in 0 .. 9
  PROVE  DigitBytes[j + 1] \in Digits /\ DigitValue[DigitBytes[j + 1]] = j
<1>1. j \in Nat /\ j % 10 = j
  OBVIOUS
<1>2. Digit(j) = DigitBytes[j + 1]
  BY <1>1 DEF Digit
<1>3. Digit(j) \in Digits /\ DigitValue[Digit(j)] = j % 10
  BY <1>1, DigitOf
<1> QED BY <1>1, <1>2, <1>3

(* The values of the digits. *)
LEMMA DigitsAre ==
  /\ DigitValue["0"] = 0 /\ DigitValue["1"] = 1 /\ DigitValue["2"] = 2 /\ DigitValue["3"] = 3
  /\ DigitValue["4"] = 4 /\ DigitValue["5"] = 5 /\ DigitValue["6"] = 6 /\ DigitValue["7"] = 7
  /\ DigitValue["8"] = 8 /\ DigitValue["9"] = 9
<1>1. \A j \in 0 .. 9 : DigitValue[DigitBytes[j + 1]] = j
  BY DigitSmall
<1>2. /\ DigitBytes[0 + 1] = "0" /\ DigitBytes[1 + 1] = "1" /\ DigitBytes[2 + 1] = "2"
      /\ DigitBytes[3 + 1] = "3" /\ DigitBytes[4 + 1] = "4" /\ DigitBytes[5 + 1] = "5"
      /\ DigitBytes[6 + 1] = "6" /\ DigitBytes[7 + 1] = "7" /\ DigitBytes[8 + 1] = "8"
      /\ DigitBytes[9 + 1] = "9"
  BY DEF DigitBytes
<1> QED BY <1>1, <1>2

(* The values of the hexadecimal digits in use. *)
LEMMA HexIs ==
  /\ HexValue["0"] = 0 /\ HexValue["1"] = 1 /\ HexValue["2"] = 2 /\ HexValue["5"] = 5
  /\ HexValue["B"] = 11 /\ HexValue["C"] = 12
BY DigitsAre DEF HexValue

(* What the percent codes stand for. *)
LEMMA NamedIs ==
  /\ NamedByte(HexValue["2"], "0") = " " /\ NamedByte(HexValue["1"], "B") = ESC
  /\ NamedByte(HexValue["5"], "C") = "\\" /\ NamedByte(HexValue["2"], "5") = "%"
<1>1. ByteNamed(32) = " " /\ ByteNamed(27) = ESC /\ ByteNamed(92) = "\\" /\ ByteNamed(37) = "%"
  BY DEF ByteNamed
<1>2. 2 * 16 + 0 = 32 /\ 1 * 16 + 11 = 27 /\ 5 * 16 + 12 = 92 /\ 2 * 16 + 5 = 37
  OBVIOUS
<1>3. /\ HexValue["2"] * 16 + HexValue["0"] = 32 /\ HexValue["1"] * 16 + HexValue["B"] = 27
      /\ HexValue["5"] * 16 + HexValue["C"] = 92 /\ HexValue["2"] * 16 + HexValue["5"] = 37
  BY <1>2, HexIs
<1> QED BY <1>1, <1>3, Zenon DEF NamedByte

(* Three bytes in turn. *)
FoldsInThree(step, base, a, b, c) ==
  Fold(step, base, <<a, b, c>>) = step[<<step[<<step[<<base, a>>], b>>], c>>]

(* A fold over three elements. *)
LEMMA FoldThree ==
  ASSUME NEW Val, NEW E, NEW a \in E, NEW b \in E, NEW c \in E, NEW base \in Val,
         NEW step, StepOf(step, Val, E)
  PROVE  FoldsInThree(step, base, a, b, c)
<1> DEFINE z == <<>>
           u == Append(z, a)
           v == Append(u, b)
<1>1. ListOf(z, E) /\ ListOf(u, E) /\ ListOf(v, E) /\ Append(v, c) = <<a, b, c>>
  <2>1. z \in Seq(E)
    OBVIOUS
  <2>2. u \in Seq(E) /\ u = <<a>>
    OBVIOUS
  <2>3. v \in Seq(E) /\ v = <<a, b>>
    <3>1. ListOf(u, E)
      BY <2>2 DEF ListOf
    <3>2. <<a>> \o <<b>> = <<a, b>>
      BY PairIs
    <3> HIDE DEF u
    <3>3. Append(u, b) = u \o <<b>> /\ ListOf(Append(u, b), E)
      BY <3>1, AppendIs
    <3> QED BY Zenon, <2>2, <3>2, <3>3 DEF ListOf
  <2>4. Append(v, c) = <<a, b, c>>
    <3>1. ListOf(v, E)
      BY <2>3 DEF ListOf
    <3>2. <<a, b>> \o <<c>> = <<a, b, c>>
      BY ThreeOf
    <3> HIDE DEF v
    <3>3. Append(v, c) = v \o <<c>>
      BY <3>1, AppendIs
    <3> QED BY Zenon, <2>3, <3>2, <3>3
  <2> HIDE DEF z, u, v
  <2> QED BY <2>1, <2>2, <2>3, <2>4 DEF ListOf
<1>2. Fold(step, base, z) = base
  BY FoldEmpty
<1> HIDE DEF z
<1>3. Fold(step, base, u) = step[<<Fold(step, base, z), a>>]
  <2>1. ListOf(z, E)
    BY <1>1
  <2> QED BY <2>1, FoldAppend
<1> HIDE DEF u
<1>4. Fold(step, base, v) = step[<<Fold(step, base, u), b>>]
  <2>1. ListOf(u, E)
    BY <1>1
  <2> QED BY <2>1, FoldAppend
<1> HIDE DEF v
<1>5. Fold(step, base, Append(v, c)) = step[<<Fold(step, base, v), c>>]
  <2>1. ListOf(v, E)
    BY <1>1
  <2> QED BY <2>1, FoldAppend
<1> QED BY <1>1, <1>2, <1>3, <1>4, <1>5 DEF FoldsInThree

(* A %HH in front of a terminal that has read t. *)
LEMMA HexRead ==
  ASSUME NEW t, t \in Seq(PathNames), NEW b, b \in WireBytes, NEW c, c \in WireBytes, "%" \in WireBytes
  PROVE  Fold(DecodeStep, Unescaped(t), <<"%", b, c>>)
           = Unescaped(Append(t, NamedByte(HexValue[b], c)))
<1> DEFINE p == "%"
           d0 == Unescaped(t)
           d1 == DecodeByte(d0, p)
           d2 == DecodeByte(d1, b)
           d3 == DecodeByte(d2, c)
<1>1. d0 \in Decoding /\ d1 \in Decoding /\ d2 \in Decoding
  BY ScannedType, DecodeByteType
<1>2. d0.left = 0 /\ d0.text = t /\ d0.code = 0
  BY DEF Unescaped
<1>3. d1 = [d0 EXCEPT !.left = 2]
  <2> HIDE DEF d0
  <2> QED BY Zenon, <1>2, DecodeByteIs
<1>4. d1.left = 2 /\ d1.text = t
  <2>1. d0 = [text |-> t, left |-> 0, code |-> 0]
    BY DEF Unescaped
  <2> HIDE DEF d0, d1
  <2> QED BY <1>3, <2>1
<1>5. d2 = [d1 EXCEPT !.left = 1, !.code = HexValue[b]]
  <2> HIDE DEF d1
  <2> QED BY Zenon, <1>4, DecodeByteIs
<1>6. d2.left = 1 /\ d2.text = t /\ d2.code = HexValue[b]
  <2>1. d1 = [text |-> d1.text, left |-> d1.left, code |-> d1.code]
    <3> HIDE DEF d1
    <3> QED BY <1>1 DEF Decoding
  <2> HIDE DEF d1, d2
  <2> QED BY <1>4, <1>5, <2>1
<1>7. d3 = Unescaped(Append(t, NamedByte(HexValue[b], c)))
  <2> HIDE DEF d2
  <2>1. d3 = Unescaped(Append(d2.text, NamedByte(d2.code, c)))
    BY Zenon, <1>6, DecodeByteIs
  <2> QED BY <1>6, <2>1
<1>8. /\ DecodeStep[<<d0, p>>] = d1 /\ DecodeStep[<<d1, b>>] = d2 /\ DecodeStep[<<d2, c>>] = d3
  <2> HIDE DEF d0, d1, d2, p
  <2>1. p \in WireBytes
    BY DEF p
  <2>2. DecodeStep[<<d0, p>>] = d1
    BY <1>1, <2>1 DEF DecodeStep, d1
  <2>3. DecodeStep[<<d1, b>>] = d2
    BY <1>1 DEF DecodeStep, d2
  <2>4. DecodeStep[<<d2, c>>] = d3
    BY <1>1 DEF DecodeStep
  <2> QED BY <2>2, <2>3, <2>4
<1>9. Fold(DecodeStep, d0, <<p, b, c>>) = DecodeStep[<<DecodeStep[<<DecodeStep[<<d0, p>>], b>>], c>>]
  <2>1. p \in WireBytes /\ StepOf(DecodeStep, Decoding, WireBytes)
    BY DecodeStepType
  <2> HIDE DEF d0, d1, d2, d3, p
  <2>2. p \in WireBytes /\ b \in WireBytes /\ c \in WireBytes /\ d0 \in Decoding
        /\ StepOf(DecodeStep, Decoding, WireBytes)
    BY <1>1, <2>1
  <2>3. FoldsInThree(DecodeStep, d0, p, b, c)
    BY <2>2, FoldThree
  <2> QED BY <2>3 DEF FoldsInThree
<1> HIDE DEF d1, d2, d3
<1>10. Fold(DecodeStep, d0, <<p, b, c>>) = Unescaped(Append(t, NamedByte(HexValue[b], c)))
  BY <1>7, <1>8, <1>9
<1> QED BY <1>10 DEF d0, p

(* The bytes a percent-encoded text has on the wire. *)
LEMMA WireBytesAre ==
  /\ HexBytes \subseteq WireBytes /\ PathBytes \subseteq PathNames
  /\ \A x \in PathBytes : x \notin DOMAIN PercentCode => x \in WireBytes
  /\ \A A : A \subseteq PathBytes => UrlBytes(A) \subseteq WireBytes
  /\ Semicolon \notin WireBytes /\ ESC \notin WireBytes
<1>1. /\ HexBytes \subseteq WireBytes /\ PathBytes \subseteq PathNames
      /\ \A x \in PathBytes : x \notin DOMAIN PercentCode => x \in WireBytes
      /\ \A A : A \subseteq PathBytes => UrlBytes(A) \subseteq WireBytes
  BY DEF WireBytes, UrlBytes, PathNames
<1>2. Semicolon \notin WireBytes /\ ESC \notin WireBytes
  <2> DEFINE L == {"-", "_", ".", "~"}
  <2>1. \A x \in ToSet(Base64Alphabet) : x # Semicolon /\ x # ESC
    <3>1. ToSet(Letters64) = {Letters64[i] : i \in 1 .. 64}
      <4>1. DOMAIN Letters64 = 1 .. 64
        BY LettersDiffer DEF IsList
      <4> QED BY <4>1 DEF ToSet
    <3>2. \A i \in 1 .. 64 : Letters64[i] # Semicolon /\ Letters64[i] # ESC
      BY LettersPlain, LettersDiffer
    <3> QED BY <3>1, <3>2, AlphabetIs
  <2>2. Semicolon \notin L /\ Semicolon \notin HexBytes /\ Semicolon \notin DOMAIN PercentCode
    <3>1. Semicolon \notin L /\ Semicolon \notin HexBytes
      BY Zenon DEF Semicolon, HexBytes
    <3>2. Semicolon \notin {" ", ESC, "\\", "%"}
      BY Zenon DEF Semicolon, ESC
    <3> QED BY Zenon, <3>1, <3>2, CodesAre
  <2>3. ESC \notin L /\ ESC \notin HexBytes /\ ESC \in DOMAIN PercentCode
    BY Zenon, CodesAre DEF ESC, HexBytes
  <2> HIDE DEF L
  <2>4. PathBytes \subseteq (ToSet(Base64Alphabet) \cup L) \cup DOMAIN PercentCode
    BY Zenon DEF PathBytes, PathSafe, L
  <2>5. WireBytes = (PathBytes \ DOMAIN PercentCode) \cup HexBytes
    BY DEF WireBytes, UrlBytes
  <2> QED BY <2>1, <2>2, <2>3, <2>4, <2>5
<1> QED BY <1>1, <1>2

(* What a byte of a path is coded as is read as that byte. *)
LEMMA CodeRead ==
  ASSUME NEW t, t \in Seq(PathNames), NEW x \in PathBytes
  PROVE  Fold(DecodeStep, Unescaped(t), Code(x)) = Unescaped(Append(t, x))
<1>1. "%" \in WireBytes /\ "2" \in WireBytes /\ "0" \in WireBytes /\ "1" \in WireBytes
      /\ "B" \in WireBytes /\ "5" \in WireBytes /\ "C" \in WireBytes
  BY WireBytesAre DEF HexBytes
<1>2. CASE x \in DOMAIN PercentCode
  <2>1. Code(x) = PercentCode[x]
    BY <1>2 DEF Code
  <2>2. \A b \in WireBytes, c \in WireBytes :
          Fold(DecodeStep, Unescaped(t), <<"%", b, c>>) = Unescaped(Append(t, NamedByte(HexValue[b], c)))
    BY Zenon, <1>1, HexRead
  <2>3. CASE x = " "
    <3>1. Fold(DecodeStep, Unescaped(t), <<"%", "2", "0">>) = Unescaped(Append(t, NamedByte(HexValue["2"], "0")))
      BY <1>1, <2>2
    <3> QED BY <2>1, <2>3, <3>1, CodesAre, NamedIs, Zenon
  <2>4. CASE x = ESC
    <3>1. Fold(DecodeStep, Unescaped(t), <<"%", "1", "B">>) = Unescaped(Append(t, NamedByte(HexValue["1"], "B")))
      BY <1>1, <2>2
    <3> QED BY <2>1, <2>4, <3>1, CodesAre, NamedIs, Zenon
  <2>5. CASE x = "\\"
    <3>1. Fold(DecodeStep, Unescaped(t), <<"%", "5", "C">>) = Unescaped(Append(t, NamedByte(HexValue["5"], "C")))
      BY <1>1, <2>2
    <3> QED BY <2>1, <2>5, <3>1, CodesAre, NamedIs, Zenon
  <2>6. CASE x = "%"
    <3>1. Fold(DecodeStep, Unescaped(t), <<"%", "2", "5">>) = Unescaped(Append(t, NamedByte(HexValue["2"], "5")))
      BY <1>1, <2>2
    <3> QED BY <2>1, <2>6, <3>1, CodesAre, NamedIs, Zenon
  <2>7. x \in {" ", ESC, "\\", "%"}
    BY Zenon, <1>2, CodesAre
  <2> QED BY Zenon, <2>3, <2>4, <2>5, <2>6, <2>7
<1>3. CASE x \notin DOMAIN PercentCode
  <2> DEFINE d == Unescaped(t)
  <2>1. Code(x) = <<x>>
    BY <1>3 DEF Code
  <2>2. x \in WireBytes /\ x # "%"
    BY Zenon, <1>3, WireBytesAre, CodesAre
  <2>3. d \in Decoding /\ StepOf(DecodeStep, Decoding, WireBytes)
    BY ScannedType, DecodeStepType
  <2>4. DecodeByte(d, x) = [d EXCEPT !.text = Append(@, x)]
    <3>1. d.left = 0
      BY DEF Unescaped
    <3> HIDE DEF d
    <3> QED BY Zenon, <2>2, <3>1, DecodeByteIs
  <2>5. [d EXCEPT !.text = Append(@, x)] = Unescaped(Append(t, x))
    BY DEF Unescaped
  <2>6. DecodeStep[<<d, x>>] = DecodeByte(d, x)
    <3> HIDE DEF d
    <3> QED BY <2>2, <2>3 DEF DecodeStep
  <2> HIDE DEF d
  <2>7. Fold(DecodeStep, d, <<x>>) = DecodeStep[<<d, x>>]
    BY Zenon, <2>2, <2>3, FoldOne
  <2> QED BY Zenon, <2>1, <2>4, <2>5, <2>6, <2>7 DEF d
<1> QED BY <1>2, <1>3

(* ... and so is a whole path. *)
LEMMA PercentRead ==
  ASSUME NEW t, t \in Seq(PathNames), NEW s, ListOf(s, PathBytes)
  PROVE  Fold(DecodeStep, Unescaped(t), PercentEncoded(s)) = Unescaped(t \o s)
<1> DEFINE A == PathBytes
           Fine(u) == Fold(DecodeStep, Unescaped(t), PercentEncoded(u)) = Unescaped(t \o u)
           Q == {u \in Seq(A) : Fine(u)}
<1>1. <<>> \in Q
  <2>1. Fold(DecodeStep, Unescaped(t), <<>>) = Unescaped(t)
    BY FoldEmpty
  <2>2. t \o <<>> = t
    BY ConcatEmptySeq
  <2>3. Fine(<<>>)
    BY <2>1, <2>2, PercentNone
  <2>4. <<>> \in Seq(A)
    OBVIOUS
  <2> QED BY <2>3, <2>4
<1>2. ASSUME NEW u \in Seq(A), NEW x \in A, u \in Q PROVE Append(u, x) \in Q
  <2> DEFINE v == Append(u, x)
             p == PercentEncoded(u)
             c == Code(x)
             w == t \o u
             d == Unescaped(t)
  <2>0. Fine(u)
    BY <1>2
  <2>1. ListOf(u, A)
    BY DEF ListOf
  <2>2. PercentEncoded(v) = p \o c /\ ListOf(p, WireBytes)
    BY Zenon, <2>1, PercentAppend DEF WireBytes
  <2>3. ListOf(c, WireBytes)
    BY CodeTyped DEF WireBytes
  <2>4. w \in Seq(PathNames) /\ x \in PathBytes
    <3>1. u \in Seq(PathNames)
      BY WireBytesAre
    <3> QED BY <3>1
  <2>5. Fold(DecodeStep, Unescaped(w), c) = Unescaped(Append(w, x))
    <3> HIDE DEF w
    <3> QED BY <2>4, CodeRead
  <2>6. d \in Decoding /\ StepOf(DecodeStep, Decoding, WireBytes)
    BY ScannedType, DecodeStepType
  <2> HIDE DEF p, c, d, v, w
  <2>7. Fold(DecodeStep, d, p \o c) = Fold(DecodeStep, Fold(DecodeStep, d, p), c)
    <3>1. ListOf(p, WireBytes) /\ ListOf(c, WireBytes) /\ d \in Decoding
          /\ StepOf(DecodeStep, Decoding, WireBytes)
      BY <2>2, <2>3, <2>6
    <3> HIDE DEF A, Q, Fine
    <3> QED BY <3>1, FoldCat
  <2>8. Fold(DecodeStep, d, p) = Unescaped(w)
    BY <2>0 DEF d, p, w
  <2>9. Append(w, x) = t \o v
    <3>1. ListOf(t, PathNames) /\ ListOf(u, PathNames) /\ x \in PathNames
      BY WireBytesAre DEF ListOf
    <3> DEFINE L == PathNames
    <3>2. ListOf(t, L) /\ ListOf(u, L) /\ x \in L
      BY <3>1
    <3> HIDE DEF A, Q, Fine, L
    <3> DEFINE o == <<x>>
    <3>3. v = u \o o
      <4>1. Append(u, x) = u \o <<x>>
        BY <3>2, AppendIs
      <4> QED BY <4>1 DEF v
    <3>4. Append(w, x) = w \o o
      <4>1. ListOf(w, L)
        BY <3>2 DEF ListOf, w
      <4> QED BY <3>2, <4>1, AppendIs
    <3>5. IsList(t) /\ IsList(u) /\ IsList(o)
      BY <3>2, ListIn, ListLiteral DEF ListOf, Literals
    <3> HIDE DEF o
    <3>6. (t \o u) \o o = t \o (u \o o)
      BY <3>5, CatAssoc
    <3> QED BY <3>3, <3>4, <3>6 DEF w
  <2>10. Fold(DecodeStep, Unescaped(t), PercentEncoded(v)) = Unescaped(t \o v)
    BY <2>2, <2>5, <2>7, <2>8, <2>9 DEF d
  <2>11. v \in Seq(A)
    BY DEF v
  <2> QED BY <2>10, <2>11 DEF v
<1>3. s \in Q
  <2> HIDE DEF Q
  <2>1. ListOf(s, A)
    OBVIOUS
  <2> HIDE DEF A
  <2> QED BY <1>1, <1>2, <2>1, ListsInductive
<1> QED BY <1>3

(* The path of a file URL, as the terminal reads it. *)
LEMMA PathBack ==
  ASSUME NEW s, ListOf(s, PathBytes)
  PROVE  LET z == PathPad(s) \o PercentEncoded(s)
         IN /\ PercentDecoded(z) = PathPad(s) \o s
            /\ ListOf(z, WireBytes) /\ Len(z) >= 1 /\ z[1] = "/"
<1> DEFINE e == PathPad(s)
           p == PercentEncoded(s)
           k == "/"
           z == e \o p
           none == <<>>
           d == Unescaped(none)
<1>1. k \in PathBytes /\ k \notin DOMAIN PercentCode /\ k \in WireBytes
  <2>1. k \in ToSet(Base64Alphabet)
    <3>1. 64 \in DOMAIN Letters64 /\ Letters64[64] = "/"
      <4>1. DOMAIN Letters64 = 1 .. 64
        BY LettersDiffer DEF IsList
      <4>2. Letters64[64] = "/"
        BY DEF Letters64
      <4> QED BY <4>1, <4>2
    <3> QED BY <3>1, AlphabetIs DEF ToSet
  <2>2. k \notin DOMAIN PercentCode /\ k # "+"
    BY Zenon, CodesAre DEF ESC
  <2>3. k \in PathBytes
    <3> HIDE DEF k
    <3> QED BY Zenon, <2>1, <2>2 DEF PathBytes, PathSafe
  <2> HIDE DEF k
  <2> QED BY <2>2, <2>3, WireBytesAre
<1>2. (e = none /\ s # none /\ s[1] = k) \/ e = <<k>>
  BY DEF PathPad
<1>3. none \in Seq(PathNames) /\ d \in Decoding /\ StepOf(DecodeStep, Decoding, WireBytes)
  BY ScannedType, DecodeStepType
<1>4. ListOf(p, WireBytes)
  <2>1. ListOf(p, UrlBytes(PathBytes))
    BY PercentTyped
  <2> QED BY <2>1 DEF WireBytes
<1>5. Fold(DecodeStep, d, e) = Unescaped(e) /\ ListOf(e, WireBytes) /\ e \in Seq(PathNames)
  <2>1. CASE e = none
    <3>1. Fold(DecodeStep, d, none) = d
      <4> HIDE DEF d
      <4> QED BY FoldEmpty
    <3>2. ListOf(none, WireBytes)
      BY DEF ListOf
    <3> HIDE DEF e, none
    <3> QED BY <1>3, <2>1, <3>1, <3>2
  <2>2. CASE e = <<k>>
    <3>1. Fold(DecodeStep, Unescaped(none), Code(k)) = Unescaped(Append(none, k))
      <4> HIDE DEF k, none
      <4> QED BY <1>1, <1>3, CodeRead
    <3>2. Code(k) = <<k>>
      <4> HIDE DEF k
      <4> QED BY <1>1 DEF Code
    <3>3. Append(none, k) = <<k>>
      OBVIOUS
    <3>4. ListOf(<<k>>, WireBytes) /\ <<k>> \in Seq(PathNames)
      <4>1. k \in PathNames
        BY <1>1, WireBytesAre
      <4> HIDE DEF k
      <4> QED BY <1>1, <4>1 DEF ListOf
    <3> HIDE DEF e, none, k
    <3> QED BY <2>2, <3>1, <3>2, <3>3, <3>4
  <2> QED BY <1>2, <2>1, <2>2
<1>6. z[1] = k /\ Len(z) >= 1 /\ ListOf(z, WireBytes)
  <2>1. ListOf(z, WireBytes) /\ Len(e) \in Nat /\ Len(p) \in Nat /\ Len(z) = Len(e) + Len(p)
    <3> HIDE DEF e, p
    <3> QED BY <1>4, <1>5 DEF ListOf
  <2>2. CASE e = none
    <3>1. s # none /\ s[1] = k
      <4>1. e # <<k>>
        <5> HIDE DEF e, k
        <5> QED BY <2>2
      <4> QED BY <1>2, <4>1
    <3>2. s # <<>> /\ s[1] \notin DOMAIN PercentCode
      BY <1>1, <3>1
    <3> HIDE DEF p, e, k
    <3>3. p # <<>> /\ p[1] = k
      <4>1. PercentEncoded(s) # <<>> /\ PercentEncoded(s)[1] = s[1]
        BY <3>2, PercentFirst
      <4> QED BY <3>1, <4>1 DEF p
    <3>4. z = p
      BY <1>4, <2>2 DEF ListOf
    <3> HIDE DEF z
    <3> QED BY <1>4, <2>1, <3>3, <3>4 DEF ListOf
  <2>3. CASE e = <<k>>
    <3> HIDE DEF e, p, k
    <3>1. z[1] = k /\ Len(z) >= 1
      BY <1>4, <2>3 DEF ListOf
    <3> QED BY <2>1, <3>1
  <2> QED BY <1>2, <2>2, <2>3
<1>7. PercentDecoded(z) = e \o s
  <2> HIDE DEF z, e, p, d, none, k
  <2>1. DecodeScan(z) = Fold(DecodeStep, Unescaped(<<>>), z)
    BY <1>6, DecodeIsFold
  <2>2. Fold(DecodeStep, d, e \o p) = Fold(DecodeStep, Fold(DecodeStep, d, e), p)
    BY <1>3, <1>4, <1>5, FoldCat
  <2>3. Fold(DecodeStep, Unescaped(e), p) = Unescaped(e \o s)
    <3>1. Fold(DecodeStep, Unescaped(e), PercentEncoded(s)) = Unescaped(e \o s)
      BY <1>5, PercentRead
    <3> QED BY <3>1 DEF p
  <2>4. DecodeScan(z) = Unescaped(e \o s)
    BY <1>5, <2>1, <2>2, <2>3 DEF d, none, z
  <2>5. Unescaped(e \o s).text = e \o s
    BY DEF Unescaped
  <2> QED BY <2>4, <2>5, DecodedIs
<1> QED BY <1>6, <1>7

(* PathOf, by the place of the first slash. *)
LEMMA PathOfIs ==
  \A s : PathOf(s) = PercentDecoded(SubSeq(s, FirstAt(s, 8, "/"), Len(s)))
BY Zenon DEF PathOf, FirstAt

(* The bytes of a file URL. *)
UrlAlphabet == WireBytes \cup {"f", "i", "l", "e", ":", "/"}

(* The bytes of a file URL. *)
LEMMA UrlAlphabetIs ==
  /\ Semicolon \notin UrlAlphabet /\ ESC \notin UrlAlphabet /\ WireBytes \subseteq UrlAlphabet
  /\ ListOf(FileUrl, UrlAlphabet) /\ IsList(FileUrl) /\ Len(FileUrl) = 7
<1> DEFINE L == {"f", "i", "l", "e", ":", "/"}
<1>1. Semicolon \notin L /\ ESC \notin L
  BY Zenon DEF Semicolon, ESC
<1>2. UrlAlphabet = WireBytes \cup L
  BY DEF UrlAlphabet
<1>3. IsList(FileUrl) /\ Len(FileUrl) = 7
  BY DEF FileUrl, IsList, Range
<1>4. \A j \in 1 .. Len(FileUrl) : FileUrl[j] \in L
  BY <1>3 DEF FileUrl
<1> HIDE DEF L
<1>5. \A j \in 1 .. Len(FileUrl) : FileUrl[j] \in UrlAlphabet
  BY <1>2, <1>4
<1>6. FileUrl \in Seq(UrlAlphabet)
  BY <1>3, <1>5, ListOver
<1> QED BY <1>1, <1>2, <1>3, <1>6, WireBytesAre DEF ListOf

(* What stands from the first k behind seven bytes and a host without one.  *)
LEMMA RestFound ==
  ASSUME NEW k, NEW f, IsList(f), Len(f) = 7, NEW h, IsList(h), \A j \in 1 .. Len(h) : h[j] # k,
         NEW z, IsList(z), Len(z) >= 1, z[1] = k, NEW url, AllInTurn(f, h, z, url)
  PROVE  SubSeq(url, FirstAt(url, 8, k), Len(url)) = z
<1> DEFINE m == 8
           p == 8 + Len(h)
<1>1. Len(h) \in Nat /\ Len(z) \in Nat /\ 1 \in 1 .. Len(z)
  BY DEF IsList
<1>2. IsList(url) /\ Len(url) = 7 + Len(h) + Len(z)
      /\ (\A j \in 1 .. Len(h) : url[7 + j] = h[j]) /\ url[7 + Len(h) + 1] = z[1]
  BY Zenon, <1>1 DEF AllInTurn
<1>3. m \in Nat /\ p \in Nat /\ m <= p /\ p <= Len(url) /\ url[p] = k
  BY <1>1, <1>2
<1>4. \A i \in m .. p - 1 : url[i] # k
  <2> SUFFICES ASSUME NEW i \in m .. p - 1 PROVE url[i] # k
    OBVIOUS
  <2> DEFINE j == i - 7
  <2>1. j \in 1 .. Len(h) /\ i = 7 + j
    BY <1>1
  <2> HIDE DEF j
  <2>2. url[i] = h[j]
    BY <1>2, <2>1
  <2> QED BY <2>1, <2>2
<1>5. SubSeq(url, Len(f) + Len(h) + 1, Len(url)) = z
  BY Zenon, PartsFound
<1>7. p = Len(f) + Len(h) + 1
  BY <1>1
<1> HIDE DEF m, p
<1>8. FirstAt(url, m, k) = p
  <2>1. IsList(url) /\ m \in Nat /\ p \in Nat /\ m <= p /\ p <= Len(url) /\ url[p] = k
        /\ \A i \in m .. p - 1 : url[i] # k
    BY <1>2, <1>3, <1>4
  <2> QED BY Zenon, <2>1, FirstByte
<1> QED BY Zenon, <1>5, <1>7, <1>8 DEF m

(* The first "/" behind "file://" and the host begins the path. *)
LEMMA PathFound ==
  ASSUME NEW f, IsList(f), Len(f) = 7, NEW h, IsList(h), \A j \in 1 .. Len(h) : h[j] # "/",
         NEW z, IsList(z), Len(z) >= 1, z[1] = "/", NEW url, AllInTurn(f, h, z, url)
  PROVE  PathOf(url) = PercentDecoded(z)
<1> DEFINE k == "/"
<1>1. (\A j \in 1 .. Len(h) : h[j] # k) /\ z[1] = k
  OBVIOUS
<1>2. PathOf(url) = PercentDecoded(SubSeq(url, FirstAt(url, 8, k), Len(url)))
  BY PathOfIs
<1> HIDE DEF k
<1>3. SubSeq(url, FirstAt(url, 8, k), Len(url)) = z
  BY <1>1, RestFound
<1> QED BY Zenon, <1>2, <1>3

(* An encoded host has no slash. *)
LEMMA HostTyped ==
  ASSUME NEW s, ListOf(s, PathBytes \ {"/"})
  PROVE  LET h == PercentEncoded(s)
         IN ListOf(h, WireBytes) /\ IsList(h) /\ \A j \in 1 .. Len(h) : h[j] # "/"
<1> DEFINE A == PathBytes \ {"/"}
           h == PercentEncoded(s)
<1>1. ListOf(h, UrlBytes(A))
  <2> HIDE DEF A
  <2>1. ListOf(s, A)
    BY DEF A
  <2> QED BY <2>1, PercentTyped
<1>2. UrlBytes(A) \subseteq WireBytes
  <2>1. A \subseteq PathBytes
    OBVIOUS
  <2> HIDE DEF A
  <2> QED BY <2>1, WireBytesAre
<1>3. "/" \notin UrlBytes(A)
  BY DEF UrlBytes, HexBytes
<1> HIDE DEF A, h
<1>4. IsList(h) /\ \A j \in 1 .. Len(h) : h[j] \in UrlBytes(A)
  <2>1. IsList(h)
    BY <1>1, ListIn DEF ListOf
  <2> QED BY <1>1, <2>1 DEF ListOf
<1>5. ListOf(h, WireBytes)
  BY <1>1, <1>2 DEF ListOf
<1> QED BY <1>3, <1>4, <1>5 DEF h

(* A working directory is drawn: the path is read back as it was. *)
LEMMA DrawnDir ==
  ASSUME NEW t, NEW i, i.kind = "osc7", ListOf(i.host, PathBytes \ {"/"}), ListOf(i.path, PathBytes)
  PROVE  Drawn(EncodeDyn(i), t, Meaning(t, i))
<1> DEFINE h == PercentEncoded(i.host)
           r == PathPad(i.path)
           p == PercentEncoded(i.path)
           z == r \o p
           f == FileUrl
           c == <<"7">>
           s == <<Semicolon>>
           e == c \o s
           url == (f \o h) \o z
           b == e \o url
           g == ((OSC \o e) \o f) \o h
           q == Split(b)
           u == Meaning(t, i)
           w == r \o i.path
<1>1. EncodeDyn(i) = ((((((OSC \o e) \o f) \o h) \o r) \o p)) \o ST
  <2>1. EncodeDyn(i) = (((((OSC \o <<"7", ";">>) \o f) \o h) \o r) \o p) \o ST
    BY Zenon DEF EncodeDyn, Osc7Bytes
  <2>2. e = <<"7", Semicolon>>
    BY PairIs
  <2> HIDE DEF f, h, r, p, e
  <2> QED BY Zenon, <2>1, <2>2 DEF Semicolon
<1>2. u = [t EXCEPT !.cwd = w]
  <2> DEFINE x == i.path
             k == "/"
             v == IF x # <<>> /\ x[1] = k THEN x ELSE <<k>> \o x
  <2>1. u = [t EXCEPT !.cwd = v]
    BY DEF Meaning
  <2>2. v = PathPad(x) \o x
    <3>1. x \in Seq(PathBytes)
      BY DEF ListOf
    <3> HIDE DEF x, k
    <3>2. <<>> \o x = x
      BY <3>1, ConcatEmptySeq
    <3>3. PathPad(x) = IF x # <<>> /\ x[1] = k THEN <<>> ELSE <<k>>
      BY DEF PathPad, k
    <3> QED BY Zenon, <3>2, <3>3
  <2> HIDE DEF v
  <2> QED BY <2>1, <2>2
<1>3. ListOf(h, WireBytes) /\ IsList(h) /\ \A j \in 1 .. Len(h) : h[j] # "/"
  BY Zenon, HostTyped
<1>4. PercentDecoded(z) = w /\ ListOf(z, WireBytes) /\ Len(z) >= 1 /\ z[1] = "/"
  BY Zenon, PathBack
<1>5. ListOf(p, WireBytes) /\ IsList(r)
  <2>1. ListOf(p, UrlBytes(PathBytes))
    BY PercentTyped
  <2>2. r = <<>> \/ r = <<"/">>
    BY DEF PathPad
  <2>3. IsList(r)
    BY <2>2, ListLiteral DEF Literals
  <2> QED BY <2>1, <2>3 DEF WireBytes
<1>6. q[1] = c => ObeyOsc(t, b) = [t EXCEPT !.cwd = PathOf(q[Len(q)])]
  BY OscObeyed
<1> DEFINE C == {"7"}
<1>7. ListOf(c, C) /\ Semicolon \notin C
  BY OscCodes
<1>8. Quiet(c) /\ Quiet(s) /\ Len(c) = 1 /\ Len(s) = 1
  BY CodeBytes
<1>9. IsList(f) /\ Len(f) = 7 /\ ListOf(f, UrlAlphabet) /\ ListOf(h, UrlAlphabet) /\ ListOf(z, UrlAlphabet)
  <2> HIDE DEF f, h, z
  <2> QED BY <1>3, <1>4, UrlAlphabetIs DEF f, ListOf
<1>10. IsList(z) /\ IsList(p) /\ IsList(c) /\ IsList(s)
  BY Zenon, <1>4, <1>5, <1>8, ListIn DEF ListOf, Quiet
<1> HIDE DEF h, r, p, f, c, s, u, w, C
<1>11. IsList(e) /\ Quiet(e) /\ Len(e) = 2
  <2>1. Quiet(e) /\ Len(e) = Len(c) + Len(s)
    BY Zenon, <1>8, QuietCat
  <2> QED BY <1>8, <2>1 DEF Quiet
<1>12. AllInTurn(f, h, z, url) /\ IsList(url)
  <2> HIDE DEF z
  <2>1. AllInTurn(f, h, z, url)
    BY <1>3, <1>9, <1>10, ThreeJoined
  <2> QED BY <2>1 DEF AllInTurn
<1>13. PathOf(url) = w
  <2> HIDE DEF z, url
  <2>1. PathOf(url) = PercentDecoded(z)
    BY <1>3, <1>4, <1>9, <1>10, <1>12, PathFound
  <2> QED BY <1>4, <2>1
<1>14. ListOf(url, UrlAlphabet)
  <2> HIDE DEF z
  <2> QED BY <1>9 DEF ListOf
<1>15. q[1] = c /\ q[Len(q)] = url
  <2> HIDE DEF url
  <2>1. q = Split((c \o <<Semicolon>>) \o url)
    BY DEF s
  <2> HIDE DEF q
  <2>2. Semicolon \notin UrlAlphabet
    BY UrlAlphabetIs
  <2> QED BY <1>7, <1>14, <2>1, <2>2, OscTwoParts
<1>16. Quiet(url)
  <2> HIDE DEF url
  <2>1. \A j \in 1 .. Len(url) : url[j] \in UrlAlphabet
    BY <1>14 DEF ListOf
  <2> QED BY <1>12, <2>1, UrlAlphabetIs DEF Quiet
<1>17. Quiet(b) /\ Len(b) >= 1
  <2> HIDE DEF url, e
  <2>1. Quiet(b) /\ Len(b) = Len(e) + Len(url) /\ Len(url) \in Nat
    BY Zenon, <1>11, <1>16, QuietCat
  <2> QED BY <1>11, <2>1
<1>18. (g \o r) \o p = OSC \o b
  <2> HIDE DEF e
  <2>1. IsList(OSC) /\ IsList(e) /\ IsList(f) /\ IsList(h) /\ IsList(z)
    BY <1>3, <1>9, <1>10, <1>11, FrameSize
  <2>2. Regrouped(OSC, e, f, h, z)
    <3> HIDE DEF z, url, b, g, q
    <3> QED BY <2>1, FiveRegrouped
  <2>3. /\ (((OSC \o e) \o f) \o h) \o z = OSC \o (((e \o f) \o h) \o z)
        /\ ((e \o f) \o h) \o z = e \o ((f \o h) \o z)
    BY <2>2 DEF Regrouped
  <2>4. IsList(g)
    <3> DEFINE a == OSC \o e
               d == a \o f
    <3>1. InTurn(OSC, e, a)
      BY <2>1, ListsJoined
    <3>2. IsList(a)
      BY <3>1 DEF InTurn
    <3> HIDE DEF a
    <3>3. InTurn(a, f, d)
      BY <2>1, <3>2, ListsJoined
    <3>4. IsList(d)
      BY <3>3 DEF InTurn
    <3> HIDE DEF d
    <3>5. InTurn(d, h, d \o h)
      BY <2>1, <3>4, ListsJoined
    <3> QED BY <3>5 DEF InTurn, d, a
  <2>5. (g \o r) \o p = g \o (r \o p)
    <3>1. IsList(g) /\ IsList(r) /\ IsList(p)
      BY <1>5, <1>10, <2>4
    <3> HIDE DEF g
    <3> QED BY <3>1, CatAssoc
  <2> QED BY Zenon, <2>3, <2>5
<1> HIDE DEF b, q, g
<1>19. ObeyOsc(t, b) = u
  BY <1>2, <1>6, <1>13, <1>15
<1>20. Drawn((OSC \o b) \o ST, t, u)
  BY <1>17, <1>19, DrawnText
<1>21. EncodeDyn(i) = (OSC \o b) \o ST
  BY <1>1, <1>18 DEF g
<1> QED BY <1>20, <1>21 DEF u

-----------------------------------------------------------------------------
(* Styles: what the terminal reads in the parameters of CSI m.              *)

(* What a terminal keeps while it reads the parameters of a CSI ... m.      *)
SgrAlphabet    == Digits \cup {":", Semicolon}
Params         == Seq(SgrAlphabet)
ParamNumbers   == {Num(p) : p \in Params}
LastDigit(n)   == n % 10
Underlines     == DOMAIN UnderlineParam \cup {UnderlineOf(p) : p \in Params}
AttributeNames == ToSet(Attributes) \cup {ShortAttribute[x] : x \in DOMAIN ShortAttribute}
Sixteen(n)     == [tone |-> IF n >= 90 THEN "bright" ELSE "basic", n |-> LastDigit(n)]
More(e)        == IF e[2] = 5 THEN [tone |-> "indexed", n |-> e[3]]
                              ELSE [tone |-> "rgb", r |-> e[3], g |-> e[4], b |-> e[5]]
Whole38(e)     == Len(e) > 2 /\ Len(e) = (IF e[2] = 5 THEN 3 ELSE 5)
Tones ==
  Colors \cup {Sixteen(n) : n \in ParamNumbers}
    \cup {More(e) : e \in {x \in Seq(ParamNumbers) : Whole38(x)}}
Pens     == [attrs : SUBSET AttributeNames, underline : Underlines, fg : Tones, bg : Tones]
SgrState == [style : Pens, taken : Seq(ParamNumbers)]
SgrStep  == [q \in SgrState \X Params |-> SgrParam(q[1], q[2])]
SgrAt(z) == [style |-> z, taken |-> <<>>]

(* The sixteen colours, by their numbers. *)
LEMMA SixteenIs ==
  \A z, n : /\ n \in (30 .. 37) \cup (90 .. 97) => SixteenColors(z, n) = [z EXCEPT !.fg = Sixteen(n)]
            /\ n \notin (30 .. 37) \cup (90 .. 97) => SixteenColors(z, n) = [z EXCEPT !.bg = Sixteen(n)]
BY Zenon DEF SixteenColors, SetColor, Sixteen, LastDigit

(* 38 is the foreground and any other the background. *)
LEMMA ExtendedIs ==
  \A z, e : /\ e[1] = 38 => Extended(z, e) = [z EXCEPT !.fg = More(e)]
            /\ e[1] # 38 => Extended(z, e) = [z EXCEPT !.bg = More(e)]
BY Zenon DEF Extended, SetColor, More

(* What a first parameter is. *)
IsZero(p)      == p = <<"0">>
IsAttribute(p) == Len(p) = 1 /\ p[1] \in DOMAIN ShortAttribute
IsUnderline(p) == p[1] = "4" /\ (Len(p) = 1 \/ p[2] = ":")
IsExtended(p)  == p \in {<<"3", "8">>, <<"4", "8">>}

(* A parameter is of one kind. *)
LEMMA FirstParameter ==
  ASSUME NEW p
  PROVE  /\ IsZero(p) => ~IsAttribute(p) /\ ~IsUnderline(p) /\ ~IsExtended(p)
         /\ IsAttribute(p) => ~IsUnderline(p) /\ ~IsExtended(p)
         /\ IsUnderline(p) => ~IsExtended(p)
<1>1. DOMAIN ShortAttribute = {"1", "2", "3", "7", "9"}
  BY DEF ShortAttribute
<1>2. IsZero(p) => Len(p) = 1 /\ p[1] = "0"
  BY DEF IsZero
<1>3. IsExtended(p) => Len(p) = 2 /\ p[2] = "8"
  BY DEF IsExtended
<1>4. IsZero(p) => ~IsAttribute(p) /\ ~IsUnderline(p) /\ ~IsExtended(p)
  BY <1>1, <1>2, <1>3 DEF IsAttribute, IsUnderline
<1>5. IsAttribute(p) => ~IsUnderline(p) /\ ~IsExtended(p)
  BY <1>1, <1>3 DEF IsAttribute, IsUnderline
<1>6. IsUnderline(p) => ~IsExtended(p)
  BY <1>3 DEF IsUnderline
<1> QED BY <1>4, <1>5, <1>6

ParamRead(s, p) ==
  LET e == Append(s.taken, Num(p))
  IN /\ s.taken # <<>> /\ Whole38(e) => SgrParam(s, p) = SgrAt(Extended(s.style, e))
     /\ s.taken # <<>> /\ ~Whole38(e) => SgrParam(s, p) = [s EXCEPT !.taken = e]
     /\ s.taken = <<>> /\ IsZero(p) => SgrParam(s, p) = [s EXCEPT !.style = NoStyle]
     /\ s.taken = <<>> /\ IsAttribute(p) =>
          SgrParam(s, p) = [s EXCEPT !.style.attrs = @ \cup {ShortAttribute[p[1]]}]
     /\ s.taken = <<>> /\ IsUnderline(p) =>
          SgrParam(s, p) = [s EXCEPT !.style.underline = UnderlineOf(p)]
     /\ s.taken = <<>> /\ IsExtended(p) => SgrParam(s, p) = [s EXCEPT !.taken = e]
     /\ s.taken = <<>> /\ ~IsZero(p) /\ ~IsAttribute(p) /\ ~IsUnderline(p) /\ ~IsExtended(p) =>
          SgrParam(s, p) = [s EXCEPT !.style = SixteenColors(s.style, Num(p))]

(* What one parameter of CSI m does, by its kind. *)
LEMMA SgrParamIs == ASSUME NEW s, NEW p PROVE ParamRead(s, p)
<1> DEFINE e == Append(s.taken, Num(p))
<1>0. /\ IsZero(p) => ~IsAttribute(p) /\ ~IsUnderline(p) /\ ~IsExtended(p)
      /\ IsAttribute(p) => ~IsUnderline(p) /\ ~IsExtended(p)
      /\ IsUnderline(p) => ~IsExtended(p)
  BY FirstParameter
<1>1. SgrParam(s, p) =
        CASE s.taken # <<>> /\ Whole38(e) -> SgrAt(Extended(s.style, e))
          [] s.taken # <<>> /\ ~Whole38(e) -> [s EXCEPT !.taken = e]
          [] s.taken = <<>> /\ IsZero(p) -> [s EXCEPT !.style = NoStyle]
          [] s.taken = <<>> /\ IsAttribute(p) ->
               [s EXCEPT !.style.attrs = @ \cup {ShortAttribute[p[1]]}]
          [] s.taken = <<>> /\ IsUnderline(p) -> [s EXCEPT !.style.underline = UnderlineOf(p)]
          [] s.taken = <<>> /\ IsExtended(p) -> [s EXCEPT !.taken = e]
          [] OTHER -> [s EXCEPT !.style = SixteenColors(s.style, Num(p))]
  BY Zenon DEF SgrParam, Whole38, SgrAt, IsZero, IsAttribute, IsUnderline, IsExtended
<1> DEFINE r1 == SgrAt(Extended(s.style, e))
           r2 == [s EXCEPT !.taken = e]
           r3 == [s EXCEPT !.style = NoStyle]
           r4 == [s EXCEPT !.style.attrs = @ \cup {ShortAttribute[p[1]]}]
           r5 == [s EXCEPT !.style.underline = UnderlineOf(p)]
           r6 == [s EXCEPT !.style = SixteenColors(s.style, Num(p))]
           w == Whole38(e)
           t == s.taken # <<>>
<1>2. SgrParam(s, p) =
        CASE t /\ w -> r1
          [] t /\ ~w -> r2
          [] ~t /\ IsZero(p) -> r3
          [] ~t /\ IsAttribute(p) -> r4
          [] ~t /\ IsUnderline(p) -> r5
          [] ~t /\ IsExtended(p) -> r2
          [] OTHER -> r6
  BY Zenon, <1>1
<1> HIDE DEF r1, r2, r3, r4, r5, r6
<1>3. /\ t /\ w => SgrParam(s, p) = r1
      /\ t /\ ~w => SgrParam(s, p) = r2
      /\ ~t /\ IsZero(p) => SgrParam(s, p) = r3
      /\ ~t /\ IsAttribute(p) => SgrParam(s, p) = r4
      /\ ~t /\ IsUnderline(p) => SgrParam(s, p) = r5
      /\ ~t /\ IsExtended(p) => SgrParam(s, p) = r2
      /\ ~t /\ ~IsZero(p) /\ ~IsAttribute(p) /\ ~IsUnderline(p) /\ ~IsExtended(p) =>
           SgrParam(s, p) = r6
  BY <1>0, <1>2
<1> QED BY Zenon, <1>3 DEF ParamRead, r1, r2, r3, r4, r5, r6

(* The tones of a pen. *)
LEMMA TonesHave ==
  /\ \A n \in ParamNumbers : Sixteen(n) \in Tones
  /\ \A e \in Seq(ParamNumbers) : Whole38(e) => More(e) \in Tones
  /\ Colors \subseteq Tones
BY DEF Tones

(* The terminal starts with the style a reset leaves. *)
LEMMA NoStylePen == NoStyle \in Pens /\ ResetStyle = NoStyle
<1>1. NoColor \in Colors
  BY DEF Colors
<1>2. "none" \in DOMAIN UnderlineParam
  BY DEF UnderlineParam
<1> QED BY <1>1, <1>2 DEF NoStyle, NoColor, Pens, Tones, Underlines, ResetStyle, Style

(* A pen with one field changed. *)
LEMMA PenFields ==
  ASSUME NEW z \in Pens
  PROVE  /\ \A c \in Tones : [z EXCEPT !.fg = c] \in Pens /\ [z EXCEPT !.bg = c] \in Pens
         /\ \A x \in Underlines : [z EXCEPT !.underline = x] \in Pens
         /\ \A x \in AttributeNames : [z EXCEPT !.attrs = z.attrs \cup {x}] \in Pens
<1> HIDE DEF Tones, Underlines, AttributeNames
<1> QED BY DEF Pens

(* The two parts of what it keeps. *)
LEMMA SgrFields ==
  ASSUME NEW s \in SgrState
  PROVE  /\ s.style \in Pens /\ s.taken \in Seq(ParamNumbers)
         /\ \A z \in Pens : [s EXCEPT !.style = z] \in SgrState /\ SgrAt(z) \in SgrState
         /\ \A e \in Seq(ParamNumbers) : [s EXCEPT !.taken = e] \in SgrState
BY DEF SgrState, SgrAt

(* A parameter leads from state to state. *)
LEMMA SgrParamType ==
  ASSUME NEW s \in SgrState, NEW p \in Params
  PROVE  SgrParam(s, p) \in SgrState
<1> DEFINE e == Append(s.taken, Num(p))
           z == s.style
<1>1. z \in Pens /\ s.taken \in Seq(ParamNumbers)
  BY SgrFields
<1>2. Num(p) \in ParamNumbers
  BY DEF ParamNumbers
<1>3. e \in Seq(ParamNumbers)
  BY <1>1, <1>2
<1>4. ParamRead(s, p)
  BY SgrParamIs
<1>5. CASE s.taken # <<>> /\ Whole38(e)
  <2>1. SgrParam(s, p) = SgrAt(Extended(z, e))
    BY <1>4, <1>5 DEF ParamRead
  <2>2. Extended(z, e) = [z EXCEPT !.fg = More(e)] \/ Extended(z, e) = [z EXCEPT !.bg = More(e)]
    BY ExtendedIs
  <2>3. More(e) \in Tones
    BY Zenon, <1>3, <1>5, TonesHave
  <2> HIDE DEF e, z
  <2>4. Extended(z, e) \in Pens
    BY Zenon, <1>1, <2>2, <2>3, PenFields
  <2> QED BY Zenon, <2>1, <2>4, SgrFields
<1>6. CASE s.taken # <<>> /\ ~Whole38(e)
  <2>1. SgrParam(s, p) = [s EXCEPT !.taken = e]
    BY <1>4, <1>6 DEF ParamRead
  <2> HIDE DEF e
  <2> QED BY <1>3, <2>1, SgrFields
<1>7. CASE s.taken = <<>> /\ IsZero(p)
  <2>1. SgrParam(s, p) = [s EXCEPT !.style = NoStyle]
    BY <1>4, <1>7 DEF ParamRead
  <2> QED BY <2>1, SgrFields, NoStylePen
<1>8. CASE s.taken = <<>> /\ IsAttribute(p)
  <2> DEFINE x == ShortAttribute[p[1]]
  <2>1. SgrParam(s, p) = [s EXCEPT !.style.attrs = @ \cup {x}]
    BY <1>4, <1>8 DEF ParamRead
  <2>2. x \in AttributeNames
    BY <1>8 DEF AttributeNames, IsAttribute
  <2> HIDE DEF x
  <2>3. [z EXCEPT !.attrs = z.attrs \cup {x}] \in Pens
    <3> HIDE DEF z
    <3> QED BY <1>1, <2>2, PenFields
  <2>4. [s EXCEPT !.style.attrs = @ \cup {x}] = [s EXCEPT !.style = [z EXCEPT !.attrs = z.attrs \cup {x}]]
    OBVIOUS
  <2> QED BY Zenon, <2>1, <2>3, <2>4, SgrFields
<1>9. CASE s.taken = <<>> /\ IsUnderline(p)
  <2> DEFINE x == UnderlineOf(p)
  <2>1. SgrParam(s, p) = [s EXCEPT !.style.underline = x]
    BY <1>4, <1>9 DEF ParamRead
  <2>2. x \in Underlines
    BY DEF Underlines
  <2> HIDE DEF x
  <2>3. [z EXCEPT !.underline = x] \in Pens
    <3> HIDE DEF z
    <3> QED BY <1>1, <2>2, PenFields
  <2>4. [s EXCEPT !.style.underline = x] = [s EXCEPT !.style = [z EXCEPT !.underline = x]]
    OBVIOUS
  <2> QED BY Zenon, <2>1, <2>3, <2>4, SgrFields
<1>10. CASE s.taken = <<>> /\ IsExtended(p)
  <2>1. SgrParam(s, p) = [s EXCEPT !.taken = e]
    BY <1>4, <1>10 DEF ParamRead
  <2> HIDE DEF e
  <2> QED BY <1>3, <2>1, SgrFields
<1>11. CASE s.taken = <<>> /\ ~IsZero(p) /\ ~IsAttribute(p) /\ ~IsUnderline(p) /\ ~IsExtended(p)
  <2>1. SgrParam(s, p) = [s EXCEPT !.style = SixteenColors(z, Num(p))]
    BY <1>4, <1>11 DEF ParamRead
  <2>2. \/ SixteenColors(z, Num(p)) = [z EXCEPT !.fg = Sixteen(Num(p))]
        \/ SixteenColors(z, Num(p)) = [z EXCEPT !.bg = Sixteen(Num(p))]
    BY SixteenIs
  <2>3. Sixteen(Num(p)) \in Tones
    BY <1>2, TonesHave
  <2> HIDE DEF z
  <2>4. SixteenColors(z, Num(p)) \in Pens
    BY Zenon, <1>1, <2>2, <2>3, PenFields
  <2> QED BY <2>1, <2>4, SgrFields
<1> QED BY <1>5, <1>6, <1>7, <1>8, <1>9, <1>10, <1>11

(* Reading parameters is a step function. *)
LEMMA SgrStepType ==
  /\ StepOf(SgrStep, SgrState, Params) /\ \A z \in Pens : SgrAt(z) \in SgrState
  /\ \A s \in SgrState, p \in Params : SgrStep[<<s, p>>] = SgrParam(s, p)
<1>1. StepOf(SgrStep, SgrState, Params)
  BY SgrParamType DEF StepOf, SgrStep
<1>2. \A z \in Pens : SgrAt(z) \in SgrState
  BY DEF SgrAt, SgrState
<1>3. \A s \in SgrState, p \in Params : SgrStep[<<s, p>>] = SgrParam(s, p)
  BY DEF SgrStep
<1> QED BY <1>1, <1>2, <1>3

(* The parameters, as a fold. *)
LEMMA SgrIsFold ==
  ASSUME NEW s, ListOf(s, Params), NEW z \in Pens
  PROVE  ObeySgr(z, s) = Fold(SgrStep, SgrAt(z), s).style
<1> DEFINE step == SgrStep
           base == SgrAt(z)
           Val == SgrState
           E == Params
<1>1. base \in Val /\ StepOf(step, Val, E)
  BY SgrStepType
<1>2. \E a : FoldedBy(a, Val, step, base, s)
  <2> HIDE DEF step, Val, base, E
  <2>1. ListOf(s, E)
    BY DEF E
  <2> QED BY <1>1, <2>1, FoldRule
<1>3. PICK a : FoldedBy(a, Val, step, base, s)
  BY <1>2
<1>4. Len(s) \in Nat /\ DOMAIN s = 1 .. Len(s) /\ \A i \in DOMAIN s : s[i] \in E
  BY DEF ListOf
<1>10. \A v \in Val, x \in E : step[<<v, x>>] = SgrParam(v, x)
  BY Zenon, SgrStepType
<1>5. ASSUME NEW T \in SUBSET DOMAIN s, T # {}
      PROVE  a[T] = SgrParam(a[T \ {Max(T)}], s[Max(T)])
  <2> HIDE DEF step, base, Val, E
  <2>1. Max(T) \in DOMAIN s
    BY Zenon, <1>4, <1>5, GreatestNumber
  <2>2. a[T] = step[<<a[T \ {Max(T)}], s[Max(T)]>>]
    BY Zenon, <1>3, <1>5 DEF FoldedBy, FoldsOver
  <2>3. a[T \ {Max(T)}] \in Val /\ s[Max(T)] \in E
    BY <1>3, <1>4, <2>1 DEF FoldedBy
  <2> QED BY <1>10, <2>2, <2>3
<1>6. a = [T \in SUBSET DOMAIN s |->
             IF T = {} THEN base
             ELSE SgrParam(a[T \ {Max(T)}], s[Max(T)])]
  <2>1. a[{}] = base /\ a = [T \in SUBSET DOMAIN s |-> a[T]]
    <3> HIDE DEF step, Val, base
    <3> QED BY <1>3 DEF FoldedBy, FoldsOver
  <2> HIDE DEF step, Val, base, E
  <2> QED BY Zenon, <1>5, <2>1
<1>7. PICK b : /\ b = [T \in SUBSET DOMAIN s |->
                       IF T = {} THEN base
                       ELSE SgrParam(b[T \ {Max(T)}], s[Max(T)])]
               /\ ObeySgr(z, s) = b[DOMAIN s].style
  <2>1. ObeySgr(z, s) = FoldLeft(SgrParam, base, s).style
    BY DEF ObeySgr, SgrAt
  <2> HIDE DEF step, Val, base, E
  <2>2. \E b : b = [T \in SUBSET DOMAIN s |->
                       IF T = {} THEN base
                       ELSE SgrParam(b[T \ {Max(T)}], s[Max(T)])]
    BY Zenon, <1>6
  <2> QED BY Zenon, <2>1, <2>2 DEF FoldLeft, MapThenFoldSet
<1>8. a[{}] = b[{}] /\ AgreeOnLast(s, a, b) /\ IsSeq(s)
  <2> HIDE DEF step, Val, base, E
  <2> QED BY Zenon, <1>4, <1>6, <1>7 DEF AgreeOnLast, IsSeq
<1>9. \A T \in SUBSET DOMAIN s : a[T] = b[T]
  BY <1>8, FoldsAgree
<1> QED BY Zenon, <1>3, <1>7, <1>9 DEF FoldedBy

(* The parts of a text of one alphabet. *)
LEMMA SplitOver ==
  ASSUME NEW A, NEW s, ListOf(s, A)
  PROVE  Split(s) \in Parts(A)
<1> DEFINE step == SplitStep(A)
           Val == Parts(A)
           base == << <<>> >>
<1>2. base \in Val /\ StepOf(step, Val, A)
  BY SplitStepType
<1>3. Split(s) = Fold(step, base, s)
  BY SplitIsFold
<1> HIDE DEF step, base
<1>4. Split(s) \in Val
  <2> HIDE DEF Val
  <2> QED BY <1>2, <1>3, FoldTyped
<1> QED BY <1>4

-----------------------------------------------------------------------------
(* The parameters of a style, driving the terminal from pen to pen.         *)

(* x takes the terminal from s to s2 in a list of style parameters.         *)
Drives(x, s, s2) ==
  /\ Argument(x) /\ ListOf(x, SgrAlphabet) /\ Len(x) >= 1 /\ x[1] \notin Marks
  /\ s \in SgrState /\ s2 \in SgrState /\ Fold(SgrStep, s, Split(x)) = s2

OneParam == Digits \cup {":"}

(* The bytes of a style parameter. *)
LEMMA ParamBytesAre ==
  /\ Semicolon \notin OneParam /\ OneParam \subseteq SgrAlphabet
  /\ \A b \in OneParam : b # ESC /\ ~IsCsiFinal(b) /\ b \notin Marks
  /\ Semicolon # ESC /\ ~IsCsiFinal(Semicolon) /\ Semicolon \in SgrAlphabet
<1>1. ":" # ESC /\ ~IsCsiFinal(":") /\ ":" \notin Marks
  BY DEF ESC, IsCsiFinal, Marks
<1>2. Semicolon # ":"
  BY Zenon DEF Semicolon
<1>3. Semicolon # ESC /\ ~IsCsiFinal(Semicolon)
  BY DEF Semicolon, ESC, IsCsiFinal
<1> QED BY <1>1, <1>2, <1>3, DigitBytesAre DEF OneParam, SgrAlphabet

(* One parameter. *)
LEMMA DrivesOne ==
  ASSUME NEW x, ListOf(x, OneParam), x # <<>>, NEW s, s \in SgrState, NEW s2, SgrParam(s, x) = s2
  PROVE  Drives(x, s, s2)
<1>1. IsList(x) /\ Len(x) \in Nat /\ Len(x) >= 1 /\ \A i \in 1 .. Len(x) : x[i] \in OneParam
  <2>1. IsList(x)
    BY ListIn DEF ListOf
  <2> QED BY <2>1 DEF ListOf
<1>2. Argument(x)
  BY <1>1, ParamBytesAre DEF Argument
<1>3. x[1] \notin Marks
  <2>1. 1 \in 1 .. Len(x)
    BY <1>1
  <2> QED BY <1>1, <2>1, ParamBytesAre
<1>4. ListOf(x, SgrAlphabet)
  BY <1>1, ParamBytesAre DEF ListOf
<1>5. Split(x) = <<x>>
  BY ParamBytesAre, SplitOne
<1>6. x \in Params
  BY <1>4 DEF Params, ListOf
<1>7. Fold(SgrStep, s, <<x>>) = s2 /\ s2 \in SgrState
  <2>1. StepOf(SgrStep, SgrState, Params)
    BY SgrStepType
  <2>2. Fold(SgrStep, s, <<x>>) = SgrStep[<<s, x>>] /\ SgrStep[<<s, x>>] \in SgrState
    BY Zenon, <1>6, <2>1, FoldOne
  <2>3. SgrStep[<<s, x>>] = SgrParam(s, x)
    BY <1>6, SgrStepType
  <2> QED BY <2>2, <2>3
<1> QED BY <1>1, <1>2, <1>3, <1>4, <1>5, <1>7 DEF Drives

(* Two lists of parameters. *)
LEMMA DrivesCat ==
  ASSUME NEW x, NEW y, NEW s, NEW s1, NEW s2, Drives(x, s, s1), Drives(y, s1, s2)
  PROVE  Drives((x \o <<Semicolon>>) \o y, s, s2)
<1> DEFINE q == (x \o <<Semicolon>>) \o y
<1>1. /\ Argument(x) /\ ListOf(x, SgrAlphabet) /\ Len(x) >= 1 /\ x[1] \notin Marks
      /\ Argument(y) /\ ListOf(y, SgrAlphabet) /\ s \in SgrState /\ s2 \in SgrState
      /\ Fold(SgrStep, s, Split(x)) = s1 /\ Fold(SgrStep, s1, Split(y)) = s2
  BY DEF Drives
<1>2. Argument(q) /\ q[1] = x[1]
  BY <1>1, ParamBytesAre, TwoArguments
<1>3. ListOf(q, SgrAlphabet) /\ Len(q) >= 1
  <2> DEFINE c == Semicolon
  <2>1. c \in SgrAlphabet /\ x \in Seq(SgrAlphabet) /\ y \in Seq(SgrAlphabet)
    BY <1>1, ParamBytesAre DEF ListOf
  <2> HIDE DEF c
  <2> DEFINE p == (x \o <<c>>) \o y
  <2>2. p \in Seq(SgrAlphabet) /\ Len(p) = Len(x) + 1 + Len(y) /\ Len(x) \in Nat /\ Len(y) \in Nat
    BY <2>1
  <2>3. ListOf(p, SgrAlphabet) /\ Len(p) >= 1
    BY <2>2, <1>1 DEF ListOf
  <2> QED BY <2>3 DEF c
<1>4. Split(q) = Split(x) \o Split(y)
  BY Zenon, <1>1, SplitCat DEF Argument
<1> HIDE DEF q
<1>5. Split(x) \in Parts(SgrAlphabet) /\ Split(y) \in Parts(SgrAlphabet)
  BY <1>1, SplitOver
<1>6. ListOf(Split(x), Params) /\ ListOf(Split(y), Params)
  BY <1>5, PartsAre DEF Params
<1>7. Fold(SgrStep, s, Split(x) \o Split(y)) = Fold(SgrStep, Fold(SgrStep, s, Split(x)), Split(y))
  <2>1. StepOf(SgrStep, SgrState, Params)
    BY SgrStepType
  <2> QED BY <1>1, <1>6, <2>1, FoldCat
<1>8. Drives(q, s, s2)
  BY <1>1, <1>2, <1>3, <1>4, <1>7 DEF Drives
<1> QED BY <1>8 DEF q

(* What a list of style parameters does to the terminal. *)
LEMMA DrawnDrives ==
  ASSUME NEW x, NEW t, NEW z, Drives(x, SgrAt(t.style), SgrAt(z)), t.style \in Pens
  PROVE  Drawn((CSI \o x) \o <<"m">>, t, [t EXCEPT !.style = z])
<1>1. /\ Argument(x) /\ ListOf(x, SgrAlphabet) /\ x[1] \notin Marks
      /\ Fold(SgrStep, SgrAt(t.style), Split(x)) = SgrAt(z)
  BY DEF Drives
<1>2. ListOf(Split(x), Params)
  BY <1>1, SplitOver, PartsAre DEF Params
<1>3. ObeySgr(t.style, Split(x)) = Fold(SgrStep, SgrAt(t.style), Split(x)).style
  BY <1>2, SgrIsFold
<1>4. ObeySgr(t.style, Split(x)) = z
  BY <1>1, <1>3 DEF SgrAt
<1>5. ObeyCsi(t, NoMark, Split(x), "m") = [t EXCEPT !.style = z]
  BY <1>4, CsiStyles
<1> DEFINE k == "m"
<1>6. CsiEnd(k) /\ ObeyCsi(t, NoMark, Split(x), k) = [t EXCEPT !.style = z]
  BY <1>5, FinalsEnd
<1> HIDE DEF k
<1>7. Drawn((CSI \o x) \o <<k>>, t, [t EXCEPT !.style = z])
  BY <1>1, <1>6, DrawnPlain
<1> QED BY <1>7 DEF k

Numeral(x, n) == ListOf(x, Digits) /\ x # <<>> /\ Num(x) = n
Taking(z, e)  == [style |-> z, taken |-> e]

(* A numeral is one style parameter. *)
LEMMA NumeralOne ==
  ASSUME NEW x, ListOf(x, Digits), x # <<>>
  PROVE  ListOf(x, OneParam) /\ x \in Params
<1>1. ListOf(x, OneParam)
  BY DEF ListOf, OneParam
<1>2. x \in Params
  BY DEF ListOf, Params, SgrAlphabet
<1> QED BY <1>1, <1>2

(* The numerals that styles are made of. *)
LEMMA NumeralsAre ==
  /\ \A n \in FiveDigits : Numeral(Itoa(n), n)
  /\ Numeral(<<"5">>, 5) /\ Numeral(<<"2">>, 2)
  /\ Numeral(<<"3", "8">>, 38) /\ Numeral(<<"4", "8">>, 48)
<1>1. \A n \in FiveDigits : Numeral(Itoa(n), n)
  BY NumItoa DEF Numeral
<1>2. \A d \in Digits : Numeral(<<d>>, DigitValue[d])
  <2> SUFFICES ASSUME NEW d \in Digits PROVE Numeral(<<d>>, DigitValue[d])
    BY Zenon
  <2>1. ListOf(<<d>>, Digits) /\ <<d>> # <<>>
    BY DEF ListOf
  <2> QED BY <2>1, NumOne DEF Numeral
<1>3. \A c \in Digits, d \in Digits : Numeral(<<c, d>>, DigitValue[c] * 10 + DigitValue[d])
  <2> SUFFICES ASSUME NEW c \in Digits, NEW d \in Digits
               PROVE  Numeral(<<c, d>>, DigitValue[c] * 10 + DigitValue[d])
    BY Zenon
  <2>1. ListOf(<<c, d>>, Digits) /\ <<c, d>> # <<>>
    BY DEF ListOf
  <2> QED BY <2>1, NumTwo DEF Numeral
<1>4. {"2", "3", "4", "5", "8"} \subseteq Digits
  BY Zenon, ByteClasses
<1>5. Numeral(<<"5">>, 5) /\ Numeral(<<"2">>, 2)
  BY <1>2, <1>4, DigitsAre
<1>6. Numeral(<<"3", "8">>, 38)
  <2>1. Numeral(<<"3", "8">>, DigitValue["3"] * 10 + DigitValue["8"])
    BY <1>3, <1>4
  <2>2. DigitValue["3"] * 10 + DigitValue["8"] = 38
    BY DigitsAre
  <2> QED BY <2>1, <2>2
<1>7. Numeral(<<"4", "8">>, 48)
  <2>1. Numeral(<<"4", "8">>, DigitValue["4"] * 10 + DigitValue["8"])
    BY <1>3, <1>4
  <2>2. DigitValue["4"] * 10 + DigitValue["8"] = 48
    BY DigitsAre
  <2> QED BY <2>1, <2>2
<1> QED BY <1>1, <1>5, <1>6, <1>7

(* A number that is none of the special parameters. *)
LEMMA PlainNumber ==
  ASSUME NEW p, NEW n, Numeral(p, n), n >= 10, n \notin {38, 48}
  PROVE  ~IsZero(p) /\ ~IsAttribute(p) /\ ~IsUnderline(p) /\ ~IsExtended(p)
<1>1. ListOf(p, Digits) /\ p # <<>> /\ Num(p) = n
  BY DEF Numeral
<1>2. Len(p) \in Nat /\ Len(p) >= 1 /\ \A i \in 1 .. Len(p) : p[i] \in Digits
  BY <1>1 DEF ListOf
<1>3. Len(p) # 1
  <2> SUFFICES ASSUME Len(p) = 1 PROVE FALSE
    OBVIOUS
  <2>1. p = <<p[1]>> /\ p[1] \in Digits
    BY <1>1, <1>2 DEF ListOf
  <2>2. n = DigitValue[p[1]]
    BY <1>1, <2>1, NumOne
  <2>3. DigitValue[p[1]] \in 0 .. 9
    BY <2>1, DigitRange
  <2> QED BY <2>2, <2>3
<1>4. ~IsZero(p)
  <2>1. Len(<<"0">>) = 1
    OBVIOUS
  <2> QED BY <1>3, <2>1 DEF IsZero
<1>5. ~IsAttribute(p)
  BY <1>3 DEF IsAttribute
<1>6. ~IsUnderline(p)
  <2>1. 2 \in 1 .. Len(p)
    BY SMTT(40), <1>2, <1>3
  <2>2. p[2] # ":"
    BY Zenon, <1>2, <2>1, ByteClasses
  <2> QED BY <1>3, <2>2 DEF IsUnderline
<1>7. ~IsExtended(p)
  <2>1. Num(<<"3", "8">>) = 38 /\ Num(<<"4", "8">>) = 48
    BY NumeralsAre DEF Numeral
  <2> QED BY <1>1, <2>1 DEF IsExtended
<1> QED BY <1>4, <1>5, <1>6, <1>7

(* One of the sixteen colours. *)
LEMMA DrivesSixteen ==
  ASSUME NEW z \in Pens, NEW n \in FiveDigits, n >= 10, n \notin {38, 48}
  PROVE  Drives(Itoa(n), SgrAt(z), SgrAt(SixteenColors(z, n)))
<1> DEFINE p == Itoa(n)
           s == SgrAt(z)
           s2 == SgrAt(SixteenColors(z, n))
<1>1. Numeral(p, n)
  BY NumeralsAre
<1> HIDE DEF p
<1>2. ~IsZero(p) /\ ~IsAttribute(p) /\ ~IsUnderline(p) /\ ~IsExtended(p)
  BY <1>1, PlainNumber
<1>3. ParamRead(s, p)
  BY SgrParamIs
<1>4. s.taken = <<>> /\ s.style = z
  BY DEF SgrAt
<1>5. [s EXCEPT !.style = SixteenColors(s.style, n)] = s2
  BY <1>4 DEF SgrAt
<1> HIDE DEF s, s2
<1>6. SgrParam(s, p) = s2
  BY <1>1, <1>2, <1>3, <1>4, <1>5 DEF ParamRead, Numeral
<1>7. s \in SgrState
  BY SgrStepType DEF s
<1>8. ListOf(p, OneParam) /\ p # <<>>
  BY <1>1, NumeralOne DEF Numeral
<1>9. Drives(p, s, s2)
  BY <1>6, <1>7, <1>8, DrivesOne
<1> QED BY <1>9 DEF p, s, s2

(* A number that goes with those before it. *)
LEMMA DrivesTaking ==
  ASSUME NEW z, NEW e, Taking(z, e) \in SgrState, e # <<>>, NEW x, NEW n, Numeral(x, n),
         NEW f, f = Append(e, n)
  PROVE  /\ ~Whole38(f) => Drives(x, Taking(z, e), Taking(z, f))
         /\ Whole38(f) => Drives(x, Taking(z, e), SgrAt(Extended(z, f)))
<1> DEFINE s == Taking(z, e)
           a == Taking(z, f)
           b == SgrAt(Extended(z, f))
<1>1. s.taken = e /\ s.style = z /\ [s EXCEPT !.taken = f] = a
  <2>1. \A u, v, w : [[style |-> u, taken |-> v] EXCEPT !.taken = w] = [style |-> u, taken |-> w]
    OBVIOUS
  <2>2. [s EXCEPT !.taken = f] = a
    BY Zenon, <2>1 DEF Taking
  <2>3. s.taken = e /\ s.style = z
    BY Zenon DEF Taking
  <2> QED BY <2>2, <2>3
<1>2. ParamRead(s, x)
  BY SgrParamIs
<1>3. s \in SgrState
  OBVIOUS
<1>4. ListOf(x, OneParam) /\ x # <<>> /\ Num(x) = n
  BY NumeralOne DEF Numeral
<1> HIDE DEF s, a
<1>5. /\ ~Whole38(f) => SgrParam(s, x) = a
      /\ Whole38(f) => SgrParam(s, x) = b
  BY <1>1, <1>2, <1>4 DEF ParamRead
<1> HIDE DEF b
<1>6. ~Whole38(f) => Drives(x, s, a)
  BY <1>3, <1>4, <1>5, DrivesOne
<1>7. Whole38(f) => Drives(x, s, b)
  BY <1>3, <1>4, <1>5, DrivesOne
<1> QED BY <1>6, <1>7 DEF s, a, b

(* 38 or 48. *)
LEMMA DrivesExtended ==
  ASSUME NEW z \in Pens, NEW x, NEW n, Numeral(x, n), IsExtended(x)
  PROVE  Drives(x, SgrAt(z), Taking(z, <<n>>))
<1> DEFINE s == SgrAt(z)
           a == Taking(z, <<n>>)
<1>1. s.taken = <<>> /\ s.style = z /\ [s EXCEPT !.taken = <<n>>] = a
  BY DEF Taking, SgrAt
<1>2. ParamRead(s, x)
  BY SgrParamIs
<1>3. s \in SgrState
  BY SgrStepType
<1>4. ListOf(x, OneParam) /\ x # <<>> /\ Num(x) = n
  BY NumeralOne DEF Numeral
<1>5. Append(s.taken, n) = <<n>>
  BY <1>1
<1> HIDE DEF s, a
<1>6. SgrParam(s, x) = a
  BY <1>1, <1>2, <1>4, <1>5 DEF ParamRead
<1>7. Drives(x, s, a)
  BY <1>3, <1>4, <1>6, DrivesOne
<1> QED BY <1>7 DEF s, a

(* How much of 38 or 48 has been read. *)
LEMMA Whole38Is ==
  ASSUME NEW k, NEW a, NEW b, NEW c
  PROVE  /\ ~Whole38(<<k, 5>>) /\ Whole38(<<k, 5, a>>)
         /\ ~Whole38(<<k, 2>>) /\ ~Whole38(<<k, 2, a>>) /\ ~Whole38(<<k, 2, a, b>>)
         /\ Whole38(<<k, 2, a, b, c>>)
<1>1. ~Whole38(<<k, 5>>) /\ Whole38(<<k, 5, a>>)
  BY DEF Whole38
<1>2. ~Whole38(<<k, 2>>) /\ ~Whole38(<<k, 2, a>>) /\ ~Whole38(<<k, 2, a, b>>)
  BY DEF Whole38
<1>3. Whole38(<<k, 2, a, b, c>>)
  BY DEF Whole38
<1> QED BY <1>1, <1>2, <1>3

(* Lists of up to five, one element at a time. *)
LEMMA AppendsAre ==
  ASSUME NEW k, NEW m, NEW a, NEW b, NEW c
  PROVE  /\ <<k, m>> = Append(<<k>>, m) /\ <<k, m, a>> = Append(<<k, m>>, a)
         /\ <<k, m, a, b>> = Append(<<k, m, a>>, b) /\ <<k, m, a, b, c>> = Append(<<k, m, a, b>>, c)
         /\ <<k>> # <<>> /\ <<k, m>> # <<>> /\ <<k, m, a>> # <<>> /\ <<k, m, a, b>> # <<>>
OBVIOUS

(* One more number, which does not end it. *)
LEMMA DrivesMore ==
  ASSUME NEW w, NEW s, NEW z, NEW e, Drives(w, s, Taking(z, e)), e # <<>>,
         NEW x, NEW n, Numeral(x, n), NEW f, f = Append(e, n)
  PROVE  /\ ~Whole38(f) => Drives((w \o <<Semicolon>>) \o x, s, Taking(z, f))
         /\ Whole38(f) => Drives((w \o <<Semicolon>>) \o x, s, SgrAt(Extended(z, f)))
<1> DEFINE m == Taking(z, e)
           a == Taking(z, f)
           b == SgrAt(Extended(z, f))
<1>1. m \in SgrState
  BY DEF Drives
<1>2. (~Whole38(f) => Drives(x, m, a)) /\ (Whole38(f) => Drives(x, m, b))
  BY Zenon, <1>1, DrivesTaking
<1>3. Drives(w, s, m)
  OBVIOUS
<1> HIDE DEF m, a, b
<1>4. ~Whole38(f) => Drives((w \o <<Semicolon>>) \o x, s, a)
  BY <1>2, <1>3, DrivesCat
<1>5. Whole38(f) => Drives((w \o <<Semicolon>>) \o x, s, b)
  BY <1>2, <1>3, DrivesCat
<1> QED BY <1>4, <1>5 DEF a, b

(* 38;5;n and 48;5;n. *)
LEMMA DrivesIndexed ==
  ASSUME NEW z \in Pens, NEW x, NEW k, Numeral(x, k), IsExtended(x), NEW n \in FiveDigits
  PROVE  Drives((((x \o <<Semicolon>>) \o <<"5">>) \o <<Semicolon>>) \o Itoa(n),
                SgrAt(z), SgrAt(Extended(z, <<k, 5, n>>)))
<1> DEFINE five == <<"5">>
           s == <<Semicolon>>
           d == Itoa(n)
           v == 5
           o == SgrAt(z)
           w1 == (x \o s) \o five
           e1 == <<k>>
           e2 == <<k, v>>
           e3 == <<k, v, n>>
<1>1. Numeral(five, v) /\ Numeral(d, n)
  BY NumeralsAre
<1>2. e2 = Append(e1, v) /\ e3 = Append(e2, n) /\ e1 # <<>> /\ e2 # <<>>
  BY AppendsAre
<1>3. ~Whole38(e2) /\ Whole38(e3)
  BY Zenon, Whole38Is
<1>4. Drives(x, o, Taking(z, e1))
  BY DrivesExtended
<1> HIDE DEF five, d, v, o, e1, e2, e3
<1>5. Drives((x \o <<Semicolon>>) \o five, o, Taking(z, e2))
  BY Zenon, <1>1, <1>2, <1>3, <1>4, DrivesMore
<1>6. Drives(w1, o, Taking(z, e2))
  BY <1>5
<1> HIDE DEF w1
<1>7. Drives((w1 \o <<Semicolon>>) \o d, o, SgrAt(Extended(z, e3)))
  BY Zenon, <1>1, <1>2, <1>3, <1>6, DrivesMore
<1> QED BY <1>7 DEF w1, d, five, e3, o, v

(* 38;2;r;g;b and 48;2;r;g;b. *)
LEMMA DrivesRgb ==
  ASSUME NEW z \in Pens, NEW x, NEW k, Numeral(x, k), IsExtended(x),
         NEW r \in FiveDigits, NEW g \in FiveDigits, NEW b \in FiveDigits
  PROVE  Drives((((((((x \o <<Semicolon>>) \o <<"2">>) \o <<Semicolon>>) \o Itoa(r))
                    \o <<Semicolon>>) \o Itoa(g)) \o <<Semicolon>>) \o Itoa(b),
                SgrAt(z), SgrAt(Extended(z, <<k, 2, r, g, b>>)))
<1> DEFINE two == <<"2">>
           s == <<Semicolon>>
           v == 2
           o == SgrAt(z)
           xr == Itoa(r)
           xg == Itoa(g)
           xb == Itoa(b)
           w1 == (x \o s) \o two
           w2 == (w1 \o s) \o xr
           w3 == (w2 \o s) \o xg
           e1 == <<k>>
           e2 == <<k, v>>
           e3 == <<k, v, r>>
           e4 == <<k, v, r, g>>
           e5 == <<k, v, r, g, b>>
<1>1. Numeral(two, v) /\ Numeral(xr, r) /\ Numeral(xg, g) /\ Numeral(xb, b)
  BY NumeralsAre
<1>2. /\ e2 = Append(e1, v) /\ e3 = Append(e2, r) /\ e4 = Append(e3, g) /\ e5 = Append(e4, b)
      /\ e1 # <<>> /\ e2 # <<>> /\ e3 # <<>> /\ e4 # <<>>
  BY AppendsAre
<1>3. ~Whole38(e2) /\ ~Whole38(e3) /\ ~Whole38(e4) /\ Whole38(e5)
  BY Zenon, Whole38Is
<1>4. Drives(x, o, Taking(z, e1))
  BY DrivesExtended
<1> HIDE DEF two, xr, xg, xb, v, o, e1, e2, e3, e4, e5
<1>5. Drives((x \o <<Semicolon>>) \o two, o, Taking(z, e2))
  BY Zenon, <1>1, <1>2, <1>3, <1>4, DrivesMore
<1>6. Drives(w1, o, Taking(z, e2))
  BY <1>5
<1> HIDE DEF w1
<1>7. Drives((w1 \o <<Semicolon>>) \o xr, o, Taking(z, e3))
  BY Zenon, <1>1, <1>2, <1>3, <1>6, DrivesMore
<1>8. Drives(w2, o, Taking(z, e3))
  BY <1>7
<1> HIDE DEF w2
<1>9. Drives((w2 \o <<Semicolon>>) \o xg, o, Taking(z, e4))
  BY Zenon, <1>1, <1>2, <1>3, <1>8, DrivesMore
<1>10. Drives(w3, o, Taking(z, e4))
  BY <1>9
<1> HIDE DEF w3
<1>11. Drives((w3 \o <<Semicolon>>) \o xb, o, SgrAt(Extended(z, e5)))
  BY Zenon, <1>1, <1>2, <1>3, <1>10, DrivesMore
<1> QED BY <1>11 DEF w3, w2, w1, two, xr, xg, xb, e5, o, v

(* What an extended colour is. *)
LEMMA MoreIs ==
  ASSUME NEW k, NEW n, NEW r, NEW g, NEW b
  PROVE  /\ More(<<k, 5, n>>) = [tone |-> "indexed", n |-> n]
         /\ More(<<k, 2, r, g, b>>) = [tone |-> "rgb", r |-> r, g |-> g, b |-> b]
<1>1. More(<<k, 5, n>>) = [tone |-> "indexed", n |-> n]
  BY DEF More
<1>2. More(<<k, 2, r, g, b>>) = [tone |-> "rgb", r |-> r, g |-> g, b |-> b]
  BY DEF More
<1> QED BY <1>1, <1>2

-----------------------------------------------------------------------------
(* Colours.                                                                 *)

Prefixed(x, d) == (x \o <<Semicolon, d, Semicolon>>)

(* A number between two semicolons. *)
LEMMA PrefixedIs ==
  ASSUME NEW x, IsList(x), NEW d
  PROVE  Prefixed(x, d) = ((x \o <<Semicolon>>) \o <<d>>) \o <<Semicolon>>
<1> DEFINE c == Semicolon
           s == <<c>>
           f == <<d>>
           m == <<c, d>>
           g == <<c, d, c>>
<1>1. IsList(s) /\ IsList(f) /\ IsList(m)
  BY ListLiteral DEF Literals
<1>2. s \o f = m
  BY PairIs
<1>3. m \o s = g
  BY ThreeOf
<1> HIDE DEF s, f, m, g
<1>4. (x \o s) \o f = x \o m
  <2>1. IsList(x) /\ IsList(s) /\ IsList(f)
    BY <1>1
  <2>2. (x \o s) \o f = x \o (s \o f)
    BY <2>1, CatAssoc
  <2> QED BY <1>2, <2>2
<1>5. (x \o m) \o s = x \o g
  <2>1. IsList(x) /\ IsList(m) /\ IsList(s)
    BY <1>1
  <2>2. (x \o m) \o s = x \o (m \o s)
    BY <2>1, CatAssoc
  <2> QED BY <1>3, <2>2
<1> QED BY Zenon, <1>4, <1>5 DEF g, s, f, c, Prefixed

(* Color::write_params, tone by tone. *)
LEMMA ColorIs ==
  ASSUME NEW c
  PROVE  /\ c.tone = "basic" => ParamBytes(c, "fg") = Itoa(30 + c.n) /\ ParamBytes(c, "bg") = Itoa(40 + c.n)
         /\ c.tone = "bright" => ParamBytes(c, "fg") = Itoa(90 + c.n) /\ ParamBytes(c, "bg") = Itoa(100 + c.n)
         /\ c.tone = "indexed" =>
              /\ ParamBytes(c, "fg") = Prefixed(<<"3", "8">>, "5") \o Itoa(c.n)
              /\ ParamBytes(c, "bg") = Prefixed(<<"4", "8">>, "5") \o Itoa(c.n)
         /\ c.tone = "rgb" =>
              /\ ParamBytes(c, "fg") = ((((Prefixed(<<"3", "8">>, "2") \o Itoa(c.r)) \o <<Semicolon>>)
                                           \o Itoa(c.g)) \o <<Semicolon>>) \o Itoa(c.b)
              /\ ParamBytes(c, "bg") = ((((Prefixed(<<"4", "8">>, "2") \o Itoa(c.r)) \o <<Semicolon>>)
                                           \o Itoa(c.g)) \o <<Semicolon>>) \o Itoa(c.b)
<1>1. ParamBytes(c, "fg") = ColorParams(c, TRUE)
  BY DEF ParamBytes
<1>2. ParamBytes(c, "bg") = ColorParams(c, FALSE)
  BY DEF ParamBytes
<1>3. ColorParams(c, TRUE) =
        CASE c.tone = "basic"   -> Itoa(30 + c.n)
          [] c.tone = "bright"  -> Itoa(90 + c.n)
          [] c.tone = "indexed" -> Prefixed(<<"3", "8">>, "5") \o Itoa(c.n)
          [] c.tone = "rgb"     -> ((((Prefixed(<<"3", "8">>, "2") \o Itoa(c.r)) \o <<Semicolon>>)
                                           \o Itoa(c.g)) \o <<Semicolon>>) \o Itoa(c.b)
  BY Zenon DEF ColorParams, Prefixed, Semicolon
<1>4. ColorParams(c, FALSE) =
        CASE c.tone = "basic"   -> Itoa(40 + c.n)
          [] c.tone = "bright"  -> Itoa(100 + c.n)
          [] c.tone = "indexed" -> Prefixed(<<"4", "8">>, "5") \o Itoa(c.n)
          [] c.tone = "rgb"     -> ((((Prefixed(<<"4", "8">>, "2") \o Itoa(c.r)) \o <<Semicolon>>)
                                           \o Itoa(c.g)) \o <<Semicolon>>) \o Itoa(c.b)
  BY Zenon DEF ColorParams, Prefixed, Semicolon
<1> DEFINE a1 == Itoa(30 + c.n)
           a2 == Itoa(90 + c.n)
           a3 == Prefixed(<<"3", "8">>, "5") \o Itoa(c.n)
           a4 == ((((Prefixed(<<"3", "8">>, "2") \o Itoa(c.r)) \o <<Semicolon>>)
                     \o Itoa(c.g)) \o <<Semicolon>>) \o Itoa(c.b)
           b1 == Itoa(40 + c.n)
           b2 == Itoa(100 + c.n)
           b3 == Prefixed(<<"4", "8">>, "5") \o Itoa(c.n)
           b4 == ((((Prefixed(<<"4", "8">>, "2") \o Itoa(c.r)) \o <<Semicolon>>)
                     \o Itoa(c.g)) \o <<Semicolon>>) \o Itoa(c.b)
           p == ColorParams(c, TRUE)
           q == ColorParams(c, FALSE)
<1>5. p = CASE c.tone = "basic" -> a1 [] c.tone = "bright" -> a2
             [] c.tone = "indexed" -> a3 [] c.tone = "rgb" -> a4
  BY Zenon, <1>3
<1>6. q = CASE c.tone = "basic" -> b1 [] c.tone = "bright" -> b2
             [] c.tone = "indexed" -> b3 [] c.tone = "rgb" -> b4
  BY Zenon, <1>4
<1>9. ParamBytes(c, "fg") = p /\ ParamBytes(c, "bg") = q
  BY Zenon, <1>1, <1>2
<1> HIDE DEF a1, a2, a3, a4, b1, b2, b3, b4, p, q
<1>7. /\ c.tone = "basic" => p = a1 /\ q = b1
      /\ c.tone = "bright" => p = a2 /\ q = b2
      /\ c.tone = "indexed" => p = a3 /\ q = b3
      /\ c.tone = "rgb" => p = a4 /\ q = b4
  BY <1>5, <1>6
<1> QED BY Zenon, <1>7, <1>9 DEF a1, a2, a3, a4, b1, b2, b3, b4

SetFg(z, c) == [z EXCEPT !.fg = c]
SetBg(z, c) == [z EXCEPT !.bg = c]

(* What a colour is, tone by tone. *)
LEMMA TonesAre ==
  ASSUME NEW c \in Colors
  PROVE  \/ c = NoColor
         \/ c.tone = "basic" /\ c.n \in 0 .. 7 /\ c = [tone |-> "basic", n |-> c.n]
         \/ c.tone = "bright" /\ c.n \in 0 .. 7 /\ c = [tone |-> "bright", n |-> c.n]
         \/ c.tone = "indexed" /\ c.n \in FiveDigits /\ c = [tone |-> "indexed", n |-> c.n]
         \/ /\ c.tone = "rgb" /\ c.r \in FiveDigits /\ c.g \in FiveDigits /\ c.b \in FiveDigits
            /\ c = [tone |-> "rgb", r |-> c.r, g |-> c.g, b |-> c.b]
<1> DEFINE O == 0 .. 255
<1>1. O \subseteq FiveDigits
  BY OctetFive
<1>2. c \in {NoColor} \cup [tone : {"basic", "bright"}, n : 0 .. 7] \cup [tone : {"indexed"}, n : O]
           \cup [tone : {"rgb"}, r : O, g : O, b : O]
  BY DEF Colors
<1> HIDE DEF O
<1>3. CASE c \in [tone : {"basic", "bright"}, n : 0 .. 7]
  BY <1>3
<1>4. CASE c \in [tone : {"indexed"}, n : O]
  BY <1>1, <1>4
<1>5. CASE c \in [tone : {"rgb"}, r : O, g : O, b : O]
  BY <1>1, <1>5
<1> QED BY <1>2, <1>3, <1>4, <1>5

(* One of the sixteen, as its number is read. *)
LEMMA SixteenOf ==
  ASSUME NEW z, NEW k \in 0 .. 7
  PROVE  /\ SixteenColors(z, 30 + k) = SetFg(z, [tone |-> "basic", n |-> k])
         /\ SixteenColors(z, 40 + k) = SetBg(z, [tone |-> "basic", n |-> k])
         /\ SixteenColors(z, 90 + k) = SetFg(z, [tone |-> "bright", n |-> k])
         /\ SixteenColors(z, 100 + k) = SetBg(z, [tone |-> "bright", n |-> k])
<1>1. /\ LastDigit(30 + k) = k /\ LastDigit(40 + k) = k /\ LastDigit(90 + k) = k
      /\ LastDigit(100 + k) = k
  BY DEF LastDigit
<1>2. /\ 30 + k \in (30 .. 37) \cup (90 .. 97) /\ 90 + k \in (30 .. 37) \cup (90 .. 97)
      /\ 40 + k \notin (30 .. 37) \cup (90 .. 97) /\ 100 + k \notin (30 .. 37) \cup (90 .. 97)
  OBVIOUS
<1>3. /\ Sixteen(30 + k) = [tone |-> "basic", n |-> k] /\ Sixteen(40 + k) = [tone |-> "basic", n |-> k]
      /\ Sixteen(90 + k) = [tone |-> "bright", n |-> k] /\ Sixteen(100 + k) = [tone |-> "bright", n |-> k]
  BY <1>1 DEF Sixteen
<1>4. SixteenColors(z, 30 + k) = SetFg(z, Sixteen(30 + k))
  BY <1>2, SixteenIs DEF SetFg
<1>5. SixteenColors(z, 40 + k) = SetBg(z, Sixteen(40 + k))
  BY <1>2, SixteenIs DEF SetBg
<1>6. SixteenColors(z, 90 + k) = SetFg(z, Sixteen(90 + k))
  BY <1>2, SixteenIs DEF SetFg
<1>7. SixteenColors(z, 100 + k) = SetBg(z, Sixteen(100 + k))
  BY <1>2, SixteenIs DEF SetBg
<1> QED BY <1>3, <1>4, <1>5, <1>6, <1>7

(* 38 and 48. *)
LEMMA ExtendedPrefixes ==
  /\ Numeral(<<"3", "8">>, 38) /\ IsExtended(<<"3", "8">>) /\ IsList(<<"3", "8">>)
  /\ Numeral(<<"4", "8">>, 48) /\ IsExtended(<<"4", "8">>) /\ IsList(<<"4", "8">>)
<1>1. \A a, b : IsList(<<a, b>>)
  BY Zenon, ListLiteral DEF Literals
<1>2. IsExtended(<<"3", "8">>) /\ IsExtended(<<"4", "8">>)
  BY DEF IsExtended
<1> QED BY <1>1, <1>2, NumeralsAre

(* The numbers of the sixteen colours are two digits or three. *)
LEMMA SixteenNumbers ==
  ASSUME NEW k \in 0 .. 7, NEW m \in {30, 40, 90, 100}
  PROVE  m + k \in FiveDigits /\ m + k >= 10 /\ m + k \notin {38, 48}
<1>1. m + k \in Nat /\ m + k <= 107 /\ m + k >= 10 /\ m + k \notin {38, 48}
  OBVIOUS
<1> QED BY <1>1 DEF FiveDigits

(* An indexed colour sets its side. *)
LEMMA IndexedSets ==
  ASSUME NEW z, NEW n
  PROVE  /\ Extended(z, <<38, 5, n>>) = SetFg(z, [tone |-> "indexed", n |-> n])
         /\ Extended(z, <<48, 5, n>>) = SetBg(z, [tone |-> "indexed", n |-> n])
<1> DEFINE c == [tone |-> "indexed", n |-> n]
           e == <<38, 5, n>>
           f == <<48, 5, n>>
<1>1. More(e) = c /\ More(f) = c
  BY Zenon, MoreIs
<1>2. e[1] = 38 /\ f[1] # 38
  OBVIOUS
<1> HIDE DEF c, e, f
<1>3. Extended(z, e) = SetFg(z, More(e))
  BY <1>2, ExtendedIs DEF SetFg
<1>4. Extended(z, f) = SetBg(z, More(f))
  BY <1>2, ExtendedIs DEF SetBg
<1> QED BY <1>1, <1>3, <1>4 DEF c, e, f

(* A true colour sets its side. *)
LEMMA RgbSets ==
  ASSUME NEW z, NEW r, NEW g, NEW b
  PROVE  /\ Extended(z, <<38, 2, r, g, b>>) = SetFg(z, [tone |-> "rgb", r |-> r, g |-> g, b |-> b])
         /\ Extended(z, <<48, 2, r, g, b>>) = SetBg(z, [tone |-> "rgb", r |-> r, g |-> g, b |-> b])
<1> DEFINE c == [tone |-> "rgb", r |-> r, g |-> g, b |-> b]
           e == <<38, 2, r, g, b>>
           f == <<48, 2, r, g, b>>
<1>1. More(e) = c /\ More(f) = c
  BY DEF More
<1>2. e[1] = 38 /\ f[1] # 38
  OBVIOUS
<1> HIDE DEF c, e, f
<1>3. Extended(z, e) = SetFg(z, More(e))
  BY <1>2, ExtendedIs DEF SetFg
<1>4. Extended(z, f) = SetBg(z, More(f))
  BY <1>2, ExtendedIs DEF SetBg
<1> QED BY <1>1, <1>3, <1>4 DEF c, e, f

(* A foreground. *)
LEMMA DrivesFg ==
  ASSUME NEW z \in Pens, NEW c \in Colors, c # NoColor
  PROVE  Drives(ParamBytes(c, "fg"), SgrAt(z), SgrAt(SetFg(z, c)))
<1> DEFINE p == ParamBytes(c, "fg")
           x == <<"3", "8">>
           k == 38
           s == <<Semicolon>>
<1>1. Numeral(x, k) /\ IsExtended(x) /\ IsList(x)
  BY ExtendedPrefixes
<1>2. CASE c.tone = "basic" /\ c.n \in 0 .. 7 /\ c = [tone |-> "basic", n |-> c.n]
  <2> DEFINE n == 30 + c.n
  <2>1. p = Itoa(n)
    BY <1>2, ColorIs
  <2>2. n \in FiveDigits /\ n >= 10 /\ n \notin {38, 48}
    BY <1>2, SixteenNumbers
  <2>3. SixteenColors(z, n) = SetFg(z, [tone |-> "basic", n |-> c.n])
    BY <1>2, SixteenOf
  <2> HIDE DEF p, n
  <2>4. Drives(Itoa(n), SgrAt(z), SgrAt(SixteenColors(z, n)))
    BY <2>2, DrivesSixteen
  <2> QED BY <1>2, <2>1, <2>3, <2>4 DEF p
<1>3. CASE c.tone = "bright" /\ c.n \in 0 .. 7 /\ c = [tone |-> "bright", n |-> c.n]
  <2> DEFINE n == 90 + c.n
  <2>1. p = Itoa(n)
    BY <1>3, ColorIs
  <2>2. n \in FiveDigits /\ n >= 10 /\ n \notin {38, 48}
    BY <1>3, SixteenNumbers
  <2>3. SixteenColors(z, n) = SetFg(z, [tone |-> "bright", n |-> c.n])
    BY <1>3, SixteenOf
  <2> HIDE DEF p, n
  <2>4. Drives(Itoa(n), SgrAt(z), SgrAt(SixteenColors(z, n)))
    BY <2>2, DrivesSixteen
  <2> QED BY <1>3, <2>1, <2>3, <2>4 DEF p
<1>4. CASE c.tone = "indexed" /\ c.n \in FiveDigits /\ c = [tone |-> "indexed", n |-> c.n]
  <2> DEFINE y == Prefixed(x, "5")
             n == c.n
             w == Itoa(n)
             q == (((x \o s) \o <<"5">>) \o s) \o w
             e == <<k, 5, n>>
  <2>1. p = y \o w
    BY <1>4, ColorIs
  <2>2. y = ((x \o s) \o <<"5">>) \o s
    <3> HIDE DEF x
    <3> QED BY <1>1, PrefixedIs
  <2>3. Drives(q, SgrAt(z), SgrAt(Extended(z, e)))
    <3>1. n \in FiveDigits
      BY <1>4
    <3> HIDE DEF x, k, n
    <3> QED BY <1>1, <3>1, DrivesIndexed
  <2>4. Extended(z, e) = SetFg(z, c)
    <3> HIDE DEF n
    <3>1. Extended(z, e) = SetFg(z, [tone |-> "indexed", n |-> n])
      BY Zenon, IndexedSets
    <3> QED BY <1>4, <3>1 DEF n
  <2> HIDE DEF x, k, n, y, w, e, s, p
  <2> QED BY Zenon, <2>1, <2>2, <2>3, <2>4 DEF p
<1>5. CASE /\ c.tone = "rgb" /\ c.r \in FiveDigits /\ c.g \in FiveDigits /\ c.b \in FiveDigits
           /\ c = [tone |-> "rgb", r |-> c.r, g |-> c.g, b |-> c.b]
  <2> DEFINE y == Prefixed(x, "2")
             r == c.r
             g == c.g
             b == c.b
             xr == Itoa(r)
             xg == Itoa(g)
             xb == Itoa(b)
             w == ((x \o s) \o <<"2">>) \o s
             q == ((((w \o xr) \o s) \o xg) \o s) \o xb
             e == <<k, 2, r, g, b>>
  <2>1. p = ((((y \o xr) \o s) \o xg) \o s) \o xb
    BY Zenon, <1>5, ColorIs
  <2>2. y = w
    <3> HIDE DEF x
    <3> QED BY <1>1, PrefixedIs
  <2>3. Drives(q, SgrAt(z), SgrAt(Extended(z, e)))
    <3>1. r \in FiveDigits /\ g \in FiveDigits /\ b \in FiveDigits
      BY <1>5
    <3> HIDE DEF x, k, r, g, b
    <3> QED BY <1>1, <3>1, DrivesRgb
  <2>4. Extended(z, e) = SetFg(z, c)
    <3> HIDE DEF r, g, b
    <3>1. Extended(z, e) = SetFg(z, [tone |-> "rgb", r |-> r, g |-> g, b |-> b])
      BY Zenon, RgbSets
    <3> QED BY <1>5, <3>1 DEF r, g, b
  <2> HIDE DEF x, k, r, g, b, xr, xg, xb, y, w, e, s, p
  <2> QED BY Zenon, <2>1, <2>2, <2>3, <2>4 DEF p
<1> QED BY <1>2, <1>3, <1>4, <1>5, TonesAre

(* A background. *)
LEMMA DrivesBg ==
  ASSUME NEW z \in Pens, NEW c \in Colors, c # NoColor
  PROVE  Drives(ParamBytes(c, "bg"), SgrAt(z), SgrAt(SetBg(z, c)))
<1> DEFINE p == ParamBytes(c, "bg")
           x == <<"4", "8">>
           k == 48
           s == <<Semicolon>>
<1>1. Numeral(x, k) /\ IsExtended(x) /\ IsList(x)
  BY ExtendedPrefixes
<1>2. CASE c.tone = "basic" /\ c.n \in 0 .. 7 /\ c = [tone |-> "basic", n |-> c.n]
  <2> DEFINE n == 40 + c.n
  <2>1. p = Itoa(n)
    BY <1>2, ColorIs
  <2>2. n \in FiveDigits /\ n >= 10 /\ n \notin {38, 48}
    BY <1>2, SixteenNumbers
  <2>3. SixteenColors(z, n) = SetBg(z, [tone |-> "basic", n |-> c.n])
    BY <1>2, SixteenOf
  <2> HIDE DEF p, n
  <2>4. Drives(Itoa(n), SgrAt(z), SgrAt(SixteenColors(z, n)))
    BY <2>2, DrivesSixteen
  <2> QED BY <1>2, <2>1, <2>3, <2>4 DEF p
<1>3. CASE c.tone = "bright" /\ c.n \in 0 .. 7 /\ c = [tone |-> "bright", n |-> c.n]
  <2> DEFINE n == 100 + c.n
  <2>1. p = Itoa(n)
    BY <1>3, ColorIs
  <2>2. n \in FiveDigits /\ n >= 10 /\ n \notin {38, 48}
    BY <1>3, SixteenNumbers
  <2>3. SixteenColors(z, n) = SetBg(z, [tone |-> "bright", n |-> c.n])
    BY <1>3, SixteenOf
  <2> HIDE DEF p, n
  <2>4. Drives(Itoa(n), SgrAt(z), SgrAt(SixteenColors(z, n)))
    BY <2>2, DrivesSixteen
  <2> QED BY <1>3, <2>1, <2>3, <2>4 DEF p
<1>4. CASE c.tone = "indexed" /\ c.n \in FiveDigits /\ c = [tone |-> "indexed", n |-> c.n]
  <2> DEFINE y == Prefixed(x, "5")
             n == c.n
             w == Itoa(n)
             q == (((x \o s) \o <<"5">>) \o s) \o w
             e == <<k, 5, n>>
  <2>1. p = y \o w
    BY <1>4, ColorIs
  <2>2. y = ((x \o s) \o <<"5">>) \o s
    <3> HIDE DEF x
    <3> QED BY <1>1, PrefixedIs
  <2>3. Drives(q, SgrAt(z), SgrAt(Extended(z, e)))
    <3>1. n \in FiveDigits
      BY <1>4
    <3> HIDE DEF x, k, n
    <3> QED BY <1>1, <3>1, DrivesIndexed
  <2>4. Extended(z, e) = SetBg(z, c)
    <3> HIDE DEF n
    <3>1. Extended(z, e) = SetBg(z, [tone |-> "indexed", n |-> n])
      BY Zenon, IndexedSets
    <3> QED BY <1>4, <3>1 DEF n
  <2> HIDE DEF x, k, n, y, w, e, s, p
  <2> QED BY Zenon, <2>1, <2>2, <2>3, <2>4 DEF p
<1>5. CASE /\ c.tone = "rgb" /\ c.r \in FiveDigits /\ c.g \in FiveDigits /\ c.b \in FiveDigits
           /\ c = [tone |-> "rgb", r |-> c.r, g |-> c.g, b |-> c.b]
  <2> DEFINE y == Prefixed(x, "2")
             r == c.r
             g == c.g
             b == c.b
             xr == Itoa(r)
             xg == Itoa(g)
             xb == Itoa(b)
             w == ((x \o s) \o <<"2">>) \o s
             q == ((((w \o xr) \o s) \o xg) \o s) \o xb
             e == <<k, 2, r, g, b>>
  <2>1. p = ((((y \o xr) \o s) \o xg) \o s) \o xb
    BY Zenon, <1>5, ColorIs
  <2>2. y = w
    <3> HIDE DEF x
    <3> QED BY <1>1, PrefixedIs
  <2>3. Drives(q, SgrAt(z), SgrAt(Extended(z, e)))
    <3>1. r \in FiveDigits /\ g \in FiveDigits /\ b \in FiveDigits
      BY <1>5
    <3> HIDE DEF x, k, r, g, b
    <3> QED BY <1>1, <3>1, DrivesRgb
  <2>4. Extended(z, e) = SetBg(z, c)
    <3> HIDE DEF r, g, b
    <3>1. Extended(z, e) = SetBg(z, [tone |-> "rgb", r |-> r, g |-> g, b |-> b])
      BY Zenon, RgbSets
    <3> QED BY <1>5, <3>1 DEF r, g, b
  <2> HIDE DEF x, k, r, g, b, xr, xg, xb, y, w, e, s, p
  <2> QED BY Zenon, <2>1, <2>2, <2>3, <2>4 DEF p
<1> QED BY <1>2, <1>3, <1>4, <1>5, TonesAre

-----------------------------------------------------------------------------
(* Attributes and underlines.                                               *)

FiveAttributes == {"bold", "dim", "italic", "reverse", "strikethrough"}
WithAttributes(z, x) == [z EXCEPT !.attrs = z.attrs \cup x]
WithUnderline(z, u)  == [z EXCEPT !.underline = u]

(* The number of an attribute names it. *)
LEMMA AttributesRead ==
  ASSUME NEW a, a \in FiveAttributes
  PROVE  /\ AttributeCode[a] \in DOMAIN ShortAttribute /\ AttributeCode[a] \in Digits
         /\ ShortAttribute[AttributeCode[a]] = a /\ ParamBytes(a, "attribute") = <<AttributeCode[a]>>
<1>1. \/ a = "bold" /\ AttributeCode[a] = "1"
      \/ a = "dim" /\ AttributeCode[a] = "2"
      \/ a = "italic" /\ AttributeCode[a] = "3"
      \/ a = "reverse" /\ AttributeCode[a] = "7"
      \/ a = "strikethrough" /\ AttributeCode[a] = "9"
  BY DEF FiveAttributes, AttributeCode
<1>2. /\ ShortAttribute["1"] = "bold" /\ ShortAttribute["2"] = "dim" /\ ShortAttribute["3"] = "italic"
      /\ ShortAttribute["7"] = "reverse" /\ ShortAttribute["9"] = "strikethrough"
  BY DEF ShortAttribute
<1>3. DOMAIN ShortAttribute = {"1", "2", "3", "7", "9"}
  BY DEF ShortAttribute
<1>4. {"1", "2", "3", "7", "9"} \subseteq Digits
  BY Zenon, ByteClasses
<1>5. ParamBytes(a, "attribute") = <<AttributeCode[a]>>
  BY DEF ParamBytes
<1> QED BY <1>1, <1>2, <1>3, <1>4, <1>5

(* An attribute. *)
LEMMA DrivesAttribute ==
  ASSUME NEW z \in Pens, NEW a, a \in FiveAttributes
  PROVE  Drives(ParamBytes(a, "attribute"), SgrAt(z), SgrAt(WithAttributes(z, {a})))
<1> DEFINE d == AttributeCode[a]
           p == <<d>>
           s == SgrAt(z)
           s2 == SgrAt(WithAttributes(z, {a}))
<1>1. d \in DOMAIN ShortAttribute /\ d \in Digits /\ ShortAttribute[d] = a /\ ParamBytes(a, "attribute") = p
  BY AttributesRead
<1> HIDE DEF d
<1>2. IsAttribute(p) /\ p[1] = d
  BY <1>1 DEF IsAttribute
<1>3. ListOf(p, OneParam) /\ p # <<>>
  BY <1>1 DEF ListOf, OneParam
<1> HIDE DEF p
<1>4. ParamRead(s, p)
  BY SgrParamIs
<1>5. s.taken = <<>> /\ s \in SgrState
  BY SgrStepType DEF SgrAt
<1>6. [s EXCEPT !.style.attrs = @ \cup {a}] = s2
  <2>1. [s EXCEPT !.style.attrs = @ \cup {a}] = [s EXCEPT !.style = [z EXCEPT !.attrs = z.attrs \cup {a}]]
    <3>1. s.style = z
      BY DEF SgrAt
    <3> HIDE DEF s
    <3> QED BY <3>1
  <2>2. \A y : [s EXCEPT !.style = y] = SgrAt(y)
    BY DEF SgrAt
  <2> QED BY <2>1, <2>2 DEF WithAttributes
<1> HIDE DEF s, s2
<1>7. SgrParam(s, p) = s2
  BY Zenon, <1>1, <1>2, <1>4, <1>5, <1>6 DEF ParamRead
<1>8. Drives(p, s, s2)
  BY <1>3, <1>5, <1>7, DrivesOne
<1> QED BY <1>1, <1>8 DEF s, s2

(* The parameter of an underline names it. *)
LEMMA UnderlinesRead ==
  ASSUME NEW u, u \in DOMAIN UnderlineParam, u # "none"
  PROVE  /\ IsUnderline(UnderlineParam[u]) /\ UnderlineOf(UnderlineParam[u]) = u
         /\ ListOf(UnderlineParam[u], OneParam) /\ UnderlineParam[u] # <<>>
         /\ ParamBytes(u, "underline") = UnderlineParam[u]
<1>1. \/ u = "single" /\ UnderlineParam[u] = <<"4">>
      \/ u = "double" /\ UnderlineParam[u] = <<"4", ":", "2">>
      \/ u = "curly" /\ UnderlineParam[u] = <<"4", ":", "3">>
      \/ u = "dotted" /\ UnderlineParam[u] = <<"4", ":", "4">>
      \/ u = "dashed" /\ UnderlineParam[u] = <<"4", ":", "5">>
  BY DEF UnderlineParam
<1>2. {"2", "3", "4", "5", ":"} \subseteq OneParam
  BY Zenon, ByteClasses DEF OneParam
<1>3. \A x \in OneParam : ListOf(<<x>>, OneParam) /\ <<x>> # <<>>
  BY DEF ListOf
<1>4. \A x \in OneParam, y \in OneParam, w \in OneParam :
        ListOf(<<x, y, w>>, OneParam) /\ <<x, y, w>> # <<>>
  BY DEF ListOf
<1>5. ListOf(UnderlineParam[u], OneParam) /\ UnderlineParam[u] # <<>>
  BY Zenon, <1>1, <1>2, <1>3, <1>4
<1>6. IsUnderline(UnderlineParam[u])
  BY <1>1 DEF IsUnderline
<1>7. \A x, y, w : <<x>> # <<x, y, w>>
  <2> SUFFICES ASSUME NEW x, NEW y, NEW w PROVE <<x>> # <<x, y, w>>
    OBVIOUS
  <2>1. Len(<<x>>) = 1 /\ Len(<<x, y, w>>) = 3
    OBVIOUS
  <2> QED BY <2>1
<1>8. \A x, y, v, w : v # w => <<x, y, v>> # <<x, y, w>>
  OBVIOUS
<1>9. UnderlineOf(UnderlineParam[u]) = u
  BY <1>1, <1>7, <1>8 DEF UnderlineOf
<1>10. ParamBytes(u, "underline") = UnderlineParam[u]
  BY DEF ParamBytes
<1> QED BY <1>5, <1>6, <1>9, <1>10

(* An underline. *)
LEMMA DrivesUnderline ==
  ASSUME NEW z \in Pens, NEW u, u \in DOMAIN UnderlineParam, u # "none"
  PROVE  Drives(ParamBytes(u, "underline"), SgrAt(z), SgrAt(WithUnderline(z, u)))
<1> DEFINE p == UnderlineParam[u]
           s == SgrAt(z)
           s2 == SgrAt(WithUnderline(z, u))
<1>1. /\ IsUnderline(p) /\ UnderlineOf(p) = u /\ ListOf(p, OneParam) /\ p # <<>>
      /\ ParamBytes(u, "underline") = p
  BY UnderlinesRead
<1> HIDE DEF p
<1>4. ParamRead(s, p)
  BY SgrParamIs
<1>5. s.taken = <<>> /\ s \in SgrState
  BY SgrStepType DEF SgrAt
<1>6. [s EXCEPT !.style.underline = u] = s2
  <2>1. \A x : [[style |-> z, taken |-> <<>>] EXCEPT !.style.underline = x]
                 = [style |-> [z EXCEPT !.underline = x], taken |-> <<>>]
    OBVIOUS
  <2> QED BY <2>1 DEF SgrAt, WithUnderline
<1> HIDE DEF s, s2
<1>7. SgrParam(s, p) = s2
  BY <1>1, <1>4, <1>5, <1>6 DEF ParamRead
<1>8. Drives(p, s, s2)
  BY <1>1, <1>5, <1>7, DrivesOne
<1> QED BY <1>1, <1>8 DEF s, s2

-----------------------------------------------------------------------------
(* The parts of a style.                                                    *)

(* No part or one, and the pen before and after it. *)
PartDraws(q, z, z2) ==
  /\ z \in Pens /\ z2 \in Pens
  /\ (q = <<>> /\ z2 = z) \/ \E x : q = <<x>> /\ Drives(x, SgrAt(z), SgrAt(z2))

(* The same for the parts so far, joined. *)
Penned(p, z, z2) ==
  /\ z \in Pens /\ z2 \in Pens /\ ListOf(p, Seq(SgrAlphabet))
  /\ \/ p = <<>> /\ z2 = z
     \/ p # <<>> /\ Drives(Join(p, Semicolon), SgrAt(z), SgrAt(z2))

(* No parameters leave the pen as it is. *)
LEMMA PennedNone == \A z \in Pens : Penned(<<>>, z, z)
<1>1. ListOf(<<>>, Seq(SgrAlphabet))
  BY DEF ListOf
<1> QED BY <1>1 DEF Penned

(* One part more. *)
LEMMA PennedOne ==
  ASSUME NEW p, NEW z, NEW z1, NEW z2, Penned(p, z, z1), NEW x, z2 \in Pens,
         Drives(x, SgrAt(z1), SgrAt(z2))
  PROVE  Penned(Append(p, x), z, z2)
<1> DEFINE A == SgrAlphabet
           sep == Semicolon
           y == Join(p, sep)
           q == Append(p, x)
<1>1. ListOf(p, Seq(A)) /\ x \in Seq(A) /\ sep \in A
  BY ParamBytesAre DEF Penned, Drives, ListOf
<1>2. ListOf(q, Seq(A)) /\ q # <<>>
  <2> DEFINE L == Seq(A)
  <2>1. ListOf(p, L) /\ x \in L
    BY <1>1
  <2> HIDE DEF L
  <2>2. ListOf(Append(p, x), L) /\ Append(p, x) # <<>>
    BY Zenon, <2>1, AppendIs
  <2> QED BY <2>2 DEF L
<1>3. Join(Append(p, x), sep) = IF y = <<>> THEN x ELSE y \o <<sep>> \o x
  <2>1. p \in Seq(Seq(A)) /\ x \in Seq(A) /\ sep \in A
    BY <1>1 DEF ListOf
  <2> HIDE DEF A, sep
  <2> QED BY Zenon, <2>1, JoinAppend
<1>4. CASE p = <<>>
  <2>1. y = <<>>
    BY <1>4, JoinEmpty
  <2>2. z1 = z
    BY <1>4 DEF Penned
  <2>3. Join(q, sep) = x
    BY <1>3, <2>1
  <2>4. Join(q, Semicolon) = x /\ ListOf(q, Seq(SgrAlphabet)) /\ q # <<>> /\ z \in Pens
    BY <1>2, <2>3 DEF Penned
  <2> HIDE DEF q
  <2>5. Penned(q, z, z2)
    BY <2>2, <2>4 DEF Penned
  <2> QED BY <2>5 DEF q
<1>5. CASE p # <<>>
  <2>1. Drives(y, SgrAt(z), SgrAt(z1)) /\ z \in Pens
    BY <1>5 DEF Penned
  <2>2. y # <<>>
    <3>1. Len(y) >= 1
      BY <2>1 DEF Drives
    <3>2. Len(<<>>) = 0
      OBVIOUS
    <3> HIDE DEF y
    <3> QED BY <3>1, <3>2
  <2>3. Join(q, sep) = (y \o <<sep>>) \o x
    BY <1>3, <2>2
  <2> HIDE DEF q, y
  <2> DEFINE a == SgrAt(z)
             b == SgrAt(z1)
             c == SgrAt(z2)
  <2>5. Drives(y, a, b) /\ Drives(x, b, c)
    BY <2>1
  <2> HIDE DEF a, b, c
  <2>6. Drives((y \o <<Semicolon>>) \o x, a, c)
    BY <2>5, DrivesCat
  <2>4. Drives((y \o <<sep>>) \o x, SgrAt(z), SgrAt(z2))
    BY <2>6 DEF a, c
  <2> HIDE DEF sep
  <2>7. ListOf(q, Seq(SgrAlphabet)) /\ Drives(Join(q, sep), SgrAt(z), SgrAt(z2))
    BY <1>2, <2>3, <2>4
  <2>8. Penned(q, z, z2)
    BY <1>2, <2>1, <2>7 DEF Penned, sep
  <2> QED BY <2>8 DEF q
<1> QED BY <1>4, <1>5

(* A part after parameters. *)
LEMMA PennedCat ==
  ASSUME NEW p, NEW q, NEW z, NEW z1, NEW z2, Penned(p, z, z1), PartDraws(q, z1, z2)
  PROVE  Penned(p \o q, z, z2)
<1>1. ListOf(p, Seq(SgrAlphabet)) /\ z2 \in Pens
  BY DEF Penned, PartDraws
<1>2. CASE q = <<>> /\ z2 = z1
  <2>1. p \o q = p
    BY <1>1, <1>2, ConcatEmptySeq DEF ListOf
  <2> QED BY <1>2, <2>1
<1>3. CASE \E x : q = <<x>> /\ Drives(x, SgrAt(z1), SgrAt(z2))
  <2>1. PICK x : q = <<x>> /\ Drives(x, SgrAt(z1), SgrAt(z2))
    BY <1>3
  <2>2. Penned(Append(p, x), z, z2)
    BY <1>1, <2>1, PennedOne
  <2>3. Append(p, x) = p \o <<x>>
    <3> DEFINE L == Seq(SgrAlphabet)
    <3>1. ListOf(p, L) /\ x \in L
      BY <1>1, <2>1 DEF Drives, ListOf
    <3> HIDE DEF L
    <3> QED BY <3>1, AppendIs
  <2> QED BY <2>1, <2>2, <2>3
<1> QED BY <1>2, <1>3 DEF PartDraws

(* A part by itself. *)
LEMMA PennedFirst ==
  ASSUME NEW q, NEW z, NEW z2, PartDraws(q, z, z2)
  PROVE  Penned(q, z, z2)
<1>1. z \in Pens /\ z2 \in Pens
  BY DEF PartDraws
<1>2. CASE q = <<>> /\ z2 = z
  BY <1>1, <1>2, PennedNone
<1>3. CASE \E x : q = <<x>> /\ Drives(x, SgrAt(z), SgrAt(z2))
  <2>1. PICK x : q = <<x>> /\ Drives(x, SgrAt(z), SgrAt(z2))
    BY <1>3
  <2> DEFINE n == <<>>
  <2>2. Penned(n, z, z) /\ Append(n, x) = <<x>>
    BY <1>1, PennedNone
  <2> HIDE DEF n
  <2>3. Penned(Append(n, x), z, z2)
    BY Zenon, <1>1, <2>1, <2>2, PennedOne
  <2> QED BY <2>1, <2>2, <2>3
<1> QED BY <1>2, <1>3 DEF PartDraws

(* Eight parts, one after another. *)
Eight(a, b, c, d, e, f, g, h) == a \o b \o c \o d \o e \o f \o g \o h

(* The eight parts of a style in turn. *)
LEMMA PennedEight ==
  ASSUME NEW a, NEW b, NEW c, NEW d, NEW e, NEW f, NEW g, NEW h,
         NEW z0, NEW z1, NEW z2, NEW z3, NEW z4, NEW z5, NEW z6, NEW z7, NEW z8,
         PartDraws(a, z0, z1), PartDraws(b, z1, z2), PartDraws(c, z2, z3), PartDraws(d, z3, z4),
         PartDraws(e, z4, z5), PartDraws(f, z5, z6), PartDraws(g, z6, z7), PartDraws(h, z7, z8)
  PROVE  Penned(Eight(a, b, c, d, e, f, g, h), z0, z8)
<1> DEFINE p2 == a \o b
           p3 == p2 \o c
           p4 == p3 \o d
           p5 == p4 \o e
           p6 == p5 \o f
           p7 == p6 \o g
           p8 == p7 \o h
<1>1. Penned(a, z0, z1)
  BY PennedFirst
<1>2. Penned(p2, z0, z2)
  BY <1>1, PennedCat
<1> HIDE DEF p2
<1>3. Penned(p3, z0, z3)
  BY <1>2, PennedCat
<1> HIDE DEF p3
<1>4. Penned(p4, z0, z4)
  BY <1>3, PennedCat
<1> HIDE DEF p4
<1>5. Penned(p5, z0, z5)
  BY <1>4, PennedCat
<1> HIDE DEF p5
<1>6. Penned(p6, z0, z6)
  BY <1>5, PennedCat
<1> HIDE DEF p6
<1>7. Penned(p7, z0, z7)
  BY <1>6, PennedCat
<1> HIDE DEF p7
<1>8. Penned(p8, z0, z8)
  BY <1>7, PennedCat
<1> QED BY <1>8 DEF Eight, p8, p7, p6, p5, p4, p3, p2

(* The pen of a state is a pen. *)
LEMMA PenOf == \A z : SgrAt(z) \in SgrState => z \in Pens
BY DEF SgrAt, SgrState

(* A pen, field by field. *)
LEMMA PenIs ==
  /\ \A z \in Pens : z = Style(z.attrs, z.underline, z.fg, z.bg)
  /\ \A a, u, f, b, x : WithAttributes(Style(a, u, f, b), x) = Style(a \cup x, u, f, b)
  /\ \A a, u, f, b, x : WithUnderline(Style(a, u, f, b), x) = Style(a, x, f, b)
  /\ \A a, u, f, b, x : SetFg(Style(a, u, f, b), x) = Style(a, u, x, b)
  /\ \A a, u, f, b, x : SetBg(Style(a, u, f, b), x) = Style(a, u, f, x)
<1>1. \A z \in Pens : z = Style(z.attrs, z.underline, z.fg, z.bg)
  <2> HIDE DEF Tones, Underlines, AttributeNames
  <2> QED BY DEF Pens, Style
<1>2. \A a, u, f, b, x : WithAttributes(Style(a, u, f, b), x) = Style(a \cup x, u, f, b)
  BY DEF WithAttributes, Style
<1>3. \A a, u, f, b, x : WithUnderline(Style(a, u, f, b), x) = Style(a, x, f, b)
  BY DEF WithUnderline, Style
<1>4. \A a, u, f, b, x : SetFg(Style(a, u, f, b), x) = Style(a, u, x, b)
  BY DEF SetFg, Style
<1>5. \A a, u, f, b, x : SetBg(Style(a, u, f, b), x) = Style(a, u, f, x)
  BY DEF SetBg, Style
<1> QED BY <1>1, <1>2, <1>3, <1>4, <1>5

(* The part of an attribute adds it if the style has it. *)
LEMMA AttributeDraws ==
  ASSUME NEW st, NEW z \in Pens, NEW a, a \in FiveAttributes
  PROVE  PartDraws(AttributePart(st, a), z, WithAttributes(z, st.attrs \cap {a}))
<1>1. CASE a \in st.attrs
  <2>1. st.attrs \cap {a} = {a}
    BY <1>1
  <2>2. Drives(ParamBytes(a, "attribute"), SgrAt(z), SgrAt(WithAttributes(z, {a})))
    BY DrivesAttribute
  <2>3. WithAttributes(z, {a}) \in Pens
    BY <2>2, PenOf DEF Drives
  <2>4. AttributePart(st, a) = <<ParamBytes(a, "attribute")>>
    BY <1>1 DEF AttributePart
  <2> QED BY <2>1, <2>2, <2>3, <2>4 DEF PartDraws
<1>2. CASE a \notin st.attrs
  <2>1. st.attrs \cap {a} = {}
    BY <1>2
  <2>2. WithAttributes(z, {}) = z
    <3>1. z = Style(z.attrs, z.underline, z.fg, z.bg) /\ z.attrs \cup {} = z.attrs
      BY PenIs
    <3>2. WithAttributes(Style(z.attrs, z.underline, z.fg, z.bg), {})
            = Style(z.attrs \cup {}, z.underline, z.fg, z.bg)
      BY PenIs
    <3> QED BY <3>1, <3>2
  <2>3. AttributePart(st, a) = <<>>
    BY <1>2 DEF AttributePart
  <2> QED BY <2>1, <2>2, <2>3 DEF PartDraws
<1> QED BY <1>1, <1>2

UnderlineAfter(st, z) == IF st.underline = "none" THEN z.underline ELSE st.underline

(* The part of the underline sets it if the style has one. *)
LEMMA UnderlineDraws ==
  ASSUME NEW st, st.underline \in DOMAIN UnderlineParam, NEW z \in Pens
  PROVE  PartDraws(UnderlinePart(st), z, WithUnderline(z, UnderlineAfter(st, z)))
<1> DEFINE u == st.underline
<1>1. CASE u = "none"
  <2>1. WithUnderline(z, z.underline) = z
    BY PenIs
  <2>2. UnderlinePart(st) = <<>> /\ UnderlineAfter(st, z) = z.underline
    BY <1>1 DEF UnderlinePart, UnderlineAfter
  <2> QED BY <2>1, <2>2 DEF PartDraws
<1>2. CASE u # "none"
  <2>1. Drives(ParamBytes(u, "underline"), SgrAt(z), SgrAt(WithUnderline(z, u)))
    <3>1. u \in DOMAIN UnderlineParam
      OBVIOUS
    <3> HIDE DEF u
    <3> QED BY <1>2, <3>1, DrivesUnderline
  <2>2. WithUnderline(z, u) \in Pens
    BY <2>1, PenOf DEF Drives
  <2>3. UnderlinePart(st) = <<ParamBytes(u, "underline")>> /\ UnderlineAfter(st, z) = u
    BY <1>2 DEF UnderlinePart, UnderlineAfter
  <2> QED BY <2>1, <2>2, <2>3 DEF PartDraws
<1> QED BY <1>1, <1>2

ColorAfter(new, old) == IF new = NoColor THEN old ELSE new

(* The part of a colour sets it if the style has one. *)
LEMMA ColorDraws ==
  ASSUME NEW c \in Colors, NEW z \in Pens
  PROVE  /\ PartDraws(ColorPart(c, "fg"), z, SetFg(z, ColorAfter(c, z.fg)))
         /\ PartDraws(ColorPart(c, "bg"), z, SetBg(z, ColorAfter(c, z.bg)))
<1>1. CASE c = NoColor
  <2>1. SetFg(z, z.fg) = z /\ SetBg(z, z.bg) = z
    BY PenIs
  <2>2. ColorPart(c, "fg") = <<>> /\ ColorPart(c, "bg") = <<>>
    BY <1>1 DEF ColorPart
  <2>3. ColorAfter(c, z.fg) = z.fg /\ ColorAfter(c, z.bg) = z.bg
    BY <1>1 DEF ColorAfter
  <2> QED BY <2>1, <2>2, <2>3 DEF PartDraws
<1>2. CASE c # NoColor
  <2>1. Drives(ParamBytes(c, "fg"), SgrAt(z), SgrAt(SetFg(z, c)))
    BY <1>2, DrivesFg
  <2>2. Drives(ParamBytes(c, "bg"), SgrAt(z), SgrAt(SetBg(z, c)))
    BY <1>2, DrivesBg
  <2>3. SetFg(z, c) \in Pens /\ SetBg(z, c) \in Pens
    BY <2>1, <2>2, PenOf DEF Drives
  <2>4. ColorPart(c, "fg") = <<ParamBytes(c, "fg")>> /\ ColorPart(c, "bg") = <<ParamBytes(c, "bg")>>
    BY <1>2 DEF ColorPart
  <2>5. ColorAfter(c, z.fg) = c /\ ColorAfter(c, z.bg) = c
    BY <1>2 DEF ColorAfter
  <2>6. PartDraws(<<ParamBytes(c, "fg")>>, z, SetFg(z, c))
    BY <2>1, <2>3 DEF PartDraws
  <2>7. PartDraws(<<ParamBytes(c, "bg")>>, z, SetBg(z, c))
    BY <2>2, <2>3 DEF PartDraws
  <2> QED BY <2>4, <2>5, <2>6, <2>7
<1> QED BY <1>1, <1>2

(* What a style makes of a pen. *)
Restyled(st, z) ==
  Style(z.attrs \cup st.attrs, UnderlineAfter(st, z), ColorAfter(st.fg, z.fg), ColorAfter(st.bg, z.bg))

(* The parameters of a style, read in turn, restyle the pen. *)
LEMMA StylePenned ==
  ASSUME NEW st \in Styles, NEW z \in Pens
  PROVE  Penned(StyleParams(st, ParamBytes), z, Restyled(st, z))
<1> DEFINE x1 == st.attrs \cap {"bold"}
           x2 == st.attrs \cap {"dim"}
           x3 == st.attrs \cap {"italic"}
           x5 == st.attrs \cap {"reverse"}
           x6 == st.attrs \cap {"strikethrough"}
           u == UnderlineAfter(st, z)
           fg == ColorAfter(st.fg, z.fg)
           bg == ColorAfter(st.bg, z.bg)
           a3 == ((z.attrs \cup x1) \cup x2) \cup x3
           a6 == (a3 \cup x5) \cup x6
           z1 == Style(z.attrs \cup x1, z.underline, z.fg, z.bg)
           z2 == Style((z.attrs \cup x1) \cup x2, z.underline, z.fg, z.bg)
           z3 == Style(a3, z.underline, z.fg, z.bg)
           z4 == Style(a3, u, z.fg, z.bg)
           z5 == Style(a3 \cup x5, u, z.fg, z.bg)
           z6 == Style(a6, u, z.fg, z.bg)
           z7 == Style(a6, u, fg, z.bg)
           z8 == Style(a6, u, fg, bg)
<1>1. /\ z = Style(z.attrs, z.underline, z.fg, z.bg)
      /\ WithAttributes(z, x1) = z1 /\ WithAttributes(z1, x2) = z2 /\ WithAttributes(z2, x3) = z3
  BY PenIs
<1>2. /\ WithUnderline(z3, u) = z4 /\ WithAttributes(z4, x5) = z5 /\ WithAttributes(z5, x6) = z6
      /\ SetFg(z6, fg) = z7 /\ SetBg(z7, bg) = z8
  BY PenIs
<1>3. /\ z3.underline = z.underline /\ z6.fg = z.fg /\ z7.bg = z.bg
  BY DEF Style
<1>4. UnderlineAfter(st, z3) = u /\ ColorAfter(st.fg, z6.fg) = fg /\ ColorAfter(st.bg, z7.bg) = bg
  BY <1>3 DEF UnderlineAfter
<1>5. st.underline \in DOMAIN UnderlineParam /\ st.fg \in Colors /\ st.bg \in Colors
  BY DEF Styles
<1>6. \A a \in FiveAttributes, y \in Pens : PartDraws(AttributePart(st, a), y, WithAttributes(y, st.attrs \cap {a}))
  BY AttributeDraws
<1>7. {"bold", "dim", "italic", "reverse", "strikethrough"} \subseteq FiveAttributes
  BY DEF FiveAttributes
<1> DEFINE p1 == AttributePart(st, "bold")
           p2 == AttributePart(st, "dim")
           p3 == AttributePart(st, "italic")
           p4 == UnderlinePart(st)
           p5 == AttributePart(st, "reverse")
           p6 == AttributePart(st, "strikethrough")
           p7 == ColorPart(st.fg, "fg")
           p8 == ColorPart(st.bg, "bg")
<1>8. \A y \in Pens : /\ PartDraws(p1, y, WithAttributes(y, x1)) /\ PartDraws(p2, y, WithAttributes(y, x2))
                      /\ PartDraws(p3, y, WithAttributes(y, x3)) /\ PartDraws(p5, y, WithAttributes(y, x5))
                      /\ PartDraws(p6, y, WithAttributes(y, x6))
  BY <1>6, <1>7
<1>9. \A y \in Pens : PartDraws(p4, y, WithUnderline(y, UnderlineAfter(st, y)))
  BY <1>5, UnderlineDraws
<1>10. \A y \in Pens : /\ PartDraws(p7, y, SetFg(y, ColorAfter(st.fg, y.fg)))
                       /\ PartDraws(p8, y, SetBg(y, ColorAfter(st.bg, y.bg)))
  BY <1>5, ColorDraws
<1>11. StyleParams(st, ParamBytes) = Eight(p1, p2, p3, p4, p5, p6, p7, p8)
  BY Zenon, StyleSplit DEF PartsBefore, Eight
<1>12. a6 = z.attrs \cup st.attrs
  BY DEF Styles, Attributes, ToSet
<1>13. z8 = Restyled(st, z)
  BY <1>12 DEF Restyled
<1>14. \A q, y, w : PartDraws(q, y, w) => w \in Pens
  BY DEF PartDraws
<1> HIDE DEF x1, x2, x3, x5, x6, u, fg, bg, a3, a6, z1, z2, z3, z4, z5, z6, z7, z8,
             p1, p2, p3, p4, p5, p6, p7, p8
<1>21. PartDraws(p1, z, z1)
  BY <1>1, <1>8
<1>22. PartDraws(p2, z1, z2)
  BY <1>1, <1>8, <1>14, <1>21
<1>23. PartDraws(p3, z2, z3)
  BY <1>1, <1>8, <1>14, <1>22
<1>24. PartDraws(p4, z3, z4)
  BY <1>2, <1>4, <1>9, <1>14, <1>23
<1>25. PartDraws(p5, z4, z5)
  BY <1>2, <1>8, <1>14, <1>24
<1>26. PartDraws(p6, z5, z6)
  BY <1>2, <1>8, <1>14, <1>25
<1>27. PartDraws(p7, z6, z7)
  BY <1>2, <1>4, <1>10, <1>14, <1>26
<1>28. PartDraws(p8, z7, z8)
  BY <1>2, <1>4, <1>10, <1>14, <1>27
<1>29. Penned(Eight(p1, p2, p3, p4, p5, p6, p7, p8), z, z8)
  BY <1>21, <1>22, <1>23, <1>24, <1>25, <1>26, <1>27, <1>28, PennedEight
<1> QED BY <1>11, <1>13, <1>29

(* A style that is not the reset has parameters. *)
LEMMA StyleParamsSome ==
  ASSUME NEW st \in Styles, st # ResetStyle
  PROVE  StyleParams(st, ParamBytes) # <<>>
<1> DEFINE p == PartsBefore(st)
           q == ColorPart(st.bg, "bg")
<1>1. StyleParams(st, ParamBytes) = p \o q
  BY Zenon, StyleSplit
<1>2. p # <<>> \/ st.bg # NoColor
  BY StyleSaysSomething
<1>3. IsList(p)
  BY BeforePaired DEF Paired
<1>4. IsList(q)
  BY ListLiteral DEF ColorPart, Literals
<1>5. st.bg # NoColor => q # <<>>
  <2>1. \A x : <<x>> # <<>>
    OBVIOUS
  <2> QED BY <2>1 DEF ColorPart
<1> HIDE DEF p, q
<1> QED BY <1>1, <1>2, <1>3, <1>4, <1>5, EmptyCat

(* 0, alone. *)
LEMMA DrivesReset ==
  ASSUME NEW z \in Pens
  PROVE  Drives(<<"0">>, SgrAt(z), SgrAt(NoStyle))
<1> DEFINE p == <<"0">>
           s == SgrAt(z)
           s2 == SgrAt(NoStyle)
<1>1. IsZero(p)
  BY DEF IsZero
<1>3. ListOf(p, OneParam) /\ p # <<>>
  <2>1. "0" \in OneParam
    BY Zenon, ByteClasses DEF OneParam
  <2> QED BY <2>1 DEF ListOf
<1> HIDE DEF p
<1>4. ParamRead(s, p)
  BY SgrParamIs
<1>5. s.taken = <<>> /\ s \in SgrState
  BY SgrStepType DEF SgrAt
<1>6. [s EXCEPT !.style = NoStyle] = s2
  BY DEF SgrAt
<1> HIDE DEF s, s2
<1>7. SgrParam(s, p) = s2
  BY <1>1, <1>4, <1>5, <1>6 DEF ParamRead
<1>8. Drives(p, s, s2)
  BY <1>3, <1>5, <1>7, DrivesOne
<1> QED BY <1>8 DEF p, s, s2

(* What a style means. *)
LEMMA SgrMeaning ==
  ASSUME NEW t, NEW i, i.kind = "sgr"
  PROVE  /\ i.style = ResetStyle => Meaning(t, i) = [t EXCEPT !.style = NoStyle]
         /\ i.style # ResetStyle => Meaning(t, i) = [t EXCEPT !.style = Restyled(i.style, t.style)]
BY DEF Meaning, Restyled, UnderlineAfter, ColorAfter

(* A style item, drawn. *)
LEMMA DrawnStyle ==
  ASSUME NEW t, t.style \in Pens, NEW i, i.kind = "sgr", i.style \in Styles
  PROVE  Drawn(EncodeDyn(i), t, Meaning(t, i))
<1> DEFINE st == i.style
           z == t.style
           k == "m"
<1>1. EncodeDyn(i) = SgrBytes(st)
  BY DEF EncodeDyn
<1>2. CASE st = ResetStyle
  <2> DEFINE o == <<"0">>
             m == <<"m">>
             b == <<"0", "m">>
             u == [t EXCEPT !.style = NoStyle]
  <2>1. Drawn((CSI \o o) \o m, t, u)
    <3>1. Drives(o, SgrAt(z), SgrAt(NoStyle))
      BY DrivesReset
    <3> HIDE DEF o
    <3> QED BY <3>1, DrawnDrives
  <2>2. IsList(CSI) /\ IsList(o) /\ IsList(m)
    BY ListLiteral DEF Literals, CSI
  <2>3. o \o m = b
    BY PairIs
  <2>4. SgrBytes(st) = CSI \o b
    BY <1>2 DEF SgrBytes
  <2>5. Meaning(t, i) = u
    BY <1>2, SgrMeaning
  <2> HIDE DEF o, m, b, u
  <2>6. (CSI \o o) \o m = CSI \o (o \o m)
    BY <2>2, CatAssoc
  <2> QED BY <1>1, <2>1, <2>3, <2>4, <2>5, <2>6
<1>3. CASE st # ResetStyle
  <2> DEFINE p == StyleParams(st, ParamBytes)
             x == Join(p, Semicolon)
             y == Restyled(st, z)
  <2>1. Penned(p, z, y)
    BY StylePenned
  <2>2. p # <<>>
    BY <1>3, StyleParamsSome
  <2>3. SgrBytes(st) = (CSI \o x) \o <<"m">>
    BY Zenon, <1>3 DEF SgrBytes, Semicolon
  <2>4. Meaning(t, i) = [t EXCEPT !.style = y]
    BY <1>3, SgrMeaning
  <2> HIDE DEF p, y
  <2>5. Drives(x, SgrAt(z), SgrAt(y))
    BY <2>1, <2>2 DEF Penned
  <2> HIDE DEF x
  <2>6. Drawn((CSI \o x) \o <<"m">>, t, [t EXCEPT !.style = y])
    BY <2>5, DrawnDrives
  <2> QED BY <1>1, <2>3, <2>4, <2>6
<1> QED BY <1>2, <1>3

-----------------------------------------------------------------------------
(* Every item, drawn.                                                       *)

(* A query, drawn: it changes nothing. *)
LEMMA DrawnQuery ==
  ASSUME NEW c \in DOMAIN QueryBytes, NEW t
  PROVE  Drawn(QueryBytes[c], t, t)
<1>1. CASE c = "kitty"
  BY <1>1, DrawnKittyQuery
<1>2. CASE c = "osc52"
  BY <1>2, DrawnClipQuery
<1>3. CASE c # "kitty" /\ c # "osc52"
  <2>1. PICK b : CsiBody(b) /\ QueryBytes[c] = CSI \o b /\ b[Len(b)] \in {"c", "n", "p"}
    BY Zenon, <1>3, QueryKinds
  <2>2. Drawn(CSI \o b, t, t)
    BY <2>1, DrawnAsk
  <2> QED BY <2>1, <2>2
<1> QED BY <1>1, <1>2, <1>3

(* Styles are pens. *)
LEMMA StylesArePens == Styles \subseteq Pens /\ ResetStyle \in Styles /\ NoStyle = ResetStyle
<1>1. ToSet(Attributes) \subseteq AttributeNames /\ DOMAIN UnderlineParam \subseteq Underlines
  BY DEF AttributeNames, Underlines
<1>2. Colors \subseteq Tones
  BY TonesHave
<1>3. NoColor \in Colors
  BY DEF Colors
<1>4. "none" \in DOMAIN UnderlineParam
  BY DEF UnderlineParam
<1>5. ResetStyle \in Styles
  <2> HIDE DEF Colors, UnderlineParam, Attributes
  <2> QED BY <1>3, <1>4 DEF Styles, ResetStyle, Style
<1>6. Styles \subseteq Pens
  <2> HIDE DEF Colors, Tones, Underlines, AttributeNames
  <2> QED BY <1>1, <1>2 DEF Styles, Pens
<1> QED BY <1>5, <1>6, NoStylePen

(* A restyled style is a style. *)
LEMMA RestyledType ==
  ASSUME NEW st \in Styles, NEW z \in Styles
  PROVE  Restyled(st, z) \in Styles
<1>1. /\ z.attrs \subseteq ToSet(Attributes) /\ st.attrs \subseteq ToSet(Attributes)
      /\ z.underline \in DOMAIN UnderlineParam /\ st.underline \in DOMAIN UnderlineParam
      /\ z.fg \in Colors /\ z.bg \in Colors /\ st.fg \in Colors /\ st.bg \in Colors
  BY DEF Styles
<1>2. UnderlineAfter(st, z) \in DOMAIN UnderlineParam
  BY <1>1 DEF UnderlineAfter
<1>3. ColorAfter(st.fg, z.fg) \in Colors /\ ColorAfter(st.bg, z.bg) \in Colors
  BY <1>1 DEF ColorAfter
<1> QED BY <1>1, <1>2, <1>3 DEF Restyled, Style, Styles

(* A screen the terminal and the items agree about. *)
Painted(t) == Drawable(t) /\ t.style \in Styles

(* The blank screen is painted. *)
LEMMA PaintedBlank == Painted(BlankScreen)
<1>1. BlankScreen = [x \in DOMAIN BlankScreen |-> BlankScreen[x]]
  BY Zenon DEF BlankScreen
<1>2. BlankScreen.style = NoStyle
  BY DEF BlankScreen
<1>3. NoStyle \in Styles /\ NoStyle = Style(NoStyle.attrs, NoStyle.underline, NoStyle.fg, NoStyle.bg)
  BY StylesArePens, PenIs
<1> QED BY <1>1, <1>2, <1>3, BlankOK DEF Painted, Drawable

(* A field at a time. *)
LEMMA PaintedWith ==
  ASSUME NEW t, Painted(t), NEW f, NEW v, ScreenOK(With(t, f, v)), f = "style" => v \in Styles
  PROVE  Painted(With(t, f, v))
<1> DEFINE r == With(t, f, v)
<1>1. r = [x \in DOMAIN r |-> r[x]]
  BY DEF With
<1>2. "style" \in DOMAIN t /\ ScreenOK(t) /\ t.style \in Styles
  BY DEF Painted, Drawable, ScreenOK, BlankScreen
<1>3. r.style = IF f = "style" THEN v ELSE t.style
  BY <1>2 DEF With
<1>4. r.style \in Styles
  BY <1>2, <1>3
<1> HIDE DEF r
<1>5. r.style = Style(r.style.attrs, r.style.underline, r.style.fg, r.style.bg)
  BY <1>4, StylesArePens, PenIs
<1>6. ScreenOK(r)
  BY DEF r
<1>7. Painted(r)
  BY <1>1, <1>4, <1>5, <1>6 DEF Painted, Drawable
<1> QED BY <1>7 DEF r

(* An item leaves a painted screen painted. *)
LEMMA PaintedMeaning ==
  ASSUME NEW t, Painted(t), NEW i \in Item
  PROVE  Painted(Meaning(t, i))
<1> DEFINE r == Meaning(t, i)
<1>0. ScreenOK(r) /\ ScreenOK(t) /\ t.style \in Styles
  BY MeaningOK DEF Painted, Drawable
<1>1. CASE i.kind = "sgr"
  <2>1. i.style \in Styles
    BY <1>1 DEF Item
  <2>2. r = With(t, "style", NoStyle) \/ r = With(t, "style", Restyled(i.style, t.style))
    BY <1>1, SgrMeaning DEF With
  <2>3. NoStyle \in Styles /\ Restyled(i.style, t.style) \in Styles
    BY <1>0, <2>1, RestyledType, StylesArePens
  <2> HIDE DEF r
  <2> QED BY <1>0, <2>2, <2>3, PaintedWith DEF r
<1>2. CASE i.kind = "cursor"
  <2>1. i.move \in {"up", "down", "left", "right", "goto", "save", "restore"}
    BY <1>2 DEF Item, MoveFinal
  <2>2. \E v : r = With(t, "at", v) \/ r = With(t, "saved", v)
    BY Zenon, <1>2, <2>1 DEF Meaning, With
  <2> HIDE DEF r
  <2> QED BY <1>0, <2>2, PaintedWith DEF r
<1>3. CASE i.kind = "erase"
  <2>1. \E v : r = With(t, "erased", v)
    BY <1>3 DEF Meaning, With
  <2> HIDE DEF r
  <2> QED BY <1>0, <2>1, PaintedWith DEF r
<1>4. CASE i.kind \in {"modeSet", "modeReset"}
  <2>1. \E v : r = With(t, "modes", v)
    BY Zenon, <1>4 DEF Meaning, With
  <2> HIDE DEF r
  <2> QED BY <1>0, <2>1, PaintedWith DEF r
<1>5. CASE i.kind = "kitty"
  <2>1. i.op \in {"push", "pop", "set", "query"}
    BY <1>5 DEF Item
  <2>2. r = t \/ \E v : r = With(t, "kitty", v)
    BY Zenon, <1>5, <2>1 DEF Meaning, With
  <2> HIDE DEF r
  <2> QED BY <1>0, <2>2, PaintedWith DEF r
<1>6. CASE i.kind \in {"osc7", "osc8", "osc133"}
  <2>1. \E v : r = With(t, "cwd", v) \/ r = With(t, "link", v) \/ r = With(t, "mark", v)
    BY Zenon, <1>6 DEF Meaning, With
  <2> HIDE DEF r
  <2> QED BY <1>0, <2>1, PaintedWith DEF r
<1>7. CASE i.kind = "osc52"
  <2>1. r = With(t, "clip", i.payload)
    BY <1>7 DEF Meaning, With
  <2> HIDE DEF r
  <2> QED BY <1>0, <2>1, PaintedWith DEF r
<1>8. CASE i.kind = "query"
  BY <1>8 DEF Meaning
<1> QED BY <1>1, <1>2, <1>3, <1>4, <1>5, <1>6, <1>7, <1>8 DEF Item

PlainDir(i)  == i.host \in Seq(PathBytes \ {"/"}) /\ i.path \in Seq(PathBytes)
PlainLink(i) == /\ (ToSet(i.uri) \cup ToSet(i.id)) \cap {ESC, BEL} = {}
                /\ Semicolon \notin ToSet(i.id)

(* Plain, for the two kinds of item it is about. *)
LEMMA PlainIs ==
  ASSUME NEW i, Plain(i)
  PROVE  (i.kind = "osc7" => PlainDir(i)) /\ (i.kind = "osc8" => PlainLink(i))
BY Zenon DEF Plain, PlainDir, PlainLink, Semicolon

(* Every item, drawn. *)
LEMMA ItemDrawn ==
  ASSUME NEW t, Painted(t), NEW i \in Item, Plain(i)
  PROVE  Drawn(EncodeDyn(i), t, Meaning(t, i))
<1> DEFINE ok == Drawn(EncodeDyn(i), t, Meaning(t, i))
<1>0. Drawable(t) /\ t.style \in Pens
  BY StylesArePens DEF Painted
<1>1. CASE i.kind = "sgr" /\ i.style \in Styles
  BY <1>0, <1>1, DrawnStyle
<1>2. CASE i.kind = "cursor" /\ (\/ i.move \in DOMAIN MoveFinal /\ i.n \in U16
                                 \/ i.move = "goto" /\ i.row \in U16 /\ i.col \in U16
                                 \/ i.move \in {"save", "restore"})
  <2>1. CASE i.move \in DOMAIN MoveFinal /\ i.n \in U16
    BY <1>0, <1>2, <2>1, DrawnMove
  <2>2. CASE i.move = "goto" /\ i.row \in U16 /\ i.col \in U16
    BY <1>2, <2>2, DrawnGoto
  <2>3. CASE i.move \in {"save", "restore"}
    BY <1>2, <2>3, DrawnPlace
  <2> QED BY <1>2, <2>1, <2>2, <2>3
<1>3. CASE i.kind = "erase" /\ i.part \in {"0", "1", "2"} /\ i.final \in {"K", "J"}
  BY <1>3, DrawnErase
<1>4. CASE i.kind \in {"modeSet", "modeReset"} /\ i.mode \in DOMAIN ModeNumber
  BY <1>4, DrawnMode
<1>5. CASE i.kind = "kitty" /\ (\/ i.op = "push" /\ i.flags \in 0 .. 255
                                \/ i.op = "pop" /\ i.count \in U16
                                \/ i.op = "set" /\ i.flags \in 0 .. 255 /\ i.mode \in DOMAIN SetModeNumber
                                \/ i.op = "query")
  <2>1. CASE i.op = "push" /\ i.flags \in 0 .. 255
    BY <1>5, <2>1, DrawnPush
  <2>2. CASE i.op = "pop" /\ i.count \in U16
    BY <1>5, <2>2, DrawnPop
  <2>3. CASE i.op = "set" /\ i.flags \in 0 .. 255 /\ i.mode \in DOMAIN SetModeNumber
    BY <1>5, <2>3, DrawnSet
  <2>4. CASE i.op = "query"
    <3>1. EncodeDyn(i) = QueryBytes["kitty"]
      <4>1. EncodeDyn(i) = KittyBytes(i)
        BY <1>5 DEF EncodeDyn
      <4>2. KittyBytes(i) = CSI \o <<"?", "u">>
        BY <2>4 DEF KittyBytes
      <4>3. QueryBytes["kitty"] = CSI \o <<"?", "u">>
        BY DEF QueryBytes
      <4> QED BY <4>1, <4>2, <4>3
    <3>2. Meaning(t, i) = t
      BY <1>5, <2>4 DEF Meaning
    <3> QED BY <3>1, <3>2, DrawnKittyQuery
  <2> QED BY <1>5, <2>1, <2>2, <2>3, <2>4
<1>6. CASE i.kind = "osc7"
  <2>1. PlainDir(i)
    BY <1>6, PlainIs
  <2>2. ListOf(i.host, PathBytes \ {"/"}) /\ ListOf(i.path, PathBytes)
    BY <2>1 DEF PlainDir, ListOf
  <2> QED BY <1>6, <2>2, DrawnDir
<1>7. CASE i.kind = "osc8" /\ i.uri \in Seq(STRING) /\ i.id \in Seq(STRING)
  <2>1. PlainLink(i)
    BY <1>7, PlainIs
  <2>2. IsList(i.uri) /\ IsList(i.id)
    BY <1>7, ListIn
  <2>3. \A b : IsList(b) /\ ESC \notin ToSet(b) => Quiet(b)
    BY DEF Quiet, IsList, ToSet
  <2>4. Quiet(i.uri) /\ Quiet(i.id) /\ Semicolon \notin ToSet(i.id)
    BY <2>1, <2>2, <2>3 DEF PlainLink
  <2> QED BY <1>7, <2>4, DrawnLink
<1>8. CASE i.kind = "osc52" /\ i.payload \in Seq(0 .. 255)
  <2>1. i.payload \in Seq(Octet)
    BY <1>8 DEF Octet
  <2> QED BY <1>8, <2>1, DrawnClip
<1>9. CASE i.kind = "osc133" /\ i.mark \in DOMAIN MarkLetter
  BY <1>9, DrawnMark
<1>10. CASE i.kind = "query" /\ i.ask \in DOMAIN QueryBytes
  <2>1. EncodeDyn(i) = QueryBytes[i.ask]
    BY <1>10 DEF EncodeDyn
  <2>2. Meaning(t, i) = t
    BY <1>10 DEF Meaning
  <2> QED BY <1>10, <2>1, <2>2, DrawnQuery
<1> HIDE DEF ok
<1>11. ok
  BY <1>1, <1>2, <1>3, <1>4, <1>5, <1>6, <1>7, <1>8, <1>9, <1>10 DEF Item, ok
<1> QED BY <1>11 DEF ok

-----------------------------------------------------------------------------
(* The terminal is as it was asked.                                         *)

PenInv ==
  /\ Painted(asked)
  /\ \A i \in ToSet(todo) : Plain(i)
  /\ DrawInv

(* A drawn item is one more stage, or none. *)
LEMMA DrawnOn ==
  ASSUME DrawInv, NEW p, Drawn(p, asked, asked'), out' = out \o p, screen' = screen, IsList(out)
  PROVE  DrawInv'
<1>1. PICK w, G, k : Standing(w, G, k, asked, screen, out)
  BY DEF DrawInv
<1>2. CASE Whole(p, asked, asked')
  <2>1. Stage(p, asked, asked')
    BY <1>2 DEF Stage
  <2>2. PICK z, H : Standing(z, H, k, asked', screen, out \o p)
    BY <1>1, <2>1, StandingOn
  <2> QED BY <2>2 DEF DrawInv
<1>3. CASE p = <<>> /\ asked' = asked
  <2>1. out \o p = out
    BY <1>3
  <2> QED BY <1>1, <1>3, <2>1 DEF DrawInv
<1> QED BY <1>2, <1>3 DEF Drawn

(* Nothing is written and nothing drawn. *)
LEMMA DrawInit == Init => DrawInv
<1> SUFFICES ASSUME Init PROVE DrawInv
  OBVIOUS
<1> DEFINE w == <<>>
           G == {<<0, BlankScreen>>}
<1>1. IsList(w) /\ Len(w) = 0
  BY ListLiteral DEF Literals
<1>2. asked = BlankScreen /\ screen = BlankScreen /\ out = w
  BY DEF Init
<1>3. Span(w, 0, 0) = w
  BY DEF Span
<1> HIDE DEF w
<1>4. ASSUME NEW k, NEW t, <<k, t>> \in G PROVE Onward(w, G, BlankScreen, k, t)
  <2>1. k = 0 /\ t = BlankScreen
    BY <1>4
  <2> HIDE DEF G
  <2> QED BY <1>1, <2>1 DEF Onward
<1>5. Staged(w, G, BlankScreen)
  <2>1. <<Len(w), BlankScreen>> \in G
    BY <1>1
  <2> HIDE DEF G
  <2> QED BY <1>1, <1>4, <2>1 DEF Staged
<1>6. Standing(w, G, 0, BlankScreen, BlankScreen, w)
  <2>1. <<0, BlankScreen>> \in G
    OBVIOUS
  <2> HIDE DEF G
  <2> QED BY <1>1, <1>3, <1>5, <2>1 DEF Standing
<1> HIDE DEF G
<1> QED BY <1>2, <1>6 DEF DrawInv

(* Nothing happens to what is drawn. *)
LEMMA PenElsewhere ==
  ASSUME PenInv, UNCHANGED <<asked, screen, out>>, \A i \in ToSet(todo') : Plain(i)
  PROVE  PenInv'
BY DEF PenInv, DrawInv

(* An item is written in full. *)
LEMMA PenItem ==
  ASSUME StreamInv, PenInv, EncodeItem
  PROVE  PenInv'
<1> DEFINE i == Head(todo)
           p == EncodeDyn(i)
<1>1. todo # <<>> /\ out' = out \o p /\ asked' = Meaning(asked, i) /\ screen' = screen
  BY DEF EncodeItem
<1>2. todo' = <<>> \/ todo' = Tail(todo)
  BY DEF EncodeItem
<1>3. i \in Item /\ i \in ToSet(todo)
  BY <1>1 DEF StreamInv, ToSet
<1>4. ToSet(todo') \subseteq ToSet(todo)
  <2>1. CASE todo' = <<>>
    BY <2>1 DEF ToSet
  <2>2. CASE todo' = Tail(todo)
    BY <1>1, <2>2 DEF StreamInv, ToSet
  <2> QED BY <1>2, <2>1, <2>2
<1>5. Painted(asked) /\ Plain(i) /\ DrawInv /\ IsList(out)
  BY <1>3 DEF PenInv, StreamInv
<1> HIDE DEF i, p
<1>6. Painted(asked')
  BY <1>1, <1>3, <1>5, PaintedMeaning
<1>7. Drawn(p, asked, asked')
  BY <1>1, <1>3, <1>5, ItemDrawn DEF p
<1>8. DrawInv'
  BY <1>1, <1>5, <1>7, DrawnOn
<1> QED BY <1>4, <1>6, <1>8 DEF PenInv

(* The writer fails within an item: what it took is a scrap. *)
LEMMA PenPart ==
  ASSUME StreamInv, PenInv, WriterFails
  PROVE  PenInv'
<1> DEFINE i == Head(todo)
           p == EncodeDyn(i)
<1>1. todo # <<>> /\ todo' = <<>> /\ asked' = asked /\ screen' = screen
  BY DEF WriterFails, termVars
<1>2. PICK j \in 0 .. (Len(p) - 1) : out' = out \o SubSeq(p, 1, j)
  BY Zenon DEF WriterFails
<1>3. i \in Item /\ i \in ToSet(todo)
  BY <1>1 DEF StreamInv, ToSet
<1>4. Painted(asked) /\ Plain(i) /\ DrawInv /\ IsList(out)
  BY <1>3 DEF PenInv, StreamInv
<1> HIDE DEF i
<1>5. Drawn(p, asked, Meaning(asked, i))
  BY <1>3, <1>4, ItemDrawn
<1> HIDE DEF p
<1>6. IsList(p) /\ Shape(p) /\ j \in Nat /\ j < Len(p)
  BY <1>2, <1>5 DEF Drawn, IsList
<1>7. PICK w, G, k : Standing(w, G, k, asked, screen, out)
  BY <1>4 DEF DrawInv
<1>8. PICK z, H : Standing(z, H, k, asked, screen, out \o SubSeq(p, 1, j))
  BY <1>4, <1>6, <1>7, StandingTorn
<1>9. DrawInv'
  BY <1>1, <1>2, <1>8 DEF DrawInv
<1>10. ToSet(todo') = {}
  BY <1>1 DEF ToSet
<1> QED BY <1>1, <1>4, <1>9, <1>10 DEF PenInv

(* The terminal obeys a sequence: it is the next whole stage. *)
LEMMA PenObey ==
  ASSUME PenInv, TerminalObeys
  PROVE  PenInv'
<1> DEFINE n == NextSequence(out)
<1>1. /\ n.kind # "none" /\ out' = SubSeq(out, n.len + 1, Len(out))
      /\ screen' = Obey(screen, n.kind, SubSeq(out, 1, n.len))
      /\ asked' = asked /\ todo' = todo
  BY DEF TerminalObeys, writeVars
<1>2. PICK w, G, k : Standing(w, G, k, asked, screen, out)
  BY DEF PenInv, DrawInv
<1>3. PICK l : Standing(w, G, l, asked, Obey(screen, n.kind, SubSeq(out, 1, n.len)),
                        SubSeq(out, n.len + 1, Len(out)))
  BY <1>1, <1>2, StandingNext
<1>4. DrawInv'
  BY <1>1, <1>3 DEF DrawInv
<1> HIDE DEF n
<1> QED BY <1>1, <1>4 DEF PenInv

(* The items of a batch are plain. *)
LEMMA PenBegin ==
  ASSUME PlainItems, StreamInv, PenInv, Begin
  PROVE  PenInv'
<1>1. PICK batch \in Batches[batches + 1] : todo' = batch
  BY DEF Begin
<1>2. batches + 1 \in DOMAIN Batches
  <2>1. Batches \in Seq(SUBSET Seq(Item)) /\ batches \in Nat /\ batches < Len(Batches)
    BY CodecAssumption DEF StreamInv, Begin
  <2>2. Len(Batches) \in Nat /\ DOMAIN Batches = 1 .. Len(Batches)
    BY <2>1
  <2> QED BY <2>1, <2>2
<1>3. \A i \in ToSet(todo') : Plain(i)
  BY <1>1, <1>2 DEF PlainItems
<1>4. UNCHANGED <<asked, screen, out>>
  BY DEF Begin, termVars
<1> QED BY <1>3, <1>4, PenElsewhere

(* Every step keeps the stages in their order. *)
LEMMA PenStep == PlainItems /\ StreamInv /\ PenInv /\ [Next]_vars => PenInv'
<1> SUFFICES ASSUME PlainItems, StreamInv, PenInv, [Next]_vars PROVE PenInv'
  OBVIOUS
<1>1. CASE UNCHANGED <<asked, screen, out, todo>>
  BY <1>1, PenElsewhere DEF PenInv
<1>2. CASE UNCHANGED vars
  BY <1>1, <1>2 DEF vars, writeVars, termVars, readVars
<1>3. CASE EncodeDone
  BY <1>1, <1>3 DEF EncodeDone, termVars, readVars
<1>4. CASE (\E bytes \in Noise : PressKey(bytes)) \/ Arrive \/ Take \/ Drop
  BY <1>1, <1>4 DEF PressKey, Arrive, Take, Drop, writeVars, termVars, readVars
<1> QED BY <1>2, <1>3, <1>4, PenBegin, PenItem, PenPart, PenObey DEF Next

(* TerminalAsAsked: with no sequence left to obey, the terminal is as the   *)
(* items that were written in full describe, whatever half items a failing  *)
(* writer has left between them, for items of every kind and any values.    *)
(* The text of a link must not end the OSC that it stands in.               *)
THEOREM TerminalDraws == PlainItems => (Spec => []TerminalAsAsked)
<1> SUFFICES ASSUME PlainItems PROVE Spec => []TerminalAsAsked
  OBVIOUS
<1>1. Init => StreamInv /\ PenInv
  <2>1. Init => Painted(asked) /\ \A i \in ToSet(todo) : Plain(i)
    BY PaintedBlank DEF Init, ToSet
  <2> QED BY <2>1, StreamInit, DrawInit DEF PenInv
<1>2. StreamInv /\ PenInv /\ [Next]_vars => (StreamInv /\ PenInv)'
  BY StreamStep, PenStep
<1>3. StreamInv /\ PenInv => TerminalAsAsked
  <2> SUFFICES ASSUME PenInv, NextSequence(out).kind = "none" PROVE screen = asked
    BY DEF TerminalAsAsked
  <2>1. PICK w, G, k : Standing(w, G, k, asked, screen, out)
    BY DEF PenInv, DrawInv
  <2> QED BY <2>1, StandingEnd
<1> QED BY <1>1, <1>2, <1>3, PTL DEF Spec

=============================================================================
