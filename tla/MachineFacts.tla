---------------------------- MODULE MachineFacts ----------------------------
(***************************************************************************)
(* What the operators of StateMachine do: the dedupe table as a sequence   *)
(* of rows, and the strokes that a filter keeps.  The proofs about Canvas  *)
(* and Gateway rest on it.                                                 *)
(***************************************************************************)
EXTENDS StateMachine, NaturalFacts, SequenceTheorems

-----------------------------------------------------------------------------
(***************************************************************************)
(* The dedupe table.                                                       *)
(***************************************************************************)

Rows(C) == [client : C, seq : Int, index : Nat]

\* The fields of the rows of a table.
LEMMA RowFields ==
  ASSUME NEW C, NEW t \in Seq(Rows(C))
  PROVE  /\ Len(t) \in Nat
         /\ \A k \in 1 .. Len(t) : t[k].client \in C /\ t[k].index \in Nat
<1>1. \A k \in 1 .. Len(t) : t[k] \in Rows(C)
  OBVIOUS
<1>2. \A r \in Rows(C) : r.client \in C /\ r.index \in Nat
  BY DEF Rows
<1> QED BY <1>1, <1>2

\* The table u is t without its row for client c, if it has one.
Removed(C, t, c, u) ==
  \/ u = t /\ \A k \in 1 .. Len(t) : t[k].client # c
  \/ \E p \in 1 .. Len(t) :
       /\ t[p].client = c
       /\ u \in Seq(Rows(C))
       /\ Len(u) = Len(t) - 1
       /\ \A k \in 1 .. Len(t) - 1 : u[k] = IF k < p THEN t[k] ELSE t[k + 1]

\* The sequence t without its element at p.
LEMMA RemoveAtProperties ==
  ASSUME NEW S, NEW t \in Seq(S), NEW p \in 1 .. Len(t)
  PROVE  /\ RemoveAt(t, p) \in Seq(S)
         /\ Len(RemoveAt(t, p)) = Len(t) - 1
         /\ \A k \in 1 .. Len(t) - 1 : RemoveAt(t, p)[k] = IF k < p THEN t[k] ELSE t[k + 1]
<1> DEFINE a == SubSeq(t, 1, p - 1)
           b == SubSeq(t, p + 1, Len(t))
<1>1. Len(t) \in Nat /\ p \in Nat
  OBVIOUS
<1>2. RemoveAt(t, p) = a \o b
  BY DEF RemoveAt
<1>3. /\ a \in Seq(S)
      /\ Len(a) = p - 1
      /\ \A k \in 1 .. p - 1 : a[k] = t[k]
  <2>1. 1 \in Int /\ p - 1 \in Int /\ \A k \in 1 .. p - 1 : t[k] \in S
    BY <1>1
  <2>2. /\ a \in Seq(S)
        /\ Len(a) = IF 1 <= p - 1 THEN p - 1 - 1 + 1 ELSE 0
        /\ \A k \in 1 .. p - 1 - 1 + 1 : a[k] = t[1 + k - 1]
    BY <2>1, SubSeqProperties
  <2> HIDE DEF a
  <2> QED BY <1>1, <2>2
<1>4. /\ b \in Seq(S)
      /\ Len(b) = Len(t) - p
      /\ \A k \in 1 .. Len(t) - p : b[k] = t[p + k]
  <2>1. p + 1 \in Int /\ Len(t) \in Int /\ \A k \in p + 1 .. Len(t) : t[k] \in S
    BY <1>1
  <2>2. /\ b \in Seq(S)
        /\ Len(b) = IF p + 1 <= Len(t) THEN Len(t) - (p + 1) + 1 ELSE 0
        /\ \A k \in 1 .. Len(t) - (p + 1) + 1 : b[k] = t[(p + 1) + k - 1]
    BY <2>1, SubSeqProperties
  <2> HIDE DEF b
  <2> QED BY <1>1, <2>2
<1> HIDE DEF a, b
<1>5. /\ a \o b \in Seq(S)
      /\ Len(a \o b) = Len(a) + Len(b)
      /\ \A k \in 1 .. Len(a) + Len(b) :
           (a \o b)[k] = IF k <= Len(a) THEN a[k] ELSE b[k - Len(a)]
  BY <1>3, <1>4, ConcatProperties
<1>6. Len(a \o b) = Len(t) - 1
  BY <1>1, <1>3, <1>4, <1>5
<1>7. ASSUME NEW k \in 1 .. Len(t) - 1
      PROVE  (a \o b)[k] = IF k < p THEN t[k] ELSE t[k + 1]
  <2>1. (a \o b)[k] = IF k <= p - 1 THEN a[k] ELSE b[k - (p - 1)]
    <3>1. Len(a) = p - 1 /\ Len(a) + Len(b) = Len(t) - 1
      BY <1>1, <1>3, <1>4
    <3>2. (a \o b)[k] = IF k <= Len(a) THEN a[k] ELSE b[k - Len(a)]
      BY <1>5, <3>1
    <3> QED BY <3>1, <3>2
  <2>2. CASE k < p
    BY <1>1, <1>3, <2>1, <2>2
  <2>3. CASE ~(k < p)
    <3>1. k - (p - 1) \in 1 .. Len(t) - p /\ p + (k - (p - 1)) = k + 1
      BY <1>1, <2>3
    <3> QED BY <1>1, <1>4, <2>1, <2>3, <3>1
  <2> QED BY <2>2, <2>3
<1> QED BY <1>2, <1>5, <1>6, <1>7

\* Without is Map.delete.
LEMMA WithoutRemoves ==
  ASSUME NEW C, NEW t \in Seq(Rows(C)), NEW c
  PROVE  Removed(C, t, c, Without(t, c))
<1> DEFINE at == {n \in 1 .. Len(t) : t[n].client = c}
<1>1. CASE at = {}
  <2>1. Without(t, c) = t
    BY <1>1 DEF Without
  <2> QED BY <1>1, <2>1 DEF Removed
<1>2. CASE at # {}
  <2> DEFINE p == CHOOSE n \in at : TRUE
             u == RemoveAt(t, p)
  <2>1. p \in 1 .. Len(t) /\ t[p].client = c
    BY <1>2
  <2>2. Without(t, c) = u
    BY <1>2 DEF Without
  <2> HIDE DEF p
  <2>3. /\ u \in Seq(Rows(C))
        /\ Len(u) = Len(t) - 1
        /\ \A k \in 1 .. Len(t) - 1 : u[k] = IF k < p THEN t[k] ELSE t[k + 1]
    BY <2>1, RemoveAtProperties
  <2> HIDE DEF u
  <2> QED BY <2>1, <2>2, <2>3 DEF Removed
<1> QED BY <1>1, <1>2

\* The table r is t with the row e for its client at the end.
Moved(C, t, e, r) ==
  \E u : /\ Removed(C, t, e.client, u)
         /\ r \in Seq(Rows(C))
         /\ \/ /\ Len(u) < dedupeMaxClients
               /\ Len(r) = Len(u) + 1
               /\ \A k \in 1 .. Len(u) : r[k] = u[k]
            \/ /\ Len(u) >= dedupeMaxClients
               /\ Len(r) = Len(u)
               /\ \A k \in 1 .. Len(u) - 1 : r[k] = u[k + 1]
         /\ r[Len(r)] = e

\* _touchDedupe moves the key to the end and evicts the oldest one.
LEMMA TouchMoves ==
  ASSUME NEW C, NEW t \in Seq(Rows(C)), NEW op, NEW n \in Nat,
         [client |-> op.client, seq |-> op.seq, index |-> n] \in Rows(C)
  PROVE  Moved(C, t, [client |-> op.client, seq |-> op.seq, index |-> n], touchDedupe(t, op, n))
<1> DEFINE e == [client |-> op.client, seq |-> op.seq, index |-> n]
           u == Without(t, op.client)
           m == Append(u, e)
<1>1. touchDedupe(t, op, n) = IF Len(m) > dedupeMaxClients THEN Tail(m) ELSE m
  BY DEF touchDedupe
<1>2. Removed(C, t, e.client, u) /\ u \in Seq(Rows(C))
  <2>1. Removed(C, t, op.client, u)
    BY WithoutRemoves
  <2> QED BY <2>1 DEF Removed
<1>3. e \in Rows(C)
  OBVIOUS
<1> HIDE DEF e, u
<1>4. /\ m \in Seq(Rows(C)) /\ m # <<>> /\ Len(u) \in Nat /\ Len(m) = Len(u) + 1
      /\ \A k \in 1 .. Len(u) : m[k] = u[k]
      /\ m[Len(u) + 1] = e
  BY <1>2, <1>3, AppendProperties
<1> HIDE DEF m
<1>5. CASE Len(m) > dedupeMaxClients
  <2>1. /\ Tail(m) \in Seq(Rows(C))
        /\ Len(Tail(m)) = Len(m) - 1
        /\ \A k \in 1 .. Len(m) - 1 : Tail(m)[k] = m[k + 1]
    BY <1>4, HeadTailProperties
  <2>2. Len(u) >= dedupeMaxClients /\ Len(u) >= 1 /\ Len(Tail(m)) = Len(u)
    BY <1>4, <1>5, <2>1, DedupeAssumption
  <2>3. \A k \in 1 .. Len(u) - 1 : Tail(m)[k] = u[k + 1]
    BY <1>4, <2>1, <2>2
  <2>4. Tail(m)[Len(Tail(m))] = e
    BY <1>4, <2>1, <2>2
  <2> QED BY <1>1, <1>2, <1>5, <2>1, <2>2, <2>3, <2>4 DEF Moved, e
<1>6. CASE ~(Len(m) > dedupeMaxClients)
  <2>1. Len(u) < dedupeMaxClients
    BY <1>4, <1>6, DedupeAssumption
  <2> QED BY <1>1, <1>2, <1>4, <1>6, <2>1 DEF Moved, e
<1> QED BY <1>5, <1>6

\* The rows of u are those of t but for client c, in their order.
Rest(C, t, c, u) ==
  /\ u \in Seq(Rows(C))
  /\ \A k \in 1 .. Len(u) : u[k].client # c /\ \E j \in 1 .. Len(t) : u[k] = t[j]
  /\ \A a, b \in 1 .. Len(u) : a < b => u[a].index < u[b].index
  /\ \A k \in 1 .. Len(t) : t[k].client # c => \E j \in 1 .. Len(u) : u[j] = t[k]
  /\ u = t \/ Len(u) = Len(t) - 1

Rising(t) ==
  /\ \A a, b \in 1 .. Len(t) : a < b => t[a].index < t[b].index
  /\ \A a, b \in 1 .. Len(t) : t[a].client = t[b].client => t[a].index = t[b].index

\* Removing a row leaves the rest of a table that is in order.
LEMMA RemovedLeavesRest ==
  ASSUME NEW C, NEW t \in Seq(Rows(C)), NEW c, NEW u, Removed(C, t, c, u), Rising(t)
  PROVE  Rest(C, t, c, u)
<1>1. Len(t) \in Nat /\ \A k \in 1 .. Len(t) : t[k].index \in Nat
  BY RowFields
<1> USE DEF Rising
<1>2. CASE u = t /\ \A k \in 1 .. Len(t) : t[k].client # c
  BY <1>2 DEF Rest
<1>3. CASE ~(u = t /\ \A k \in 1 .. Len(t) : t[k].client # c)
  <2>1. PICK p \in 1 .. Len(t) :
          /\ t[p].client = c
          /\ u \in Seq(Rows(C))
          /\ Len(u) = Len(t) - 1
          /\ \A k \in 1 .. Len(t) - 1 : u[k] = IF k < p THEN t[k] ELSE t[k + 1]
    BY <1>3 DEF Removed
  <2>2. \A k \in 1 .. Len(t) : k # p => t[k].client # c
    <3>1. SUFFICES ASSUME NEW k \in 1 .. Len(t), k # p, t[k].client = c PROVE FALSE
      OBVIOUS
    <3>2. t[k].index = t[p].index
      BY <2>1, <3>1
    <3>3. k < p \/ p < k
      BY <1>1, <3>1
    <3>4. t[k].index < t[p].index \/ t[p].index < t[k].index
      BY <3>3
    <3> QED BY <1>1, <3>2, <3>4
  <2> DEFINE at(k) == IF k < p THEN k ELSE k + 1
  <2>3. ASSUME NEW k \in 1 .. Len(u)
        PROVE  at(k) \in 1 .. Len(t) /\ at(k) # p /\ u[k] = t[at(k)]
    BY <1>1, <2>1
  <2>4. ASSUME NEW a \in 1 .. Len(u), NEW b \in 1 .. Len(u), a < b
        PROVE  at(a) < at(b)
    BY <1>1, <2>1, <2>4
  <2>5. ASSUME NEW k \in 1 .. Len(t), k # p
        PROVE  \E j \in 1 .. Len(u) : at(j) = k
    <3>1. CASE k < p
      <4>1. k \in 1 .. Len(u) /\ at(k) = k
        BY <1>1, <2>1, <3>1
      <4> QED BY <4>1
    <3>2. CASE p < k
      <4>1. k - 1 \in 1 .. Len(u) /\ at(k - 1) = k
        BY <1>1, <2>1, <3>2
      <4> QED BY <4>1
    <3> QED BY <1>1, <2>1, <2>5, <3>1, <3>2
  <2> HIDE DEF at
  <2>6. \A k \in 1 .. Len(u) : u[k].client # c /\ \E j \in 1 .. Len(t) : u[k] = t[j]
    BY <2>2, <2>3
  <2>7. ASSUME NEW a \in 1 .. Len(u), NEW b \in 1 .. Len(u), a < b
        PROVE  u[a].index < u[b].index
    BY <2>3, <2>4, <2>7
  <2>8. ASSUME NEW k \in 1 .. Len(t), t[k].client # c
        PROVE  \E j \in 1 .. Len(u) : u[j] = t[k]
    <3>1. k # p
      BY <2>1, <2>8
    <3>2. PICK j \in 1 .. Len(u) : at(j) = k
      BY <2>5, <3>1
    <3> QED BY <2>3, <3>2
  <2> QED BY <2>1, <2>6, <2>7, <2>8 DEF Rest
<1> QED BY <1>2, <1>3

-----------------------------------------------------------------------------
(***************************************************************************)
(* What a filter keeps.                                                    *)
(***************************************************************************)

\* f[n] is what the filter keeps of the first n elements.
Keeps(s, K, f) ==
  /\ f[0] = <<>>
  /\ \A n \in 1 .. Len(s) : f[n] = IF n \in K THEN Append(f[n - 1], s[n]) ELSE f[n - 1]
  /\ Kept(s, K) = f[Len(s)]

\* The function that defines Kept exists.
LEMMA KeptExists ==
  ASSUME NEW S, NEW s \in Seq(S), NEW K
  PROVE  \E f : Keeps(s, K, f)
<1> DEFINE Body(f, n) == IF n = 0 THEN <<>>
                         ELSE IF n \in K THEN Append(f[n - 1], s[n]) ELSE f[n - 1]
           Upto(f, n) == f = [k \in 0 .. n |-> Body(f, k)]
           P(n) == \E f : Upto(f, n)
<1>1. Len(s) \in Nat
  OBVIOUS
<1>2. P(0)
  <2> DEFINE f == [k \in 0 .. 0 |-> <<>>]
  <2>1. Upto(f, 0)
    OBVIOUS
  <2> QED BY <2>1
<1>3. ASSUME NEW n \in 0 .. Len(s) - 1, P(n) PROVE P(n + 1)
  <2>1. PICK f : Upto(f, n)
    BY <1>3
  <2> DEFINE g == [k \in 0 .. n + 1 |-> IF k = n + 1 THEN Body(f, k) ELSE f[k]]
  <2>2. \A k \in 0 .. n : g[k] = f[k] /\ k \in 0 .. n + 1
    OBVIOUS
  <2>3. ASSUME NEW k \in 0 .. n + 1 PROVE g[k] = Body(g, k)
    <3>1. CASE k = n + 1
      <4>1. k - 1 \in 0 .. n /\ k # 0
        BY <3>1
      <4>2. g[k - 1] = f[k - 1] /\ g[k] = Body(f, k)
        BY <2>2, <3>1, <4>1
      <4> HIDE DEF g
      <4> QED BY <4>1, <4>2
    <3>2. CASE k \in 0 .. n
      <4>1. g[k] = f[k] /\ f[k] = Body(f, k)
        BY <2>1, <2>2, <3>2
      <4>2. k # 0 => g[k - 1] = f[k - 1]
        BY <2>2, <3>2
      <4> HIDE DEF g
      <4> QED BY <4>1, <4>2
    <3> QED BY <3>1, <3>2
  <2>4. Upto(g, n + 1)
    <3>1. g = [k \in 0 .. n + 1 |-> g[k]]
      OBVIOUS
    <3> HIDE DEF g
    <3> QED BY <2>3, <3>1
  <2> QED BY <2>4
<1> HIDE DEF P
<1> DEFINE T == {n \in 0 .. Len(s) : P(n)}
<1>4. \A n \in 0 .. Len(s) : n \in T
  <2>1. 0 \in T
    BY <1>1, <1>2
  <2>2. \A n \in 0 .. Len(s) - 1 : n \in T => n + 1 \in T
    BY <1>1, <1>3
  <2> HIDE DEF T
  <2> QED BY <1>1, <2>1, <2>2, UpToBound
<1>5. P(Len(s))
  BY <1>1, <1>4
<1> DEFINE h == CHOOSE f : Upto(f, Len(s))
<1>6. Kept(s, K) = h[Len(s)]
  BY DEF Kept
<1>7. Upto(h, Len(s))
  BY <1>5 DEF P
<1> HIDE DEF h
<1>8. \A n \in 0 .. Len(s) : h[n] = Body(h, n)
  BY <1>7
<1>9. h[0] = <<>>
  BY <1>1, <1>8
<1>10. \A n \in 1 .. Len(s) : h[n] = IF n \in K THEN Append(h[n - 1], s[n]) ELSE h[n - 1]
  BY <1>1, <1>8
<1> QED BY <1>6, <1>9, <1>10 DEF Keeps

\* r is a sequence over S of elements of s.
ElementsOf(r, s, S) ==
  r \in Seq(S) /\ \A k \in 1 .. Len(r) : \E n \in 1 .. Len(s) : r[k] = s[n]

\* An element of s may be appended to elements of s.
LEMMA ElementAppended ==
  ASSUME NEW S, NEW s \in Seq(S), NEW r, ElementsOf(r, s, S), NEW n \in 1 .. Len(s)
  PROVE  ElementsOf(Append(r, s[n]), s, S)
<1>1. r \in Seq(S) /\ \A k \in 1 .. Len(r) : \E m \in 1 .. Len(s) : r[k] = s[m]
  BY DEF ElementsOf
<1>2. Len(r) \in Nat /\ s[n] \in S
  BY <1>1
<1> DEFINE q == Append(r, s[n])
<1>3. /\ q \in Seq(S)
      /\ Len(q) = Len(r) + 1
      /\ \A k \in 1 .. Len(r) : q[k] = r[k]
      /\ q[Len(r) + 1] = s[n]
  BY <1>1, <1>2, AppendProperties
<1> HIDE DEF q
<1>4. ASSUME NEW k \in 1 .. Len(q) PROVE \E m \in 1 .. Len(s) : q[k] = s[m]
  <2>1. CASE k = Len(r) + 1
    BY <1>3, <2>1
  <2>2. CASE k \in 1 .. Len(r)
    <3>1. q[k] = r[k]
      BY <1>3, <2>2
    <3> QED BY <1>1, <2>2, <3>1
  <2> QED BY <1>2, <1>3, <2>1, <2>2
<1>5. ElementsOf(q, s, S)
  BY <1>3, <1>4 DEF ElementsOf
<1> QED BY <1>5 DEF q

\* The filter keeps elements.
LEMMA KeptElements ==
  ASSUME NEW S, NEW s \in Seq(S), NEW K
  PROVE  ElementsOf(Kept(s, K), s, S)
<1>1. PICK f : Keeps(s, K, f)
  BY KeptExists
<1> DEFINE P(n) == ElementsOf(f[n], s, S)
<1>2. Len(s) \in Nat
  OBVIOUS
<1>3. P(0)
  <2>1. f[0] = <<>>
    BY <1>1 DEF Keeps
  <2> QED BY <2>1 DEF ElementsOf
<1>4. ASSUME NEW n \in 0 .. Len(s) - 1, P(n) PROVE P(n + 1)
  <2>1. n + 1 \in 1 .. Len(s) /\ (n + 1) - 1 = n
    BY <1>2
  <2>2. f[n + 1] = IF n + 1 \in K THEN Append(f[n], s[n + 1]) ELSE f[n]
    <3>1. f[n + 1] = IF n + 1 \in K THEN Append(f[(n + 1) - 1], s[n + 1]) ELSE f[(n + 1) - 1]
      BY <1>1, <2>1 DEF Keeps
    <3> QED BY <2>1, <3>1
  <2>3. ElementsOf(Append(f[n], s[n + 1]), s, S)
    BY <1>4, <2>1, ElementAppended
  <2> QED BY <1>4, <2>2, <2>3
<1> HIDE DEF P
<1> DEFINE T == {n \in 0 .. Len(s) : P(n)}
<1>5. \A n \in 0 .. Len(s) : n \in T
  <2>1. 0 \in T
    BY <1>2, <1>3
  <2>2. \A n \in 0 .. Len(s) - 1 : n \in T => n + 1 \in T
    BY <1>2, <1>4
  <2> HIDE DEF T
  <2> QED BY <1>2, <2>1, <2>2, UpToBound
<1>6. P(Len(s))
  BY <1>2, <1>5
<1> QED BY <1>1, <1>6 DEF Keeps, P

\* A filter that keeps the positions from a to b keeps the segment.
LEMMA KeptSegment ==
  ASSUME NEW S, NEW s \in Seq(S), NEW a \in 1 .. Len(s) + 1, NEW b \in a - 1 .. Len(s), NEW K,
         \A n \in 1 .. Len(s) : n \in K <=> n \in a .. b
  PROVE  Kept(s, K) = SubSeq(s, a, b)
<1>1. PICK f : Keeps(s, K, f)
  BY KeptExists
<1> DEFINE top(n) == IF n <= b THEN n ELSE b
           P(n) == f[n] = SubSeq(s, a, top(n))
<1>2. Len(s) \in Nat /\ a \in Nat /\ b \in Nat
  OBVIOUS
<1>3. P(0)
  <2>1. f[0] = <<>> /\ top(0) = 0 /\ 0 < a
    BY <1>1, <1>2 DEF Keeps
  <2>2. SubSeq(s, a, 0) = <<>>
    BY <1>2, <2>1, SubSeqEmpty
  <2> QED BY <2>1, <2>2
<1>4. ASSUME NEW n \in 0 .. Len(s) - 1, P(n) PROVE P(n + 1)
  <2>1. n + 1 \in 1 .. Len(s) /\ f[n] = SubSeq(s, a, top(n)) /\ (n + 1) - 1 = n
    BY <1>2, <1>4
  <2>2. f[n + 1] = IF n + 1 \in K THEN Append(f[n], s[n + 1]) ELSE f[n]
    <3>1. f[n + 1] = IF n + 1 \in K THEN Append(f[(n + 1) - 1], s[n + 1]) ELSE f[(n + 1) - 1]
      BY <1>1, <2>1 DEF Keeps
    <3> QED BY <2>1, <3>1
  <2>3. CASE n + 1 \in a .. b
    <3>1. /\ f[n + 1] = Append(SubSeq(s, a, n), s[n + 1])
          /\ top(n + 1) = n + 1
      BY <1>2, <2>1, <2>2, <2>3
    <3>2. a \in 1 .. Len(s) /\ n + 1 \in a .. Len(s)
      BY <1>2, <2>1, <2>3
    <3>3. SubSeq(s, a, n + 1) = SubSeq(s, a, (n + 1) - 1) \o <<s[n + 1]>>
      BY <3>2, SubSeqRecursiveSecond
    <3>4. SubSeq(s, a, n) \in Seq(S) /\ s[n + 1] \in S
      <4>1. \A k \in a .. n : s[k] \in S
        BY <1>2, <2>1
      <4> QED BY <1>2, <2>1, <4>1, SubSeqProperties
    <3>5. Append(SubSeq(s, a, n), s[n + 1]) = SubSeq(s, a, n) \o <<s[n + 1]>>
      BY <3>4, AppendIsConcat
    <3> QED BY <2>1, <3>1, <3>3, <3>5
  <2>4. CASE n + 1 < a
    <3>1. f[n + 1] = SubSeq(s, a, top(n)) /\ top(n) < a /\ top(n + 1) < a
      BY <1>2, <2>1, <2>2, <2>4
    <3>2. top(n) \in Int /\ top(n + 1) \in Int
      BY <1>2
    <3> HIDE DEF top
    <3>3. SubSeq(s, a, top(n)) = <<>> /\ SubSeq(s, a, top(n + 1)) = <<>>
      BY <1>2, <3>1, <3>2, SubSeqEmpty
    <3> QED BY <2>1, <3>1, <3>3
  <2>5. CASE n + 1 > b
    <3>1. f[n + 1] = f[n] /\ top(n) = b /\ top(n + 1) = b
      BY <1>2, <2>1, <2>2, <2>5
    <3> QED BY <2>1, <3>1
  <2> QED BY <1>2, <2>3, <2>4, <2>5
<1> HIDE DEF P
<1> DEFINE T == {n \in 0 .. Len(s) : P(n)}
<1>5. \A n \in 0 .. Len(s) : n \in T
  <2>1. 0 \in T
    BY <1>2, <1>3
  <2>2. \A n \in 0 .. Len(s) - 1 : n \in T => n + 1 \in T
    BY <1>2, <1>4
  <2> HIDE DEF T
  <2> QED BY <1>2, <2>1, <2>2, UpToBound
<1>6. P(Len(s))
  BY <1>2, <1>5
<1>7. top(Len(s)) = b
  BY <1>2
<1> QED BY <1>1, <1>6, <1>7 DEF Keeps, P

\* A page of the history that starts at or before the first stroke is the
\* strokes up to its end.
LEMMA FirstEntries ==
  ASSUME NEW S, NEW sm, sm.strokes \in Seq(S), NEW from, NEW to,
         \A k \in 1 .. Len(sm.strokes) : sm.strokes[k].index >= from,
         NEW p \in 0 .. Len(sm.strokes),
         \A k \in 1 .. Len(sm.strokes) : sm.strokes[k].index <= to <=> k <= p
  PROVE  getLogEntries(sm, from, to) = SubSeq(sm.strokes, 1, p)
<1> DEFINE s == sm.strokes
           K == {k \in 1 .. Len(s) : s[k].index >= from}
           L == {k \in 1 .. Len(s) : s[k].index <= to}
<1>1. s \in Seq(S) /\ Len(s) \in Nat
  OBVIOUS
<1>2. \A k \in 1 .. Len(s) : (k \in K <=> k \in 1 .. Len(s)) /\ (k \in L <=> k \in 1 .. p)
  OBVIOUS
<1>3. getStrokesFrom(sm, from) = Kept(s, K)
  BY DEF getStrokesFrom
<1>4. getStrokesFrom(sm, from) = s => getLogEntries(sm, from, to) = Kept(s, L)
  BY DEF getLogEntries
<1>5. p \in 0 .. Len(s)
  OBVIOUS
<1> HIDE DEF s, K, L
<1>6. Kept(s, K) = SubSeq(s, 1, Len(s))
  BY <1>1, <1>2, KeptSegment
<1>7. SubSeq(s, 1, Len(s)) = s
  BY <1>1, SubSeqFull
<1>8. Kept(s, L) = SubSeq(s, 1, p)
  BY <1>1, <1>2, <1>5, KeptSegment
<1> QED BY <1>3, <1>4, <1>6, <1>7, <1>8 DEF s

\* One that ends at or after the last stroke is the strokes from its start.
LEMMA LastEntries ==
  ASSUME NEW S, NEW sm, sm.strokes \in Seq(S), NEW from, NEW to,
         \A k \in 1 .. Len(sm.strokes) : sm.strokes[k].index <= to,
         NEW p \in 0 .. Len(sm.strokes),
         \A k \in 1 .. Len(sm.strokes) : sm.strokes[k].index >= from <=> k > p
  PROVE  getLogEntries(sm, from, to) = SubSeq(sm.strokes, p + 1, Len(sm.strokes))
<1> DEFINE s == sm.strokes
           K == {k \in 1 .. Len(s) : s[k].index >= from}
           t == SubSeq(s, p + 1, Len(s))
           L == {k \in 1 .. Len(t) : t[k].index <= to}
<1>1. s \in Seq(S) /\ Len(s) \in Nat /\ p \in 0 .. Len(s)
  OBVIOUS
<1>2. \A k \in 1 .. Len(s) : (k \in K <=> k \in p + 1 .. Len(s)) /\ s[k].index <= to
  OBVIOUS
<1>3. getStrokesFrom(sm, from) = Kept(s, K)
  BY DEF getStrokesFrom
<1>4. getStrokesFrom(sm, from) = t => getLogEntries(sm, from, to) = Kept(t, L)
  BY DEF getLogEntries
<1> HIDE DEF s, K
<1>5. Kept(s, K) = t
  <2>1. p + 1 \in 1 .. Len(s) + 1 /\ Len(s) \in (p + 1) - 1 .. Len(s)
    BY <1>1
  <2>2. \A k \in 1 .. Len(s) : k \in K <=> k \in p + 1 .. Len(s)
    BY <1>2
  <2> QED BY <1>1, <2>1, <2>2, KeptSegment
<1>6. /\ t \in Seq(S) /\ Len(t) = Len(s) - p
      /\ \A k \in 1 .. Len(s) - p : t[k] = s[p + 1 + k - 1]
  <2>1. p + 1 \in Int /\ Len(s) \in Int /\ \A k \in p + 1 .. Len(s) : s[k] \in S
    BY <1>1
  <2>2. /\ t \in Seq(S)
        /\ Len(t) = IF p + 1 <= Len(s) THEN Len(s) - (p + 1) + 1 ELSE 0
        /\ \A k \in 1 .. Len(s) - (p + 1) + 1 : t[k] = s[p + 1 + k - 1]
    BY <2>1, SubSeqProperties
  <2> HIDE DEF t
  <2> QED BY <1>1, <2>2
<1> HIDE DEF t
<1>7. \A k \in 1 .. Len(t) : k \in L <=> k \in 1 .. Len(t)
  <2>1. ASSUME NEW k \in 1 .. Len(t) PROVE t[k].index <= to
    <3>1. t[k] = s[p + 1 + k - 1] /\ p + 1 + k - 1 \in 1 .. Len(s)
      BY <1>1, <1>6, <2>1
    <3> QED BY <1>2, <3>1
  <2> QED BY <2>1
<1>8. Kept(t, L) = SubSeq(t, 1, Len(t)) /\ SubSeq(t, 1, Len(t)) = t
  <2>1. Len(t) \in Nat
    BY <1>6
  <2> HIDE DEF L
  <2> QED BY <1>6, <1>7, <2>1, KeptSegment, SubSeqFull
<1> QED BY <1>3, <1>4, <1>5, <1>8 DEF s, t
=============================================================================
