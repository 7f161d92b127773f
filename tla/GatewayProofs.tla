--------------------------- MODULE GatewayProofs ---------------------------
(***************************************************************************)
(* The way of a stroke for any number of tabs, replicas, strokes, forwards *)
(* and elections: the fields keep their types, what a tab shows is         *)
(* committed or still in its queue (ShownIsKept), and as long as the       *)
(* dedupe table has room for every tab a stroke is drawn once              *)
(* (RetriesDrawOnce).  As long as no replica is elected again while a      *)
(* submit of its earlier leadership waits, an acknowledgement names a      *)
(* committed stroke (AckNamesCommit).                                      *)
(***************************************************************************)
EXTENDS Gateway, MachineFacts

Entry == [term : Nat, op : Stroke \cup {Noop}]

-----------------------------------------------------------------------------
(***************************************************************************)
(* Prefixes.                                                               *)
(***************************************************************************)

\* The log t begins with the entries of s.
Begins(s, t) == Len(s) <= Len(t) /\ \A k \in 1 .. Len(s) : s[k] = t[k]

\* The first entries of a log.
LEMMA TakeProperties ==
  ASSUME NEW S, NEW t \in Seq(S), NEW n \in 0 .. Len(t)
  PROVE  /\ SubSeq(t, 1, n) \in Seq(S)
         /\ Len(SubSeq(t, 1, n)) = n
         /\ \A k \in 1 .. n : SubSeq(t, 1, n)[k] = t[k]
<1>1. Len(t) \in Nat /\ n \in Int /\ 1 \in Int /\ \A k \in 1 .. n : t[k] \in S
  OBVIOUS
<1>2. /\ SubSeq(t, 1, n) \in Seq(S)
      /\ Len(SubSeq(t, 1, n)) = IF 1 <= n THEN n - 1 + 1 ELSE 0
      /\ \A k \in 1 .. n - 1 + 1 : SubSeq(t, 1, n)[k] = t[1 + k - 1]
  BY <1>1, SubSeqProperties
<1> DEFINE r == SubSeq(t, 1, n)
<1> HIDE DEF r
<1>3. r \in Seq(S) /\ Len(r) = n /\ \A k \in 1 .. n : r[k] = t[k]
  BY <1>1, <1>2 DEF r
<1> QED BY <1>3 DEF r

\* IsPrefix is that.
LEMMA PrefixBegins ==
  ASSUME NEW S, NEW s \in Seq(S), NEW t \in Seq(S), IsPrefix(s, t)
  PROVE  Begins(s, t)
<1>1. Len(s) <= Len(t) /\ SubSeq(s, 1, Len(s)) = SubSeq(t, 1, Len(s))
  BY DEF IsPrefix
<1>2. Len(s) \in 0 .. Len(s) /\ Len(s) \in 0 .. Len(t)
  BY <1>1
<1>3. \A k \in 1 .. Len(s) : SubSeq(s, 1, Len(s))[k] = s[k]
  BY <1>2, TakeProperties
<1>4. \A k \in 1 .. Len(s) : SubSeq(t, 1, Len(s))[k] = t[k]
  BY <1>2, TakeProperties
<1> QED BY <1>1, <1>3, <1>4 DEF Begins

-----------------------------------------------------------------------------
(***************************************************************************)
(* The machines of a log.                                                  *)
(***************************************************************************)

\* h[n] is the machine after the first n entries.
Machines(l, h) ==
  /\ h[0] = EmptyMachine
  /\ \A n \in 1 .. Len(l) : h[n] = apply(h[n - 1], n - 1, l[n].op)

\* The function that defines Machine exists.
LEMMA MachineExists ==
  ASSUME NEW S, NEW l \in Seq(S)
  PROVE  \E h : Machines(l, h) /\ Machine(l) = h[Len(l)]
<1> DEFINE Body(f, n) == IF n = 0 THEN EmptyMachine ELSE apply(f[n - 1], n - 1, l[n].op)
           Upto(f, n) == f = [k \in 0 .. n |-> Body(f, k)]
           P(n) == \E f : Upto(f, n)
<1>1. Len(l) \in Nat
  OBVIOUS
<1>2. P(0)
  <2> DEFINE f == [k \in 0 .. 0 |-> EmptyMachine]
  <2>1. Upto(f, 0)
    OBVIOUS
  <2> QED BY <2>1
<1>3. ASSUME NEW n \in 0 .. Len(l) - 1, P(n) PROVE P(n + 1)
  <2>1. PICK f : Upto(f, n)
    BY <1>3
  <2> DEFINE g == [k \in 0 .. n + 1 |-> IF k = n + 1 THEN Body(f, k) ELSE f[k]]
  <2>2. \A k \in 0 .. n : g[k] = f[k] /\ k \in 0 .. n + 1
    OBVIOUS
  <2>3. ASSUME NEW k \in 0 .. n + 1 PROVE g[k] = Body(g, k)
    <3>1. CASE k = n + 1
      <4>1. k - 1 \in 0 .. n /\ k # 0
        BY <3>1
      <4>2. g[k - 1] = f[k - 1] /\ g[k] = Body(f, k)
        BY <2>2, <3>1, <4>1
      <4> HIDE DEF g
      <4> QED BY <4>1, <4>2
    <3>2. CASE k \in 0 .. n
      <4>1. g[k] = f[k] /\ f[k] = Body(f, k)
        BY <2>1, <2>2, <3>2
      <4>2. k # 0 => g[k - 1] = f[k - 1]
        BY <2>2, <3>2
      <4> HIDE DEF g
      <4> QED BY <4>1, <4>2
    <3> QED BY <3>1, <3>2
  <2>4. Upto(g, n + 1)
    <3>1. g = [k \in 0 .. n + 1 |-> g[k]]
      OBVIOUS
    <3> HIDE DEF g
    <3> QED BY <2>3, <3>1
  <2> QED BY <2>4
<1> HIDE DEF P
<1> DEFINE T == {n \in 0 .. Len(l) : P(n)}
<1>4. \A n \in 0 .. Len(l) : n \in T
  <2>1. 0 \in T
    BY <1>1, <1>2
  <2>2. \A n \in 0 .. Len(l) - 1 : n \in T => n + 1 \in T
    BY <1>1, <1>3
  <2> HIDE DEF T
  <2> QED BY <1>1, <2>1, <2>2, UpToBound
<1>5. \E f : Upto(f, Len(l))
  BY <1>1, <1>4 DEF P
<1> DEFINE h == CHOOSE f : Upto(f, Len(l))
<1>6. Machine(l) = h[Len(l)]
  BY DEF Machine
<1>7. Upto(h, Len(l))
  BY <1>5
<1> HIDE DEF h
<1>8. \A n \in 0 .. Len(l) : h[n] = Body(h, n)
  BY <1>7
<1>9. Machines(l, h)
  BY <1>1, <1>8 DEF Machines
<1> QED BY <1>6, <1>9

\* The machine of a prefix is the one the log had there.
LEMMA PrefixMachine ==
  ASSUME NEW S, NEW l \in Seq(S), NEW h, Machines(l, h), NEW k \in Seq(S), Begins(k, l)
  PROVE  Machine(k) = h[Len(k)]
<1>1. PICK g : Machines(k, g) /\ Machine(k) = g[Len(k)]
  BY MachineExists
<1>2. Len(k) \in Nat /\ Len(l) \in Nat /\ Len(k) <= Len(l) /\ \A n \in 1 .. Len(k) : k[n] = l[n]
  BY DEF Begins
<1> DEFINE T == {n \in 0 .. Len(k) : g[n] = h[n]}
<1>3. 0 \in T
  BY <1>1, <1>2 DEF Machines
<1>4. ASSUME NEW n \in 0 .. Len(k) - 1, n \in T PROVE n + 1 \in T
  <2>1. n + 1 \in 1 .. Len(k) /\ n + 1 \in 1 .. Len(l) /\ (n + 1) - 1 = n /\ g[n] = h[n]
    BY <1>2, <1>4
  <2>2. g[n + 1] = apply(g[(n + 1) - 1], (n + 1) - 1, k[n + 1].op)
    BY <1>1, <2>1 DEF Machines
  <2>3. h[n + 1] = apply(h[(n + 1) - 1], (n + 1) - 1, l[n + 1].op)
    BY <2>1 DEF Machines
  <2> QED BY <1>2, <2>1, <2>2, <2>3
<1> HIDE DEF T
<1>5. \A n \in 0 .. Len(k) : n \in T
  BY <1>2, <1>3, <1>4, UpToBound
<1>6. g[Len(k)] = h[Len(k)]
  BY <1>2, <1>5 DEF T
<1> QED BY <1>1, <1>6

Drawing == [index : Nat, op : Stroke]

\* The entry of l a row of the dedupe table names is the stroke of the row.
RowNames(l, r) ==
  LET op == l[r.index + 1].op IN op \in Stroke /\ op.client = r.client /\ op.seq = r.seq

\* The machine m draws strokes of the first n entries of l, and its dedupe
\* table names strokes of tabs, each at its index in l.
Draws(l, n, m) ==
  /\ m = [strokes |-> m.strokes, dedupe |-> m.dedupe, lastApplied |-> n - 1]
  /\ m.strokes \in Seq(Drawing)
  /\ \A k \in 1 .. Len(m.strokes) : \E j \in 1 .. n : m.strokes[k].op = l[j].op
  /\ m.dedupe \in Seq(Rows(Client))
  /\ \A k \in 1 .. Len(m.dedupe) : m.dedupe[k].index < n
  /\ \A k \in 1 .. Len(m.dedupe) : RowNames(l, m.dedupe[k])

\* The fields of a stroke.
LEMMA StrokeFields ==
  ASSUME NEW op \in Stroke
  PROVE  /\ op = [client |-> op.client, seq |-> op.seq]
         /\ op.client \in Client /\ op.client # Nil /\ op.seq \in Int
         /\ op.seq \in 1 .. MaxSeq
         /\ op # Noop
BY GatewayAssumption DEF Stroke

\* What apply makes of a machine that has applied the first n entries.
LEMMA ApplyCases ==
  ASSUME NEW n \in Nat, NEW op \in Stroke \cup {Noop}, NEW m,
         m = [strokes |-> m.strokes, dedupe |-> m.dedupe, lastApplied |-> n - 1]
  PROVE  \/ /\ op = Noop \/ Seen(m, op) # {}
            /\ apply(m, n, op) = [strokes |-> m.strokes, dedupe |-> m.dedupe, lastApplied |-> n]
         \/ /\ op \in Stroke /\ Seen(m, op) = {}
            /\ apply(m, n, op) = [strokes     |-> Append(m.strokes, [index |-> n, op |-> op]),
                                  dedupe      |-> touchDedupe(m.dedupe, op, n),
                                  lastApplied |-> n]
<1>1. ~(n <= m.lastApplied)
  <2>1. m.lastApplied = n - 1
    OBVIOUS
  <2> QED BY <2>1
<1>2. CASE op = Noop \/ Seen(m, op) # {}
  <2>1. op = Noop \/ (Keyed(op) /\ Seen(m, op) # {})
    BY <1>2, StrokeFields DEF Keyed
  <2>2. apply(m, n, op) = [m EXCEPT !.lastApplied = n]
    BY <1>1, <2>1 DEF apply
  <2>3. [m EXCEPT !.lastApplied = n]
          = [strokes |-> m.strokes, dedupe |-> m.dedupe, lastApplied |-> n]
    OBVIOUS
  <2> QED BY <1>2, <2>2, <2>3
<1>3. CASE ~(op = Noop \/ Seen(m, op) # {})
  <2>1. op \in Stroke /\ Keyed(op)
    BY <1>3, StrokeFields DEF Keyed
  <2>2. apply(m, n, op) = [strokes     |-> Append(m.strokes, [index |-> n, op |-> op]),
                           dedupe      |-> touchDedupe(m.dedupe, op, n),
                           lastApplied |-> n]
    BY <1>1, <1>3, <2>1 DEF apply
  <2> QED BY <1>3, <2>1, <2>2
<1> QED BY <1>2, <1>3

\* The row touchDedupe puts at the end.
LEMMA TouchedRow ==
  ASSUME NEW op \in Stroke, NEW n \in Nat
  PROVE  /\ [client |-> op.client, seq |-> op.seq, index |-> n] \in Rows(Client)
         /\ [index |-> n, op |-> op] \in Drawing
BY StrokeFields DEF Rows, Drawing

\* Every row of a table whose key moved was there before or is the new one.
LEMMA MovedRows ==
  ASSUME NEW C, NEW t \in Seq(Rows(C)), NEW e, NEW r, Moved(C, t, e, r)
  PROVE  /\ r \in Seq(Rows(C))
         /\ \A k \in 1 .. Len(r) : r[k] = e \/ \E j \in 1 .. Len(t) : r[k] = t[j]
<1>1. PICK u : /\ Removed(C, t, e.client, u)
               /\ r \in Seq(Rows(C))
               /\ \/ /\ Len(u) < dedupeMaxClients
                     /\ Len(r) = Len(u) + 1
                     /\ \A k \in 1 .. Len(u) : r[k] = u[k]
                  \/ /\ Len(u) >= dedupeMaxClients
                     /\ Len(r) = Len(u)
                     /\ \A k \in 1 .. Len(u) - 1 : r[k] = u[k + 1]
               /\ r[Len(r)] = e
  BY DEF Moved
<1>2. Len(t) \in Nat /\ Len(r) \in Nat
  BY <1>1
<1>3. Len(u) \in Nat /\ \A k \in 1 .. Len(u) : \E j \in 1 .. Len(t) : u[k] = t[j]
  <2>1. CASE u = t
    BY <1>2, <2>1
  <2>2. ASSUME NEW p \in 1 .. Len(t), u \in Seq(Rows(C)), Len(u) = Len(t) - 1,
               \A k \in 1 .. Len(t) - 1 : u[k] = IF k < p THEN t[k] ELSE t[k + 1]
        PROVE  Len(u) \in Nat /\ \A k \in 1 .. Len(u) : \E j \in 1 .. Len(t) : u[k] = t[j]
    <3>1. ASSUME NEW k \in 1 .. Len(u) PROVE \E j \in 1 .. Len(t) : u[k] = t[j]
      <4>1. k \in 1 .. Len(t) /\ k + 1 \in 1 .. Len(t) /\ (u[k] = t[k] \/ u[k] = t[k + 1])
        BY <1>2, <2>2
      <4> QED BY <4>1
    <3> QED BY <1>2, <2>2, <3>1
  <2> QED BY <1>1, <2>1, <2>2 DEF Removed
<1>4. ASSUME NEW k \in 1 .. Len(r), k # Len(r) PROVE \E j \in 1 .. Len(u) : r[k] = u[j]
  <2>1. CASE Len(r) = Len(u) + 1 /\ \A j \in 1 .. Len(u) : r[j] = u[j]
    <3>1. k \in 1 .. Len(u)
      BY <1>2, <1>3, <1>4, <2>1
    <3> QED BY <2>1, <3>1
  <2>2. CASE Len(r) = Len(u) /\ \A j \in 1 .. Len(u) - 1 : r[j] = u[j + 1]
    <3>1. k \in 1 .. Len(u) - 1 /\ k + 1 \in 1 .. Len(u)
      BY <1>2, <1>3, <1>4, <2>2
    <3> QED BY <2>2, <3>1
  <2> QED BY <1>1, <2>1, <2>2
<1> QED BY <1>1, <1>3, <1>4

\* A machine that applies the next entry draws strokes of one entry more.
LEMMA ApplyDraws ==
  ASSUME NEW n \in Nat, NEW l, l[n + 1].op \in Stroke \cup {Noop}, NEW m, Draws(l, n, m)
  PROVE  Draws(l, n + 1, apply(m, n, l[n + 1].op))
<1> DEFINE op == l[n + 1].op
           r == apply(m, n, op)
<1>1. /\ m = [strokes |-> m.strokes, dedupe |-> m.dedupe, lastApplied |-> n - 1]
      /\ m.strokes \in Seq(Drawing) /\ Len(m.strokes) \in Nat
      /\ m.dedupe \in Seq(Rows(Client))
      /\ \A k \in 1 .. Len(m.strokes) : \E j \in 1 .. n : m.strokes[k].op = l[j].op
      /\ \A k \in 1 .. Len(m.dedupe) : m.dedupe[k].index < n
      /\ \A k \in 1 .. Len(m.dedupe) : RowNames(l, m.dedupe[k])
  BY DEF Draws
<1>2. \A k \in 1 .. n : k \in 1 .. n + 1
  OBVIOUS
<1>3. \A k \in 1 .. Len(m.dedupe) : m.dedupe[k].index < n + 1
  BY <1>1, RowFields
<1>4. op \in Stroke \cup {Noop}
  OBVIOUS
<1> HIDE DEF op
<1>5. CASE r = [strokes |-> m.strokes, dedupe |-> m.dedupe, lastApplied |-> n]
  <2>1. r.strokes = m.strokes /\ r.dedupe = m.dedupe /\ (n + 1) - 1 = n
    BY <1>5
  <2> HIDE DEF r
  <2>2. Draws(l, n + 1, r)
    BY <1>1, <1>2, <1>3, <1>5, <2>1 DEF Draws
  <2> QED BY <2>2 DEF r, op
<1>6. CASE /\ op \in Stroke
           /\ r = [strokes     |-> Append(m.strokes, [index |-> n, op |-> op]),
                   dedupe      |-> touchDedupe(m.dedupe, op, n),
                   lastApplied |-> n]
  <2> DEFINE d == [index |-> n, op |-> op]
             e == [client |-> op.client, seq |-> op.seq, index |-> n]
             t == touchDedupe(m.dedupe, op, n)
             s == Append(m.strokes, d)
  <2>1. r.strokes = s /\ r.dedupe = t /\ (n + 1) - 1 = n
    BY <1>6
  <2>2. r = [strokes |-> s, dedupe |-> t, lastApplied |-> n]
    BY <1>6
  <2>3. d \in Drawing /\ e \in Rows(Client) /\ d.op = op /\ e.index = n
    BY <1>6, TouchedRow
  <2>4. Moved(Client, m.dedupe, e, t)
    BY <1>1, <2>3, TouchMoves
  <2> HIDE DEF r, t, d, e
  <2>5. /\ s \in Seq(Drawing) /\ Len(s) = Len(m.strokes) + 1
        /\ \A k \in 1 .. Len(m.strokes) : s[k] = m.strokes[k]
        /\ s[Len(m.strokes) + 1] = d
    BY <1>1, <2>3, AppendProperties
  <2> HIDE DEF s
  <2>6. ASSUME NEW k \in 1 .. Len(s) PROVE \E j \in 1 .. n + 1 : s[k].op = l[j].op
    <3>1. CASE k = Len(m.strokes) + 1
      <4>1. n + 1 \in 1 .. n + 1 /\ s[k].op = l[n + 1].op
        BY <2>3, <2>5, <3>1 DEF op
      <4> QED BY <4>1
    <3>2. CASE k \in 1 .. Len(m.strokes)
      BY <1>1, <1>2, <2>5, <3>2
    <3> QED BY <1>1, <2>5, <3>1, <3>2
  <2>7. t \in Seq(Rows(Client))
    BY <1>1, <2>4, MovedRows
  <2>8. ASSUME NEW k \in 1 .. Len(t) PROVE t[k].index < n + 1
    <3>1. t[k] = e \/ \E j \in 1 .. Len(m.dedupe) : t[k] = m.dedupe[j]
      BY <1>1, <2>4, MovedRows
    <3> QED BY <1>3, <2>3, <3>1
  <2>9. RowNames(l, e)
    <3>1. l[e.index + 1].op = op /\ e.client = op.client /\ e.seq = op.seq
      BY <2>3 DEF op, e
    <3> QED BY <1>6, <3>1 DEF RowNames
  <2>10. ASSUME NEW k \in 1 .. Len(t) PROVE RowNames(l, t[k])
    <3>1. t[k] = e \/ \E j \in 1 .. Len(m.dedupe) : t[k] = m.dedupe[j]
      BY <1>1, <2>4, MovedRows
    <3> QED BY <1>1, <2>9, <3>1
  <2>11. Draws(l, n + 1, r)
    BY <2>1, <2>2, <2>5, <2>6, <2>7, <2>8, <2>10 DEF Draws
  <2> QED BY <2>11 DEF r, op
<1> QED BY <1>1, <1>4, <1>5, <1>6, ApplyCases

\* Every machine of a log draws strokes of the log.
LEMMA MachinesDraw ==
  ASSUME NEW l \in Seq(Entry), NEW h, Machines(l, h)
  PROVE  \A n \in 0 .. Len(l) : Draws(l, n, h[n])
<1> DEFINE T == {n \in 0 .. Len(l) : Draws(l, n, h[n])}
<1>1. Len(l) \in Nat
  OBVIOUS
<1>2. 0 \in T
  <2> DEFINE m == EmptyMachine
  <2>1. m.strokes = <<>> /\ m.dedupe = <<>> /\ m.lastApplied = -1
    BY DEF EmptyMachine
  <2>2. m = [strokes |-> m.strokes, dedupe |-> m.dedupe, lastApplied |-> 0 - 1]
    BY DEF EmptyMachine
  <2> HIDE DEF m
  <2>3. Draws(l, 0, m)
    BY <2>1, <2>2 DEF Draws
  <2>4. h[0] = m
    BY DEF Machines, m
  <2> QED BY <1>1, <2>3, <2>4
<1>3. ASSUME NEW n \in 0 .. Len(l) - 1, n \in T PROVE n + 1 \in T
  <2>1. n \in Nat /\ n + 1 \in 1 .. Len(l) /\ n + 1 \in 0 .. Len(l) /\ (n + 1) - 1 = n
    BY <1>1
  <2>2. Draws(l, n, h[n])
    BY <1>3
  <2>3. l[n + 1].op \in Stroke \cup {Noop}
    <3>1. l[n + 1] \in Entry
      BY <2>1
    <3> QED BY <3>1 DEF Entry
  <2>4. h[n + 1] = apply(h[n], n, l[n + 1].op)
    <3>1. h[n + 1] = apply(h[(n + 1) - 1], (n + 1) - 1, l[n + 1].op)
      BY <2>1 DEF Machines
    <3> QED BY <2>1, <3>1
  <2>5. Draws(l, n + 1, h[n + 1])
    BY <2>1, <2>2, <2>3, <2>4, ApplyDraws
  <2> QED BY <2>1, <2>5
<1> HIDE DEF T
<1>4. \A n \in 0 .. Len(l) : n \in T
  BY <1>1, <1>2, <1>3, UpToBound
<1> QED BY <1>4 DEF T

\* So does the machine of the first n entries.
LEMMA MachineDraws ==
  ASSUME NEW l \in Seq(Entry), NEW n \in 0 .. Len(l)
  PROVE  Draws(l, n, Machine(SubSeq(l, 1, n)))
<1> DEFINE k == SubSeq(l, 1, n)
<1>1. k \in Seq(Entry) /\ Len(k) = n /\ \A j \in 1 .. n : k[j] = l[j]
  BY TakeProperties
<1>2. PICK h : Machines(l, h)
  BY MachineExists
<1> HIDE DEF k
<1>3. Begins(k, l)
  BY <1>1 DEF Begins
<1>4. Machine(k) = h[n]
  BY <1>1, <1>2, <1>3, PrefixMachine
<1>5. Draws(l, n, h[n])
  BY <1>2, MachinesDraw
<1> QED BY <1>4, <1>5 DEF k

\* The index a machine has for a stroke.
LEMMA CachedIndex ==
  ASSUME NEW l, NEW n, NEW m, Draws(l, n, m), NEW op
  PROVE  getDedupeIndex(m, op) \in Nat \cup {Nil}
<1>1. CASE Seen(m, op) = {}
  BY <1>1 DEF getDedupeIndex
<1>2. CASE Seen(m, op) # {}
  <2> DEFINE k == CHOOSE k \in Seen(m, op) : TRUE
  <2>1. k \in Seen(m, op) /\ getDedupeIndex(m, op) = m.dedupe[k].index
    BY <1>2 DEF getDedupeIndex
  <2> HIDE DEF k
  <2>2. k \in 1 .. Len(m.dedupe)
    BY <2>1 DEF Seen
  <2>3. m.dedupe[k].index \in Nat
    BY <2>2, RowFields DEF Draws
  <2> QED BY <2>1, <2>3
<1> QED BY <1>1, <1>2

-----------------------------------------------------------------------------
(***************************************************************************)
(* The inductive invariant: the logs of the leaders, what is committed,    *)
(* and what the tabs, the gateway and the posts have of it.                *)
(***************************************************************************)

\* A term is won once.
TermsOK ==
  /\ ledIn \in [Server -> 0 .. MaxTerm]
  /\ \A i, j \in Server : ledIn[i] = ledIn[j] /\ ledIn[i] > 0 => i = j

LogsOK ==
  /\ logs \in [Server -> Seq(Entry)]
  /\ committed \in Seq(Entry)
  /\ lastApplied \in [Server -> Int]
  /\ \A i \in Server : lastApplied[i] \in -1 .. Len(committed) - 1

\* The logs l of all that led in the term of the last entry of c, or later,
\* begin with c.
InLaterLogs(c, led, l) ==
  c # <<>> =>
    /\ \E j \in Server : led[j] >= c[Len(c)].term
    /\ \A j \in Server : led[j] >= c[Len(c)].term => Begins(c, l[j])

CommittedOK == InLaterLogs(committed, ledIn, logs)

LeadersOK ==
  /\ leaders \subseteq Led /\ registrations \subseteq Led
  /\ currentLeader \in Led \cup {Nil}

IsCommitted(s) == \E n \in 1 .. Len(committed) : committed[n].op = s

TabsOK ==
  /\ seqCounter \in [Client -> 0 .. MaxSeq]
  /\ DOMAIN pendingStrokes = Client /\ DOMAIN wire = Client /\ DOMAIN shown = Client
  /\ \A c \in Client : /\ pendingStrokes[c] \in Seq(1 .. seqCounter[c])
                       /\ wire[c] \in Seq(1 .. MaxSeq)
                       /\ shown[c] \subseteq Stroke

Forward(f) ==
  /\ {"op", "attempt", "index"} \subseteq DOMAIN f
  /\ f.op \in Stroke /\ f.attempt \in 0 .. 2 /\ f.index \in Nat \cup {-1}

RequestsOK ==
  /\ \A f \in forwards : Forward(f)
  /\ \A s \in late : s.op \in Stroke
  /\ \A b \in broadcasts : b \in Stroke /\ IsCommitted(b)

ReplicasOK == TermsOK /\ LogsOK /\ CommittedOK
GatewayInv == ReplicasOK /\ LeadersOK /\ TabsOK /\ RequestsOK /\ ShownIsKept

\* The invariant holds when nothing was drawn yet.
LEMMA GatewayInvInit == Init => GatewayInv
<1> SUFFICES ASSUME Init PROVE GatewayInv
  OBVIOUS
<1>1. MaxTerm \in Nat /\ MaxSeq \in Nat
  BY GatewayAssumption
<1>2. TermsOK
  BY <1>1 DEF Init, TermsOK
<1>3. LogsOK /\ CommittedOK
  BY DEF Init, LogsOK, CommittedOK, InLaterLogs
<1>4. LeadersOK
  BY DEF Init, LeadersOK
<1>5. TabsOK
  BY <1>1 DEF Init, TabsOK
<1>6. RequestsOK /\ ShownIsKept
  BY DEF Init, RequestsOK, ShownIsKept
<1> QED BY <1>2, <1>3, <1>4, <1>5, <1>6 DEF GatewayInv, ReplicasOK

-----------------------------------------------------------------------------
(***************************************************************************)
(* The steps of the replicas.                                              *)
(***************************************************************************)

\* What was appended to a log leaves its beginning.
LEMMA BeginsAppend ==
  ASSUME NEW S, NEW a \in Seq(S), NEW b \in Seq(S), NEW e \in S, Begins(a, b)
  PROVE  Begins(a, Append(b, e))
<1>1. Len(a) \in Nat /\ Len(b) \in Nat
  OBVIOUS
<1>2. Len(Append(b, e)) = Len(b) + 1 /\ \A k \in 1 .. Len(b) : Append(b, e)[k] = b[k]
  BY AppendProperties
<1>3. \A k \in 1 .. Len(a) : k \in 1 .. Len(b)
  BY <1>1 DEF Begins
<1> QED BY <1>1, <1>2, <1>3 DEF Begins

\* A leader that appends a stroke.
LEMMA AppendReplicas ==
  ASSUME ReplicasOK, NEW i \in Server, NEW op \in Stroke, appendStroke(i, op),
         UNCHANGED <<ledIn, committed, lastApplied>>
  PROVE  ReplicasOK'
<1>1. TermsOK /\ LogsOK /\ CommittedOK
  BY DEF ReplicasOK
<1> DEFINE e == [term |-> ledIn[i], op |-> op]
<1>2. e \in Entry
  BY <1>1, GatewayAssumption DEF Entry, TermsOK
<1>3. logs' = [logs EXCEPT ![i] = Append(@, e)]
  BY DEF appendStroke
<1> HIDE DEF e
<1>4. logs' \in [Server -> Seq(Entry)]
  <2>1. Append(logs[i], e) \in Seq(Entry)
    BY <1>1, <1>2, AppendProperties DEF LogsOK
  <2> QED BY <1>1, <1>3, <2>1 DEF LogsOK
<1>5. ASSUME NEW j \in Server, Begins(committed, logs[j]) PROVE Begins(committed, logs'[j])
  <2>1. logs[j] \in Seq(Entry) /\ committed \in Seq(Entry)
    BY <1>1 DEF LogsOK
  <2>2. logs'[j] = IF j = i THEN Append(logs[j], e) ELSE logs[j]
    BY <1>1, <1>3 DEF LogsOK
  <2> QED BY <1>2, <1>5, <2>1, <2>2, BeginsAppend
<1>6. TermsOK' /\ LogsOK'
  BY <1>1, <1>4 DEF TermsOK, LogsOK
<1>7. CommittedOK'
  BY <1>1, <1>5 DEF CommittedOK, InLaterLogs
<1> QED BY <1>6, <1>7 DEF ReplicasOK

\* Of two beginnings of a log one begins with the other.
LEMMA BeginningsCompare ==
  ASSUME NEW S, NEW a \in Seq(S), NEW b \in Seq(S), NEW l, Begins(a, l), Begins(b, l)
  PROVE  IF Len(a) <= Len(b) THEN Begins(a, b) ELSE Begins(b, a)
<1>1. Len(a) \in Nat /\ Len(b) \in Nat
  OBVIOUS
<1>2. \A k \in 1 .. Len(a) : Len(a) <= Len(b) => k \in 1 .. Len(b)
  BY <1>1
<1>3. \A k \in 1 .. Len(b) : Len(b) <= Len(a) => k \in 1 .. Len(a)
  BY <1>1
<1> QED BY <1>1, <1>2, <1>3 DEF Begins

\* What leader i commits and what is committed: one begins with the other.
LEMMA CommitCompares ==
  ASSUME ReplicasOK, NEW i \in Server, NEW p \in Seq(Entry), Begins(p, logs[i]),
         \A j \in Server : ledIn[j] > ledIn[i] => Begins(p, logs[j])
  PROVE  IF Len(committed) <= Len(p) THEN Begins(committed, p) ELSE Begins(p, committed)
<1>1. committed \in Seq(Entry) /\ Len(committed) \in Nat /\ Len(p) \in Nat
  BY DEF ReplicasOK, LogsOK
<1>2. CASE committed = <<>>
  BY <1>1, <1>2 DEF Begins
<1>3. CASE committed # <<>>
  <2> DEFINE T == committed[Len(committed)].term
  <2>1. PICK j \in Server : ledIn[j] >= T
    BY <1>3 DEF ReplicasOK, CommittedOK, InLaterLogs
  <2>2. \A k \in Server : ledIn[k] >= T => Begins(committed, logs[k])
    BY <1>3 DEF ReplicasOK, CommittedOK, InLaterLogs
  <2>3. T \in Int /\ ledIn[i] \in Int /\ ledIn[j] \in Int
    <3>1. committed[Len(committed)] \in Entry
      BY <1>1, <1>3
    <3>2. T \in Nat
      BY <3>1 DEF Entry
    <3> QED BY <3>2 DEF ReplicasOK, TermsOK
  <2> HIDE DEF T
  <2>4. CASE ledIn[i] >= T
    <3>1. Begins(committed, logs[i])
      BY <2>2, <2>4
    <3> QED BY <1>1, <3>1, BeginningsCompare
  <2>5. CASE ~(ledIn[i] >= T)
    <3>1. ledIn[j] > ledIn[i]
      BY <2>1, <2>3, <2>5
    <3>2. Begins(committed, logs[j]) /\ Begins(p, logs[j])
      BY <2>1, <2>2, <3>1
    <3> QED BY <1>1, <3>2, BeginningsCompare
  <2> QED BY <2>4, <2>5
<1> QED BY <1>2, <1>3

\* Leader i has committed the entries up to n: what was committed is the
\* beginning of what is, and so are its entries.
Commits(i, n) ==
  /\ Begins(committed, committed')
  /\ \A k \in 1 .. n + 1 : k \in 1 .. Len(committed') /\ committed'[k] = logs[i][k]

\* A commit adds to what is committed, and the logs of all that led in its
\* term or later begin with it.
LEMMA CommitReplicas ==
  ASSUME ReplicasOK, LeadersOK, NEW i \in leaders, NEW n \in 0 .. Len(logs[i]) - 1, Commit(i, n)
  PROVE  ReplicasOK' /\ Commits(i, n)
<1> DEFINE p == SubSeq(logs[i], 1, n + 1)
<1>1. TermsOK /\ LogsOK /\ CommittedOK
  BY DEF ReplicasOK
<1>2. i \in Server /\ ledIn[i] > 0 /\ ledIn[i] \in Nat /\ \A j \in Server : ledIn[j] \in Nat
  BY <1>1, GatewayAssumption DEF LeadersOK, Led, TermsOK
<1>3. logs[i] \in Seq(Entry) /\ Len(logs[i]) \in Nat /\ n + 1 \in 0 .. Len(logs[i]) /\ n \in Nat
  BY <1>1, <1>2 DEF LogsOK
<1>4. /\ logs[i][n + 1].term = ledIn[i]
      /\ \A j \in Server : ledIn[j] > ledIn[i] => IsPrefix(p, logs[j])
      /\ committed' = IF Len(p) > Len(committed) THEN p ELSE committed
      /\ lastApplied' = [lastApplied EXCEPT ![i] = n]
      /\ ledIn' = ledIn /\ logs' = logs
  BY DEF Commit
<1>5. p \in Seq(Entry) /\ Len(p) = n + 1 /\ \A k \in 1 .. n + 1 : p[k] = logs[i][k]
  BY <1>3, TakeProperties
<1> HIDE DEF p
<1>6. Begins(p, logs[i])
  BY <1>3, <1>5 DEF Begins
<1>7. ASSUME NEW j \in Server, ledIn[j] > ledIn[i] PROVE Begins(p, logs[j])
  <2>1. logs[j] \in Seq(Entry) /\ IsPrefix(p, logs[j])
    BY <1>1, <1>4, <1>7 DEF LogsOK
  <2> QED BY <1>5, <2>1, PrefixBegins
<1>8. IF Len(committed) <= Len(p) THEN Begins(committed, p) ELSE Begins(p, committed)
  BY <1>2, <1>5, <1>6, <1>7, CommitCompares
<1>9. InLaterLogs(p, ledIn, logs)
  <2>1. p[Len(p)].term = ledIn[i]
    BY <1>3, <1>4, <1>5
  <2>2. ASSUME NEW j \in Server, ledIn[j] >= ledIn[i] PROVE Begins(p, logs[j])
    <3>1. CASE ledIn[j] = ledIn[i]
      BY <1>1, <1>2, <1>6, <3>1 DEF TermsOK
    <3>2. CASE ledIn[j] > ledIn[i]
      BY <1>7, <3>2
    <3> QED BY <1>2, <2>2, <3>1, <3>2
  <2> QED BY <1>2, <2>1, <2>2 DEF InLaterLogs
<1>10. committed \in Seq(Entry) /\ Len(committed) \in Nat
  BY <1>1 DEF LogsOK
<1>11. /\ committed' \in Seq(Entry)
       /\ Begins(committed, committed') /\ Begins(p, committed')
       /\ InLaterLogs(committed', ledIn, logs)
  <2>1. CASE Len(p) > Len(committed)
    <3>1. Begins(committed, p) /\ Begins(p, p)
      BY <1>5, <1>8, <1>10, <2>1 DEF Begins
    <3> QED BY <1>4, <1>5, <1>9, <2>1, <3>1
  <2>2. CASE ~(Len(p) > Len(committed))
    <3>1. Begins(p, committed) /\ Begins(committed, committed)
      BY <1>3, <1>5, <1>8, <1>10, <2>2 DEF Begins
    <3> QED BY <1>1, <1>4, <1>10, <2>2, <3>1 DEF CommittedOK
  <2> QED BY <2>1, <2>2
<1>12. Commits(i, n)
  <2>1. Len(committed') \in Nat
    BY <1>11
  <2> QED BY <1>3, <1>5, <1>11, <2>1 DEF Commits, Begins
<1>13. LogsOK'
  <2>1. Len(committed') \in Nat /\ Len(committed) <= Len(committed') /\ n + 1 <= Len(committed')
    BY <1>3, <1>5, <1>11 DEF Begins
  <2>2. lastApplied' \in [Server -> Int]
    <3>1. lastApplied \in [Server -> Int] /\ n \in Int
      BY <1>1, <1>3 DEF LogsOK
    <3> QED BY <1>4, <3>1
  <2>3. ASSUME NEW j \in Server PROVE lastApplied'[j] \in -1 .. Len(committed') - 1
    <3>1. lastApplied'[j] = IF j = i THEN n ELSE lastApplied[j]
      BY <1>1, <1>4 DEF LogsOK
    <3>2. lastApplied[j] \in -1 .. Len(committed) - 1
      BY <1>1 DEF LogsOK
    <3> QED BY <1>3, <1>10, <2>1, <3>1, <3>2
  <2> QED BY <1>1, <1>4, <1>11, <2>2, <2>3 DEF LogsOK
<1>14. TermsOK' /\ CommittedOK'
  BY <1>1, <1>4, <1>11 DEF TermsOK, CommittedOK, InLaterLogs, Begins
<1> QED BY <1>12, <1>13, <1>14 DEF ReplicasOK

\* The term of an election is above all before, and the log has what is
\* committed.
LEMMA ElectedReplicas ==
  ASSUME ReplicasOK, NEW i \in Server, NEW j \in Server, NEW kept \in 0 .. Len(logs[j]),
         Elected(i, j, kept)
  PROVE  /\ ReplicasOK'
         /\ ledIn'[i] > 0 /\ ledIn'[i] # ledIn[i]
         /\ \A k \in Server : k # i => ledIn'[k] = ledIn[k]
<1> DEFINE S == {ledIn[k] : k \in Server}
           term == Max(S) + 1
           l == SubSeq(logs[j], 1, kept)
           e == [term |-> term, op |-> Noop]
<1>1. TermsOK /\ LogsOK /\ CommittedOK /\ MaxTerm \in Nat
  BY GatewayAssumption DEF ReplicasOK
<1>2. Max(S) \in Nat /\ \A k \in Server : ledIn[k] <= Max(S)
  <2>1. S \subseteq 0 .. MaxTerm /\ S # {}
    BY <1>1 DEF TermsOK
  <2> HIDE DEF S
  <2>2. \E x \in S : \A y \in S : x >= y
    BY <1>1, <2>1, GreatestNatural
  <2>3. Max(S) \in S /\ \A y \in S : Max(S) >= y
    BY <2>2 DEF Max
  <2>4. \A k \in Server : ledIn[k] \in S /\ ledIn[k] \in Nat
    BY <1>1 DEF S, TermsOK
  <2> DEFINE x == Max(S)
  <2> HIDE DEF x
  <2>5. x \in 0 .. MaxTerm /\ \A y \in S : x >= y
    BY <2>1, <2>3 DEF x
  <2>6. x \in Nat /\ \A k \in Server : ledIn[k] <= x
    BY <1>1, <2>4, <2>5
  <2> QED BY <2>6 DEF x
<1>3. /\ term <= MaxTerm
      /\ IsPrefix(committed, l)
      /\ ledIn' = [ledIn EXCEPT ![i] = term]
      /\ logs' = [logs EXCEPT ![i] = Append(l, e)]
      /\ committed' = committed /\ lastApplied' = lastApplied
  BY DEF Elected
<1> HIDE DEF S
<1>4. /\ term \in Nat /\ term > 0 /\ e \in Entry
      /\ \A k \in Server : ledIn[k] \in Nat /\ ledIn[k] < term
  BY <1>1, <1>2 DEF Entry, TermsOK
<1> HIDE DEF term, e
<1>5. TermsOK'
  <2>1. ledIn' \in [Server -> 0 .. MaxTerm]
    BY <1>1, <1>3, <1>4 DEF TermsOK
  <2>2. \A k \in Server : ledIn'[k] = IF k = i THEN term ELSE ledIn[k]
    BY <1>1, <1>3 DEF TermsOK
  <2> QED BY <1>1, <1>4, <2>1, <2>2 DEF TermsOK
<1>6. l \in Seq(Entry) /\ committed \in Seq(Entry) /\ Append(l, e) \in Seq(Entry)
  <2>1. logs[j] \in Seq(Entry)
    BY <1>1 DEF LogsOK
  <2>2. l \in Seq(Entry)
    BY <2>1, TakeProperties
  <2> HIDE DEF l
  <2> QED BY <1>1, <1>4, <2>2, AppendProperties DEF LogsOK
<1> HIDE DEF l
<1>7. LogsOK'
  BY <1>1, <1>3, <1>6 DEF LogsOK
<1>8. Begins(committed, Append(l, e))
  <2>1. Begins(committed, l)
    BY <1>3, <1>6, PrefixBegins
  <2> QED BY <1>4, <1>6, <2>1, BeginsAppend
<1>9. CommittedOK'
  <2> SUFFICES ASSUME committed # <<>> PROVE InLaterLogs(committed, ledIn', logs')
    BY <1>3 DEF CommittedOK, InLaterLogs, Begins
  <2> DEFINE T == committed[Len(committed)].term
  <2>1. /\ \E k \in Server : ledIn[k] >= T
        /\ \A k \in Server : ledIn[k] >= T => Begins(committed, logs[k])
    BY <1>1 DEF CommittedOK, InLaterLogs
  <2>2. T \in Int
    <3>1. committed[Len(committed)] \in Entry
      BY <1>6
    <3> QED BY <3>1 DEF Entry
  <2> HIDE DEF T
  <2>3. \A k \in Server : /\ ledIn'[k] = IF k = i THEN term ELSE ledIn[k]
                          /\ logs'[k] = IF k = i THEN Append(l, e) ELSE logs[k]
    BY <1>1, <1>3 DEF TermsOK, LogsOK
  <2>4. \E k \in Server : ledIn'[k] >= T
    <3>1. PICK k \in Server : ledIn[k] >= T
      BY <2>1
    <3>2. ledIn'[k] >= T
      BY <1>4, <2>2, <2>3, <3>1
    <3> QED BY <3>2
  <2>5. \A k \in Server : ledIn'[k] >= T => Begins(committed, logs'[k])
    BY <1>8, <2>1, <2>3
  <2> QED BY <2>4, <2>5 DEF InLaterLogs, T
<1>10. /\ ledIn'[i] > 0 /\ ledIn'[i] # ledIn[i]
       /\ \A k \in Server : k # i => ledIn'[k] = ledIn[k]
  BY <1>1, <1>3, <1>4 DEF TermsOK
<1> QED BY <1>5, <1>7, <1>9, <1>10 DEF ReplicasOK

-----------------------------------------------------------------------------
(***************************************************************************)
(* The steps of the tabs.                                                  *)
(***************************************************************************)

\* Taking the echo of x off the queue leaves the others in it.
LEMMA RemoveFirstKeeps ==
  ASSUME NEW S, NEW q \in Seq(S), NEW x
  PROVE  /\ RemoveFirst(q, x) \in Seq(S)
         /\ \A y : Contains(q, y) /\ y # x => Contains(RemoveFirst(q, x), y)
<1> DEFINE I == {k \in 1 .. Len(q) : q[k] = x}
           p == Min(I)
           r == RemoveAt(q, p)
<1>1. Len(q) \in Nat
  OBVIOUS
<1>2. CASE I = {}
  <2>1. RemoveFirst(q, x) = q
    BY <1>2 DEF RemoveFirst
  <2> QED BY <2>1
<1>3. CASE I # {}
  <2>1. RemoveFirst(q, x) = r
    BY <1>3 DEF RemoveFirst, SelectInSeq
  <2>2. p \in I
    <3>1. I \subseteq Nat
      OBVIOUS
    <3> HIDE DEF I
    <3>2. \E k \in I : \A j \in I : k <= j
      BY <1>3, <3>1, LeastNatural
    <3> QED BY <3>2 DEF Min
  <2>3. p \in 1 .. Len(q) /\ q[p] = x
    BY <2>2
  <2> HIDE DEF p
  <2>4. /\ r \in Seq(S) /\ Len(r) = Len(q) - 1
        /\ \A k \in 1 .. Len(q) - 1 : r[k] = IF k < p THEN q[k] ELSE q[k + 1]
    BY <2>3, RemoveAtProperties
  <2> HIDE DEF r
  <2>5. ASSUME NEW k \in 1 .. Len(q), q[k] # x PROVE \E j \in 1 .. Len(r) : r[j] = q[k]
    <3>1. CASE k < p
      <4>1. k \in 1 .. Len(r) /\ k \in 1 .. Len(q) - 1
        BY <1>1, <2>3, <2>4, <3>1
      <4> QED BY <2>4, <3>1, <4>1
    <3>2. CASE k > p
      <4>1. /\ k - 1 \in 1 .. Len(r) /\ k - 1 \in 1 .. Len(q) - 1
            /\ ~(k - 1 < p) /\ (k - 1) + 1 = k
        BY <1>1, <2>3, <2>4, <3>2
      <4> QED BY <2>4, <4>1
    <3> QED BY <2>3, <2>5, <3>1, <3>2
  <2>6. \A y : Contains(q, y) /\ y # x => Contains(r, y)
    BY <2>5 DEF Contains
  <2> QED BY <2>1, <2>4, <2>6
<1> QED BY <1>2, <1>3

\* A queue with one stroke more.
LEMMA AppendContains ==
  ASSUME NEW S, NEW q \in Seq(S), NEW x \in S
  PROVE  /\ Contains(Append(q, x), x)
         /\ \A y : Contains(q, y) => Contains(Append(q, x), y)
<1>1. /\ Len(q) \in Nat /\ Len(Append(q, x)) = Len(q) + 1
      /\ \A k \in 1 .. Len(q) : Append(q, x)[k] = q[k]
      /\ Append(q, x)[Len(q) + 1] = x
  BY AppendProperties
<1> DEFINE r == Append(q, x)
<1> HIDE DEF r
<1>2. Len(q) + 1 \in 1 .. Len(r) /\ \A k \in 1 .. Len(q) : k \in 1 .. Len(r)
  BY <1>1 DEF r
<1>3. r[Len(q) + 1] = x /\ \A k \in 1 .. Len(q) : r[k] = q[k]
  BY <1>1 DEF r
<1>4. Contains(r, x) /\ \A y : Contains(q, y) => Contains(r, y)
  BY <1>2, <1>3 DEF Contains
<1> QED BY <1>4 DEF r

\* Sequences over a part of a set are sequences over the set.
LEMMA WiderSeq ==
  ASSUME NEW S, NEW T, S \subseteq T, NEW s \in Seq(S)
  PROVE  s \in Seq(T)
<1>1. 1 \in Int /\ Len(s) \in Int /\ \A k \in 1 .. Len(s) : s[k] \in T
  OBVIOUS
<1>2. SubSeq(s, 1, Len(s)) \in Seq(T)
  BY <1>1, SubSeqProperties
<1> QED BY <1>2, SubSeqFull

\* The replicas do nothing.
LEMMA SameReplicas ==
  ASSUME ReplicasOK, UNCHANGED <<ledIn, logs, committed, lastApplied>>
  PROVE  /\ ReplicasOK'
         /\ UNCHANGED <<leaders, registrations, currentLeader>> /\ LeadersOK => LeadersOK'
BY DEF ReplicasOK, TermsOK, LogsOK, CommittedOK, InLaterLogs, Begins, LeadersOK, Led

\* What was committed stays committed.
LEMMA StaysCommitted ==
  ASSUME ReplicasOK, ReplicasOK', Begins(committed, committed')
  PROVE  \A s : IsCommitted(s) => IsCommitted(s)'
<1>1. Len(committed) \in Nat /\ Len(committed') \in Nat
  BY DEF ReplicasOK, LogsOK
<1>2. \A n \in 1 .. Len(committed) : n \in 1 .. Len(committed') /\ committed'[n] = committed[n]
  BY <1>1 DEF Begins
<1> QED BY <1>2 DEF IsCommitted

\* A tab that shows no more, and has lost nothing from its queue that it shows.
LEMMA SameShown ==
  ASSUME ShownIsKept, \A s : IsCommitted(s) => IsCommitted(s)',
         \A c \in Client : \A s \in shown'[c] :
           \/ /\ s \in shown[c]
              /\ Contains(pendingStrokes[c], s.seq) => Contains(pendingStrokes'[c], s.seq)
           \/ s \in shown[c] /\ s.client # c
           \/ s.client = c /\ Contains(pendingStrokes'[c], s.seq)
           \/ IsCommitted(s)'
  PROVE  ShownIsKept'
<1> SUFFICES ASSUME NEW c \in Client, NEW s \in shown'[c]
             PROVE  (s.client = c /\ Contains(pendingStrokes'[c], s.seq)) \/ IsCommitted(s)'
  BY DEF ShownIsKept, IsCommitted, Contains
<1>1. s \in shown[c] => (s.client = c /\ Contains(pendingStrokes[c], s.seq)) \/ IsCommitted(s)
  BY DEF ShownIsKept, IsCommitted
<1> QED BY <1>1

\* The posts under way stay what they are.
LEMMA SameRequests ==
  ASSUME RequestsOK, UNCHANGED <<forwards, late, broadcasts, committed>>
  PROVE  RequestsOK'
BY DEF RequestsOK, Forward, IsCommitted

\* A step of a tab: what the other parts have stays, and what is left to show
\* is the tab itself.
LEMMA TabStep ==
  ASSUME GatewayInv, TabsOK', RequestsOK',
         UNCHANGED <<currentLeader, registrations, replicas>>,
         \A c \in Client : \A s \in shown'[c] :
           \/ /\ s \in shown[c]
              /\ Contains(pendingStrokes[c], s.seq) => Contains(pendingStrokes'[c], s.seq)
           \/ s \in shown[c] /\ s.client # c
           \/ s.client = c /\ Contains(pendingStrokes'[c], s.seq)
           \/ IsCommitted(s)
  PROVE  GatewayInv'
<1>1. UNCHANGED <<ledIn, logs, committed, lastApplied, leaders, registrations, currentLeader>>
  BY DEF replicas
<1>2. ReplicasOK' /\ LeadersOK'
  BY <1>1, SameReplicas DEF GatewayInv
<1>3. \A s : IsCommitted(s)' <=> IsCommitted(s)
  BY <1>1 DEF IsCommitted
<1>4. ShownIsKept'
  BY <1>3, SameShown DEF GatewayInv
<1> QED BY <1>2, <1>4 DEF GatewayInv

\* A new stroke is shown, and in the queue.
LEMMA SendStrokeInv ==
  ASSUME GatewayInv, NEW c \in Client, SendStroke(c)
  PROVE  GatewayInv'
<1> DEFINE seq == seqCounter[c] + 1
           stroke == [client |-> c, seq |-> seq]
           queue == Append(pendingStrokes[c], seq)
<1>1. TabsOK /\ RequestsOK
  BY DEF GatewayInv
<1>2. /\ seq <= MaxSeq
      /\ seqCounter' = [seqCounter EXCEPT ![c] = seq]
      /\ pendingStrokes' = [pendingStrokes EXCEPT ![c] = queue]
      /\ shown' = [shown EXCEPT ![c] = @ \cup {stroke}]
      /\ wire' \in {[wire EXCEPT ![c] = Append(@, seq)], wire}
      /\ UNCHANGED <<currentLeader, forwards, registrations, broadcasts, late, replicas>>
  BY DEF SendStroke
<1>3. MaxSeq \in Nat /\ seqCounter[c] \in 0 .. MaxSeq
  BY <1>1, GatewayAssumption DEF TabsOK
<1>4. seq \in 1 .. MaxSeq /\ seq \in 1 .. seq /\ stroke.client = c /\ stroke.seq = seq
  BY <1>2, <1>3
<1>5. stroke \in Stroke
  BY <1>4 DEF Stroke
<1>6. pendingStrokes[c] \in Seq(1 .. seq)
  <2>1. pendingStrokes[c] \in Seq(1 .. seqCounter[c]) /\ 1 .. seqCounter[c] \subseteq 1 .. seq
    BY <1>1, <1>3 DEF TabsOK
  <2> QED BY <2>1, WiderSeq
<1> HIDE DEF stroke
<1>7. /\ queue \in Seq(1 .. seq)
      /\ Contains(queue, seq)
      /\ \A y : Contains(pendingStrokes[c], y) => Contains(queue, y)
  BY <1>4, <1>6, AppendProperties, AppendContains
<1>8. Append(wire[c], seq) \in Seq(1 .. MaxSeq)
  BY <1>1, <1>4, AppendProperties DEF TabsOK
<1> HIDE DEF queue, seq
<1>9. TabsOK'
  <2>1. seqCounter' \in [Client -> 0 .. MaxSeq]
    BY <1>1, <1>2, <1>3, <1>4 DEF TabsOK
  <2>2. /\ DOMAIN pendingStrokes' = Client /\ DOMAIN wire' = Client /\ DOMAIN shown' = Client
    BY <1>1, <1>2 DEF TabsOK
  <2>3. ASSUME NEW a \in Client PROVE pendingStrokes'[a] \in Seq(1 .. seqCounter'[a])
    BY <1>1, <1>2, <1>7 DEF TabsOK
  <2>4. ASSUME NEW a \in Client PROVE wire'[a] \in Seq(1 .. MaxSeq)
    BY <1>1, <1>2, <1>8 DEF TabsOK
  <2>5. ASSUME NEW a \in Client PROVE shown'[a] \subseteq Stroke
    BY <1>1, <1>2, <1>5 DEF TabsOK
  <2> QED BY <2>1, <2>2, <2>3, <2>4, <2>5 DEF TabsOK
<1>10. RequestsOK'
  BY <1>1, <1>2, SameRequests DEF replicas
<1>11. ASSUME NEW a \in Client, NEW s \in shown'[a]
       PROVE  \/ /\ s \in shown[a]
                 /\ Contains(pendingStrokes[a], s.seq) => Contains(pendingStrokes'[a], s.seq)
              \/ s.client = a /\ Contains(pendingStrokes'[a], s.seq)
  <2>1. CASE a = c
    <3>1. pendingStrokes'[c] = queue /\ shown'[c] = shown[c] \cup {stroke}
      BY <1>1, <1>2 DEF TabsOK
    <3> QED BY <1>4, <1>7, <2>1, <3>1
  <2>2. CASE a # c
    <3>1. pendingStrokes'[a] = pendingStrokes[a] /\ shown'[a] = shown[a]
      BY <1>1, <1>2, <2>2 DEF TabsOK
    <3> QED BY <3>1
  <2> QED BY <2>1, <2>2
<1> QED BY <1>2, <1>9, <1>10, <1>11, TabStep

\* A connection that opens or closes.
LEMMA ConnectionInv ==
  ASSUME GatewayInv, NEW c \in Client, Connect(c) \/ Disconnect(c)
  PROVE  GatewayInv'
<1>1. TabsOK /\ RequestsOK
  BY DEF GatewayInv
<1>2. /\ UNCHANGED <<seqCounter, pendingStrokes, shown>>
      /\ UNCHANGED <<currentLeader, forwards, registrations, broadcasts, late, replicas>>
      /\ \/ wire' = [wire EXCEPT ![c] = pendingStrokes[c]]
         \/ wire' = [wire EXCEPT ![c] = <<>>]
  BY DEF Connect, Disconnect, page
<1>3. pendingStrokes[c] \in Seq(1 .. MaxSeq)
  <2>1. MaxSeq \in Nat /\ seqCounter[c] \in 0 .. MaxSeq
    BY <1>1, GatewayAssumption DEF TabsOK
  <2>2. pendingStrokes[c] \in Seq(1 .. seqCounter[c]) /\ 1 .. seqCounter[c] \subseteq 1 .. MaxSeq
    BY <1>1, <2>1 DEF TabsOK
  <2> QED BY <2>2, WiderSeq
<1>4. TabsOK'
  <2>1. DOMAIN wire' = Client
    BY <1>1, <1>2 DEF TabsOK
  <2>2. ASSUME NEW a \in Client PROVE wire'[a] \in Seq(1 .. MaxSeq)
    <3>1. <<>> \in Seq(1 .. MaxSeq)
      OBVIOUS
    <3> QED BY <1>1, <1>2, <1>3, <3>1 DEF TabsOK
  <2> QED BY <1>1, <1>2, <2>1, <2>2 DEF TabsOK
<1>5. RequestsOK'
  BY <1>1, <1>2, SameRequests DEF replicas
<1> QED BY <1>2, <1>4, <1>5, TabStep

\* A page loaded again, and a canvas cleared.
LEMMA EmptiedInv ==
  ASSUME GatewayInv, NEW c \in Client, Reload(c) \/ Clear(c)
  PROVE  GatewayInv'
<1>1. TabsOK /\ RequestsOK
  BY DEF GatewayInv
<1>2. /\ UNCHANGED <<seqCounter, currentLeader, forwards, registrations, broadcasts, late,
                     replicas>>
      /\ pendingStrokes' \in {[pendingStrokes EXCEPT ![c] = <<>>], pendingStrokes}
      /\ wire' \in {[wire EXCEPT ![c] = <<>>], wire}
      /\ shown' = [shown EXCEPT ![c] = {}]
  BY DEF Reload, Clear
<1>3. TabsOK'
  <2>1. \A S : <<>> \in Seq(S)
    OBVIOUS
  <2>2. DOMAIN pendingStrokes' = Client /\ DOMAIN wire' = Client /\ DOMAIN shown' = Client
    BY <1>1, <1>2 DEF TabsOK
  <2>3. ASSUME NEW a \in Client
        PROVE  /\ pendingStrokes'[a] \in Seq(1 .. seqCounter'[a])
               /\ wire'[a] \in Seq(1 .. MaxSeq)
               /\ shown'[a] \subseteq Stroke
    BY <1>1, <1>2, <2>1 DEF TabsOK
  <2> QED BY <1>1, <1>2, <2>2, <2>3 DEF TabsOK
<1>4. RequestsOK'
  BY <1>1, <1>2, SameRequests DEF replicas
<1>5. ASSUME NEW a \in Client, NEW s \in shown'[a]
      PROVE  s \in shown[a] /\ pendingStrokes'[a] = pendingStrokes[a]
  BY <1>1, <1>2 DEF TabsOK
<1> QED BY <1>2, <1>3, <1>4, <1>5, TabStep

\* The strokes a replica answers /log with are committed.
LEMMA ReplayedCommitted ==
  ASSUME ReplicasOK, NEW i \in Server, NEW n, NEW s \in ToSet(getLogEntries(MachineOf(i), 0, n))
  PROVE  s.op \in Stroke /\ IsCommitted(s.op)
<1> DEFINE m == MachineOf(i)
           t == getStrokesFrom(m, 0)
           r == getLogEntries(m, 0, n)
           last == lastApplied[i] + 1
<1>1. committed \in Seq(Entry) /\ last \in 0 .. Len(committed)
  BY DEF ReplicasOK, LogsOK
<1>2. Draws(committed, last, m)
  BY <1>1, MachineDraws DEF MachineOf
<1>3. /\ m.strokes \in Seq(Drawing)
      /\ \A k \in 1 .. Len(m.strokes) : \E j \in 1 .. last : m.strokes[k].op = committed[j].op
  BY <1>2 DEF Draws
<1> HIDE DEF m, last
<1>4. ElementsOf(t, m.strokes, Drawing)
  <2>1. t = Kept(m.strokes, {k \in 1 .. Len(m.strokes) : m.strokes[k].index >= 0})
    BY DEF getStrokesFrom
  <2> HIDE DEF t
  <2> QED BY <1>3, <2>1, KeptElements
<1>5. r = Kept(t, {k \in 1 .. Len(t) : t[k].index <= n})
  BY DEF getLogEntries
<1> HIDE DEF t
<1>6. ElementsOf(r, t, Drawing)
  <2>1. t \in Seq(Drawing)
    BY <1>4 DEF ElementsOf
  <2> HIDE DEF r
  <2> QED BY <1>5, <2>1, KeptElements
<1>7. PICK k \in 1 .. Len(r) : s = r[k]
  <2>1. s \in {r[k] : k \in DOMAIN r}
    BY DEF ToSet, m
  <2> HIDE DEF r
  <2> QED BY <1>6, <2>1, LenProperties DEF ElementsOf
<1> HIDE DEF r
<1>8. PICK j \in 1 .. Len(m.strokes) : s = m.strokes[j]
  BY <1>4, <1>6, <1>7 DEF ElementsOf
<1>9. s \in Drawing
  BY <1>3, <1>8
<1>10. PICK n0 \in 1 .. last : s.op = committed[n0].op
  BY <1>3, <1>8
<1>11. n0 \in 1 .. Len(committed)
  BY <1>1, <1>10
<1> QED BY <1>9, <1>10, <1>11 DEF IsCommitted, Drawing

\* The history a page loads is committed.
LEMMA ReplayInv ==
  ASSUME GatewayInv, NEW c \in Client, NEW i \in Server, Replay(c, i)
  PROVE  GatewayInv'
<1> DEFINE R == {s.op : s \in ToSet(getLogEntries(MachineOf(i), 0, lastApplied[i]))}
<1>1. TabsOK /\ RequestsOK /\ ReplicasOK
  BY DEF GatewayInv
<1>2. /\ UNCHANGED <<seqCounter, pendingStrokes, wire>>
      /\ UNCHANGED <<currentLeader, forwards, registrations, broadcasts, late, replicas>>
      /\ shown' = [shown EXCEPT ![c] = @ \cup R]
  BY DEF Replay
<1>3. \A s \in R : s \in Stroke /\ IsCommitted(s)
  BY <1>1, ReplayedCommitted
<1> HIDE DEF R
<1>4. TabsOK'
  BY <1>1, <1>2, <1>3 DEF TabsOK
<1>5. RequestsOK'
  BY <1>1, <1>2, SameRequests DEF replicas
<1>6. ASSUME NEW a \in Client, NEW s \in shown'[a]
      PROVE  s \in shown[a] \/ IsCommitted(s)
  BY <1>1, <1>2, <1>3 DEF TabsOK
<1> QED BY <1>2, <1>4, <1>5, <1>6, TabStep

\* A stroke that comes back is committed.
LEMMA BroadcastInv ==
  ASSUME GatewayInv, NEW b \in broadcasts, Broadcast(b)
  PROVE  GatewayInv'
<1>1. TabsOK /\ RequestsOK
  BY DEF GatewayInv
<1>2. /\ UNCHANGED <<seqCounter, wire, currentLeader, forwards, registrations, late, replicas>>
      /\ broadcasts' \subseteq broadcasts
      /\ pendingStrokes' = [c \in Client |-> IF connected[c] THEN unmatched(c, b)
                                             ELSE pendingStrokes[c]]
      /\ shown' = [c \in Client |->
                     IF connected[c] /\ ~(c = b.client /\ Contains(pendingStrokes[c], b.seq))
                     THEN shown[c] \cup {b} ELSE shown[c]]
  BY DEF Broadcast
<1>3. b \in Stroke /\ IsCommitted(b)
  BY <1>1 DEF RequestsOK
<1>4. ASSUME NEW c \in Client
      PROVE  /\ unmatched(c, b) \in Seq(1 .. seqCounter[c])
             /\ \A y : Contains(pendingStrokes[c], y) /\ ~(c = b.client /\ y = b.seq)
                         => Contains(unmatched(c, b), y)
  <2>1. pendingStrokes[c] \in Seq(1 .. seqCounter[c])
    BY <1>1 DEF TabsOK
  <2>2. CASE c = b.client
    <3> DEFINE q == pendingStrokes[c]
               r == RemoveFirst(q, b.seq)
    <3>1. unmatched(c, b) = r
      BY <2>2 DEF unmatched
    <3>2. /\ r \in Seq(1 .. seqCounter[c])
          /\ \A y : Contains(q, y) /\ y # b.seq => Contains(r, y)
      <4> HIDE DEF q
      <4>1. q \in Seq(1 .. seqCounter[c])
        BY <2>1 DEF q
      <4> QED BY <4>1, RemoveFirstKeeps
    <3> HIDE DEF r
    <3> QED BY <2>2, <3>1, <3>2
  <2>3. CASE c # b.client
    BY <2>1, <2>3 DEF unmatched
  <2> QED BY <2>2, <2>3
<1>5. \A c \in Client : \/ pendingStrokes'[c] = unmatched(c, b)
                        \/ pendingStrokes'[c] = pendingStrokes[c]
  BY <1>2
<1>6. TabsOK'
  <2>1. ASSUME NEW c \in Client
        PROVE  /\ pendingStrokes'[c] \in Seq(1 .. seqCounter'[c])
               /\ wire'[c] \in Seq(1 .. MaxSeq)
               /\ shown'[c] \subseteq Stroke
    BY <1>1, <1>2, <1>3, <1>4, <1>5 DEF TabsOK
  <2>2. DOMAIN pendingStrokes' = Client /\ DOMAIN shown' = Client
    BY <1>2
  <2> QED BY <1>1, <1>2, <2>1, <2>2 DEF TabsOK
<1>7. RequestsOK'
  BY <1>1, <1>2 DEF RequestsOK, Forward, IsCommitted, replicas
<1>8. ASSUME NEW c \in Client, NEW s \in shown'[c]
      PROVE  \/ /\ s \in shown[c]
                /\ Contains(pendingStrokes[c], s.seq) => Contains(pendingStrokes'[c], s.seq)
             \/ s \in shown[c] /\ s.client # c
             \/ IsCommitted(s)
  <2>1. s = b \/ s \in shown[c]
    BY <1>2
  <2>2. CASE s = b
    BY <1>3, <2>2
  <2>3. CASE s \in shown[c] /\ s.client = c /\ c = b.client /\ s.seq = b.seq
    <3>1. s \in Stroke
      BY <1>1, <2>3 DEF TabsOK
    <3>2. s = b
      BY <1>3, <2>3, <3>1, StrokeFields
    <3> QED BY <1>3, <3>2
  <2>4. CASE s \in shown[c] /\ s.client = c /\ ~(c = b.client /\ s.seq = b.seq)
    BY <1>4, <1>5, <2>4
  <2> QED BY <2>1, <2>2, <2>3, <2>4
<1> QED BY <1>2, <1>6, <1>7, <1>8, TabStep

-----------------------------------------------------------------------------
(***************************************************************************)
(* The steps of the gateway.                                               *)
(***************************************************************************)

\* A step that changes no canvas and no queue.
LEMMA OtherStep ==
  ASSUME GatewayInv, ReplicasOK', LeadersOK', RequestsOK',
         UNCHANGED <<seqCounter, pendingStrokes, shown>>,
         DOMAIN wire' = Client, \A c \in Client : wire'[c] \in Seq(1 .. MaxSeq),
         \A s : IsCommitted(s) => IsCommitted(s)'
  PROVE  GatewayInv'
<1>1. TabsOK'
  BY DEF GatewayInv, TabsOK
<1>2. ShownIsKept'
  BY SameShown DEF GatewayInv
<1> QED BY <1>1, <1>2 DEF GatewayInv

\* An attempt keeps the stroke, and there are no more than three.
LEMMA AttemptForward ==
  ASSUME NEW f, f.op \in Stroke, NEW n \in 0 .. 2, NEW url
  PROVE  Forward(Attempt(f, n, url))
BY DEF Attempt, Forward

\* What is left of a failed forward is one with an attempt more.
LEMMA FailedForward ==
  ASSUME NEW f, Forward(f), NEW url
  PROVE  \A g \in failed(f, url) : Forward(g)
<1>1. f.op \in Stroke /\ f.attempt \in 0 .. 2
  BY DEF Forward
<1>2. f.attempt # 2 => f.attempt + 1 \in 0 .. 2
  BY <1>1
<1>3. \A g \in failed(f, url) : f.attempt # 2 /\ g = Attempt(f, f.attempt + 1, url)
  BY DEF failed
<1> QED BY <1>1, <1>2, <1>3, AttemptForward

\* A step of the gateway that leaves the tabs and the replicas alone.
LEMMA GatewayOnly ==
  ASSUME GatewayInv, UNCHANGED <<tabs, replicas>>,
         \A f \in forwards' \ forwards : Forward(f),
         \A s \in late' \ late : s.op \in Stroke,
         registrations' \subseteq registrations, broadcasts' \subseteq broadcasts,
         currentLeader' \in Led \cup {Nil}
  PROVE  GatewayInv'
<1>1. /\ UNCHANGED <<ledIn, logs, committed, lastApplied, leaders>>
      /\ UNCHANGED <<seqCounter, pendingStrokes, shown, wire>>
  BY DEF replicas, tabs, page
<1>2. ReplicasOK'
  BY <1>1, SameReplicas DEF GatewayInv
<1>3. LeadersOK'
  BY <1>1 DEF GatewayInv, LeadersOK, Led
<1>4. RequestsOK'
  BY <1>1 DEF GatewayInv, RequestsOK, Forward, IsCommitted
<1>5. \A s : IsCommitted(s) => IsCommitted(s)'
  BY <1>1 DEF IsCommitted
<1>6. DOMAIN wire' = Client /\ \A c \in Client : wire'[c] \in Seq(1 .. MaxSeq)
  BY <1>1 DEF GatewayInv, TabsOK
<1> QED BY <1>1, <1>2, <1>3, <1>4, <1>5, <1>6, OtherStep

\* The gateway takes a stroke off the wire and starts its forward.
LEMMA ReceiveInv ==
  ASSUME GatewayInv, NEW c \in Client, Receive(c)
  PROVE  GatewayInv'
<1> DEFINE op == [client |-> c, seq |-> Head(wire[c])]
           id == Min((1 .. MaxForwards) \ {f.id : f \in forwards})
           f == [id |-> id, op |-> op]
<1>1. /\ forwards' = forwards \cup {Attempt(f, 0, currentLeader)}
      /\ wire[c] # <<>>
      /\ wire' = [wire EXCEPT ![c] = Tail(@)]
      /\ UNCHANGED <<seqCounter, pendingStrokes, shown, currentLeader, registrations,
                     broadcasts, late>>
      /\ UNCHANGED <<ledIn, logs, committed, lastApplied, leaders>>
  BY DEF Receive, page, replicas
<1>2. Head(wire[c]) \in 1 .. MaxSeq /\ Tail(wire[c]) \in Seq(1 .. MaxSeq)
  BY <1>1, HeadTailProperties DEF GatewayInv, TabsOK
<1>3. op \in Stroke /\ f.op = op
  BY <1>2 DEF Stroke
<1> HIDE DEF f, op, id
<1>4. Forward(Attempt(f, 0, currentLeader))
  BY <1>3, AttemptForward
<1>5. ReplicasOK' /\ LeadersOK'
  BY <1>1, SameReplicas DEF GatewayInv
<1>6. RequestsOK'
  BY <1>1, <1>4 DEF GatewayInv, RequestsOK, Forward, IsCommitted
<1>7. DOMAIN wire' = Client /\ \A a \in Client : wire'[a] \in Seq(1 .. MaxSeq)
  BY <1>1, <1>2 DEF GatewayInv, TabsOK
<1>8. \A s : IsCommitted(s) => IsCommitted(s)'
  BY <1>1 DEF IsCommitted
<1> QED BY <1>1, <1>5, <1>6, <1>7, <1>8, OtherStep

\* The steps of a forward.
LEMMA GatewayStepInv ==
  ASSUME GatewayInv, NEW f \in forwards, GatewayStep(f)
  PROVE  GatewayInv'
<1>1. Forward(f) /\ f.op \in Stroke /\ f.attempt \in 0 .. 2
  BY DEF GatewayInv, RequestsOK, Forward
<1>2. currentLeader \in Led \cup {Nil} /\ leaders \subseteq Led
  BY DEF GatewayInv, LeadersOK
<1>3. CASE Discover(f)
  <2>1. ASSUME NEW g \in forwards' \ forwards PROVE Forward(g)
    <3>1. g \in failed(f, Nil) \/ g = Attempt(f, f.attempt, currentLeader')
      BY <1>3 DEF Discover
    <3> QED BY <1>1, <3>1, AttemptForward, FailedForward
  <2>2. /\ UNCHANGED <<tabs, replicas, registrations, broadcasts, late>>
        /\ currentLeader' \in Led \cup {Nil}
    BY <1>2, <1>3 DEF Discover
  <2> QED BY <2>1, <2>2, GatewayOnly
<1>4. CASE Redirected(f)
  <2>1. ASSUME NEW g \in forwards' \ forwards PROVE Forward(g)
    <3>1. g \in failed(f, currentLeader')
      BY <1>4 DEF Redirected
    <3> QED BY <1>1, <3>1, FailedForward
  <2>2. /\ UNCHANGED <<tabs, replicas, registrations, broadcasts, late>>
        /\ currentLeader' \in Led \cup {Nil}
    BY <1>4 DEF Redirected
  <2> QED BY <2>1, <2>2, GatewayOnly
<1>5. CASE Retry(f)
  <2>1. ASSUME NEW g \in forwards' \ forwards PROVE Forward(g)
    <3>1. g \in failed(f, Nil)
      BY <1>5 DEF Retry
    <3> QED BY <1>1, <3>1, FailedForward
  <2>2. ASSUME NEW s \in late' \ late PROVE s.op \in Stroke
    BY <1>1, <1>5 DEF Retry
  <2>3. /\ UNCHANGED <<tabs, replicas, registrations, broadcasts>>
        /\ currentLeader' \in Led \cup {Nil}
    BY <1>5 DEF Retry
  <2> QED BY <2>1, <2>2, <2>3, GatewayOnly
<1>6. CASE Forwarded(f)
  <2>1. /\ UNCHANGED <<tabs, replicas, registrations, broadcasts, late, currentLeader>>
        /\ forwards' \subseteq forwards
    BY <1>6 DEF Forwarded
  <2> QED BY <1>2, <2>1, GatewayOnly
<1> QED BY <1>3, <1>4, <1>5, <1>6 DEF GatewayStep

\* A leader that announces itself has led.
LEMMA RegisterInv ==
  ASSUME GatewayInv, NEW i \in registrations, Register(i)
  PROVE  GatewayInv'
<1>1. /\ UNCHANGED <<tabs, replicas, forwards, late, broadcasts>>
      /\ registrations' \subseteq registrations /\ currentLeader' \in Led \cup {Nil}
  BY DEF Register, GatewayInv, LeadersOK
<1> QED BY <1>1, GatewayOnly

\* A gateway killed forgets, and the posts it had sent arrive late.
LEMMA RestartGatewayInv ==
  ASSUME GatewayInv, RestartGateway
  PROVE  GatewayInv'
<1>1. /\ UNCHANGED <<seqCounter, pendingStrokes, shown, registrations>>
      /\ UNCHANGED <<ledIn, logs, committed, lastApplied, leaders>>
      /\ wire' = [c \in Client |-> <<>>]
      /\ currentLeader' = Nil /\ forwards' = {} /\ broadcasts' = {}
  BY DEF RestartGateway, page, replicas
<1>2. \A s \in late' : s \in late \/ \E f \in forwards : s.op = f.op
  BY DEF RestartGateway
<1>3. ReplicasOK'
  BY <1>1, SameReplicas DEF GatewayInv
<1>4. LeadersOK'
  BY <1>1 DEF GatewayInv, LeadersOK, Led
<1>5. RequestsOK'
  BY <1>1, <1>2 DEF GatewayInv, RequestsOK, Forward
<1>6. \A s : IsCommitted(s) => IsCommitted(s)'
  BY <1>1 DEF IsCommitted
<1>7. DOMAIN wire' = Client /\ \A c \in Client : wire'[c] \in Seq(1 .. MaxSeq)
  BY <1>1
<1> QED BY <1>1, <1>3, <1>4, <1>5, <1>6, <1>7, OtherStep

-----------------------------------------------------------------------------
(***************************************************************************)
(* The steps of the replicas, for the whole.                               *)
(***************************************************************************)

\* A step of a replica leaves the tabs alone.
LEMMA ReplicaStep ==
  ASSUME GatewayInv, ReplicasOK', LeadersOK', RequestsOK', UNCHANGED tabs,
         Begins(committed, committed')
  PROVE  GatewayInv'
<1>1. UNCHANGED <<seqCounter, pendingStrokes, shown, wire>>
  BY DEF tabs, page
<1>2. \A s : IsCommitted(s) => IsCommitted(s)'
  BY StaysCommitted DEF GatewayInv
<1>3. DOMAIN wire' = Client /\ \A c \in Client : wire'[c] \in Seq(1 .. MaxSeq)
  BY <1>1 DEF GatewayInv, TabsOK
<1> QED BY <1>1, <1>2, <1>3, OtherStep

\* What is committed begins with itself.
LEMMA SameBegins == ASSUME ReplicasOK, UNCHANGED committed PROVE Begins(committed, committed')
<1>1. Len(committed) \in Nat
  BY DEF ReplicasOK, LogsOK
<1> QED BY <1>1 DEF Begins

\* The stroke of a forward.
LEMMA SubmitInv ==
  ASSUME GatewayInv, NEW f \in forwards, Submit(f)
  PROVE  GatewayInv'
<1> DEFINE g == [f EXCEPT !.phase = "waiting", !.index = Len(logs[f.target]),
                          !.term = ledIn[f.target]]
<1>1. ReplicasOK /\ LeadersOK /\ RequestsOK /\ Forward(f)
  BY DEF GatewayInv, RequestsOK
<1>2. /\ appendStroke(f.target, f.op)
      /\ forwards' = (forwards \ {f}) \cup {g}
      /\ UNCHANGED <<tabs, currentLeader, registrations, broadcasts, late, leaders, ledIn,
                     committed, lastApplied>>
  BY DEF Submit
<1>3. f.target \in Server /\ f.op \in Stroke
  BY <1>1, <1>2 DEF appendStroke, LeadersOK, Led, Forward
<1>4. ReplicasOK'
  BY <1>1, <1>2, <1>3, AppendReplicas
<1>5. LeadersOK'
  BY <1>1, <1>2 DEF LeadersOK, Led
<1>6. Forward(g)
  <2>1. Len(logs[f.target]) \in Nat
    BY <1>1, <1>3 DEF ReplicasOK, LogsOK
  <2> QED BY <1>1, <2>1 DEF Forward
<1> HIDE DEF g
<1>7. RequestsOK'
  BY <1>1, <1>2, <1>6 DEF RequestsOK, Forward, IsCommitted
<1>8. Begins(committed, committed')
  BY <1>1, <1>2, SameBegins
<1> QED BY <1>2, <1>4, <1>5, <1>7, <1>8, ReplicaStep

\* The stroke of a request that came late.
LEMMA SubmitLateInv ==
  ASSUME GatewayInv, NEW s \in late, SubmitLate(s)
  PROVE  GatewayInv'
<1>1. ReplicasOK /\ LeadersOK /\ RequestsOK /\ s.op \in Stroke
  BY DEF GatewayInv, RequestsOK
<1>2. /\ appendStroke(s.target, s.op)
      /\ UNCHANGED <<tabs, currentLeader, forwards, registrations, broadcasts, late, leaders,
                     ledIn, committed, lastApplied>>
  BY DEF SubmitLate
<1>3. s.target \in Server
  BY <1>1, <1>2 DEF appendStroke, LeadersOK, Led
<1>4. ReplicasOK'
  BY <1>1, <1>2, <1>3, AppendReplicas
<1>5. LeadersOK'
  BY <1>1, <1>2 DEF LeadersOK, Led
<1>6. RequestsOK'
  BY <1>1, <1>2, SameRequests
<1>7. Begins(committed, committed')
  BY <1>1, <1>2, SameBegins
<1> QED BY <1>2, <1>4, <1>5, <1>6, <1>7, ReplicaStep

\* The answer from the dedupe table is an index of the log.
LEMMA SubmitCachedInv ==
  ASSUME GatewayInv, NEW f \in forwards, SubmitCached(f)
  PROVE  GatewayInv'
<1> DEFINE cached == getDedupeIndex(MachineOf(f.target), f.op)
           g == [f EXCEPT !.phase = "acked", !.index = cached]
           last == lastApplied[f.target] + 1
<1>1. ReplicasOK /\ LeadersOK /\ Forward(f)
  BY DEF GatewayInv, RequestsOK
<1>2. /\ f.target \in leaders /\ cached # Nil
      /\ forwards' = (forwards \ {f}) \cup {g}
      /\ UNCHANGED <<tabs, currentLeader, registrations, broadcasts, late, replicas>>
  BY DEF SubmitCached
<1>3. f.target \in Server
  BY <1>1, <1>2 DEF LeadersOK, Led
<1>4. committed \in Seq(Entry) /\ last \in 0 .. Len(committed)
  BY <1>1, <1>3 DEF ReplicasOK, LogsOK
<1>5. Draws(committed, last, MachineOf(f.target))
  BY <1>4, MachineDraws DEF MachineOf
<1>6. cached \in Nat
  BY <1>2, <1>5, CachedIndex
<1> HIDE DEF cached
<1>7. Forward(g)
  BY <1>1, <1>6 DEF Forward
<1> HIDE DEF g
<1>8. currentLeader' \in Led \cup {Nil}
  BY <1>1, <1>2 DEF LeadersOK
<1> QED BY <1>2, <1>7, <1>8, GatewayOnly

\* The answer after a commit has an index of the log.
LEMMA AnswerForward ==
  ASSUME ReplicasOK, NEW i \in Server, NEW n \in 0 .. Len(logs[i]) - 1, NEW f, Forward(f)
  PROVE  Forward(answer(f, i, n))
<1> DEFINE authoritative == getDedupeIndex(Machine(SubSeq(logs[i], 1, n + 1)), f.op)
<1>1. logs[i] \in Seq(Entry) /\ n + 1 \in 0 .. Len(logs[i])
  BY DEF ReplicasOK, LogsOK
<1>2. Draws(logs[i], n + 1, Machine(SubSeq(logs[i], 1, n + 1)))
  BY <1>1, MachineDraws
<1>3. authoritative \in Nat \cup {Nil}
  BY <1>2, CachedIndex
<1>4. \/ answer(f, i, n) = f
      \/ answer(f, i, n) = [f EXCEPT !.phase = "rejected"]
      \/ answer(f, i, n) = [f EXCEPT !.phase = "acked", !.index = IF authoritative = Nil THEN @
                                                                  ELSE authoritative]
  BY DEF answer
<1> HIDE DEF authoritative
<1>5. CASE answer(f, i, n) = f
  BY <1>5
<1>6. CASE answer(f, i, n) = [f EXCEPT !.phase = "rejected"]
  BY <1>6 DEF Forward
<1>7. CASE answer(f, i, n) = [f EXCEPT !.phase = "acked", !.index = IF authoritative = Nil THEN @
                                                                    ELSE authoritative]
  BY <1>3, <1>7 DEF Forward
<1> QED BY <1>4, <1>5, <1>6, <1>7

\* A commit posts committed strokes, and answers with an index of the log.
LEMMA CommitInv ==
  ASSUME GatewayInv, NEW i \in leaders, NEW n \in 0 .. Len(logs[i]) - 1, Commit(i, n)
  PROVE  GatewayInv'
<1>1. ReplicasOK /\ LeadersOK /\ RequestsOK
  BY DEF GatewayInv, RequestsOK
<1>2. i \in Server
  BY <1>1 DEF LeadersOK, Led
<1>3. ReplicasOK' /\ Commits(i, n)
  BY <1>1, CommitReplicas
<1>4. /\ broadcasts' = broadcasts \cup
           {logs[i][k].op : k \in {m \in lastApplied[i] + 2 .. n + 1 : logs[i][m].op # Noop}}
      /\ forwards' = {IF f.phase = "waiting" /\ f.target = i THEN answer(f, i, n) ELSE f
                      : f \in forwards}
      /\ UNCHANGED <<tabs, currentLeader, registrations, late, leaders, ledIn>>
  BY DEF Commit
<1>5. LeadersOK'
  BY <1>1, <1>4 DEF LeadersOK, Led
<1>6. ASSUME NEW k \in lastApplied[i] + 2 .. n + 1, logs[i][k].op # Noop
      PROVE  /\ logs[i][k].op \in Stroke
             /\ \E m \in 1 .. Len(committed') : committed'[m].op = logs[i][k].op
  <2>1. k \in 1 .. n + 1 /\ k \in 1 .. Len(logs[i])
    <3>1. lastApplied[i] \in -1 .. Len(committed) - 1 /\ Len(logs[i]) \in Nat
          /\ Len(committed) \in Nat
      BY <1>1, <1>2 DEF ReplicasOK, LogsOK
    <3> QED BY <3>1
  <2>2. logs[i][k] \in Entry
    BY <1>1, <1>2, <2>1 DEF ReplicasOK, LogsOK
  <2>3. logs[i][k].op \in Stroke
    BY <1>6, <2>2 DEF Entry
  <2>4. k \in 1 .. Len(committed') /\ committed'[k] = logs[i][k]
    BY <1>3, <2>1 DEF Commits
  <2>5. committed'[k].op = logs[i][k].op
    BY <2>4
  <2> QED BY <2>3, <2>4, <2>5
<1>7. \A s : IsCommitted(s) => IsCommitted(s)'
  BY <1>1, <1>3, StaysCommitted DEF Commits
<1>8. ASSUME NEW b \in broadcasts' PROVE b \in Stroke /\ IsCommitted(b)'
  <2>1. CASE b \in broadcasts
    BY <1>1, <1>7, <2>1 DEF RequestsOK
  <2>2. CASE b \notin broadcasts
    <3>1. PICK k \in {m \in lastApplied[i] + 2 .. n + 1 : logs[i][m].op # Noop} :
            b = logs[i][k].op
      BY <1>4, <2>2
    <3>2. b \in Stroke /\ \E m \in 1 .. Len(committed') : committed'[m].op = b
      BY <1>6, <3>1
    <3> QED BY <3>2 DEF IsCommitted
  <2> QED BY <2>1, <2>2
<1>9. \A f \in forwards' : Forward(f)
  BY <1>1, <1>2, <1>4, AnswerForward DEF RequestsOK
<1>10. RequestsOK'
  BY <1>1, <1>4, <1>8, <1>9 DEF RequestsOK, Forward
<1> QED BY <1>3, <1>4, <1>5, <1>10, ReplicaStep DEF Commits

\* A follower applies no more than is committed.
LEMMA FollowInv ==
  ASSUME GatewayInv, NEW i \in Server, NEW n \in lastApplied[i] + 1 .. Len(committed) - 1,
         Follow(i, n)
  PROVE  GatewayInv'
<1>1. ReplicasOK /\ LeadersOK /\ RequestsOK
  BY DEF GatewayInv, RequestsOK
<1>2. /\ lastApplied' = [lastApplied EXCEPT ![i] = n]
      /\ UNCHANGED <<tabs, currentLeader, forwards, registrations, broadcasts, late, leaders,
                     ledIn, logs, committed>>
  BY DEF Follow
<1>3. /\ n \in Int /\ n \in -1 .. Len(committed) - 1
      /\ lastApplied \in [Server -> Int]
      /\ \A j \in Server : lastApplied[j] \in -1 .. Len(committed) - 1
  BY <1>1 DEF ReplicasOK, LogsOK
<1>4. LogsOK'
  BY <1>1, <1>2, <1>3 DEF ReplicasOK, LogsOK
<1>5. TermsOK' /\ CommittedOK'
  BY <1>1, <1>2 DEF ReplicasOK, TermsOK, CommittedOK, InLaterLogs, Begins
<1>6. ReplicasOK' /\ LeadersOK'
  BY <1>1, <1>2, <1>4, <1>5 DEF ReplicasOK, LeadersOK, Led
<1>7. RequestsOK' /\ Begins(committed, committed')
  BY <1>1, <1>2, SameRequests, SameBegins
<1> QED BY <1>2, <1>6, <1>7, ReplicaStep

\* A new leader has led, and its log has what is committed.
LEMMA ElectedInv ==
  ASSUME GatewayInv, NEW i \in Server, NEW j \in Server, NEW kept \in 0 .. Len(logs[j]),
         Elected(i, j, kept)
  PROVE  GatewayInv'
<1>1. ReplicasOK /\ LeadersOK /\ RequestsOK
  BY DEF GatewayInv, RequestsOK
<1>2. /\ leaders' = leaders \cup {i} /\ registrations' = registrations \cup {i}
      /\ UNCHANGED <<tabs, currentLeader, forwards, broadcasts, late, committed>>
  BY DEF Elected
<1>3. /\ ReplicasOK'
      /\ ledIn'[i] > 0
      /\ \A k \in Server : k # i => ledIn'[k] = ledIn[k]
  BY <1>1, ElectedReplicas
<1>4. LeadersOK'
  <2>1. i \in Led' /\ Led \subseteq Led'
    BY <1>3 DEF Led
  <2> QED BY <1>1, <1>2, <2>1 DEF LeadersOK
<1>5. RequestsOK' /\ Begins(committed, committed')
  BY <1>1, <1>2, SameRequests, SameBegins
<1> QED BY <1>2, <1>3, <1>4, <1>5, ReplicaStep

\* One leader less, or a replica that did not lead.
LEMMA StepDownInv ==
  ASSUME GatewayInv, NEW i, StepDown(i)
  PROVE  GatewayInv'
<1>1. ReplicasOK /\ LeadersOK /\ RequestsOK
  BY DEF GatewayInv, RequestsOK
<1>2. /\ leaders' = leaders \ {i}
      /\ UNCHANGED <<tabs, currentLeader, forwards, registrations, broadcasts, late, ledIn,
                     logs, committed, lastApplied>>
  BY DEF StepDown
<1>3. ReplicasOK'
  BY <1>1, <1>2, SameReplicas
<1>4. LeadersOK'
  BY <1>1, <1>2 DEF LeadersOK, Led
<1>5. RequestsOK' /\ Begins(committed, committed')
  BY <1>1, <1>2, SameRequests, SameBegins
<1> QED BY <1>2, <1>3, <1>4, <1>5, ReplicaStep

\* A replica killed starts with an empty machine and rejects who waited.
LEMMA RestartInv ==
  ASSUME GatewayInv, NEW i \in Server, Restart(i)
  PROVE  GatewayInv'
<1>1. ReplicasOK /\ LeadersOK /\ RequestsOK
  BY DEF GatewayInv, RequestsOK
<1>2. /\ leaders' = leaders \ {i}
      /\ lastApplied' = [lastApplied EXCEPT ![i] = -1]
      /\ forwards' = {IF f.phase = "waiting" /\ f.target = i THEN [f EXCEPT !.phase = "rejected"]
                      ELSE f : f \in forwards}
      /\ UNCHANGED <<tabs, currentLeader, registrations, broadcasts, late, ledIn, logs,
                     committed>>
  BY DEF Restart
<1>3. LogsOK'
  <2>1. -1 \in Int /\ Len(committed) \in Nat /\ -1 \in -1 .. Len(committed) - 1
    BY <1>1 DEF ReplicasOK, LogsOK
  <2> QED BY <1>1, <1>2, <2>1 DEF ReplicasOK, LogsOK
<1>4. TermsOK' /\ CommittedOK'
  BY <1>1, <1>2 DEF ReplicasOK, TermsOK, CommittedOK, InLaterLogs, Begins
<1>5. ReplicasOK' /\ LeadersOK'
  BY <1>1, <1>2, <1>3, <1>4 DEF ReplicasOK, LeadersOK, Led
<1>6. \A f \in forwards : Forward([f EXCEPT !.phase = "rejected"])
  BY <1>1 DEF RequestsOK, Forward
<1>7. \A f \in forwards' : Forward(f)
  BY <1>1, <1>2, <1>6 DEF RequestsOK
<1>8. RequestsOK'
  BY <1>1, <1>2, <1>7 DEF RequestsOK, Forward, IsCommitted
<1>9. Begins(committed, committed')
  BY <1>1, <1>2, SameBegins
<1> QED BY <1>2, <1>5, <1>8, <1>9, ReplicaStep

-----------------------------------------------------------------------------
\* Every step keeps the invariant.
LEMMA GatewayInvNext == GatewayInv /\ [Next]_vars => GatewayInv'
<1> SUFFICES ASSUME GatewayInv, [Next]_vars PROVE GatewayInv'
  OBVIOUS
<1>1. ASSUME NEW c \in Client,
             \/ SendStroke(c) \/ Connect(c) \/ Disconnect(c) \/ Receive(c)
             \/ Reload(c) \/ Clear(c) \/ \E i \in Server : Replay(c, i)
      PROVE  GatewayInv'
  BY <1>1, SendStrokeInv, ConnectionInv, ReceiveInv, EmptiedInv, ReplayInv
<1>2. CASE RestartGateway
  BY <1>2, RestartGatewayInv
<1>3. ASSUME NEW b \in broadcasts, Broadcast(b) PROVE GatewayInv'
  BY <1>3, BroadcastInv
<1>4. ASSUME NEW f \in forwards, GatewayStep(f) \/ Submit(f) \/ SubmitCached(f) PROVE GatewayInv'
  BY <1>4, GatewayStepInv, SubmitInv, SubmitCachedInv
<1>5. ASSUME NEW s \in late, SubmitLate(s) PROVE GatewayInv'
  BY <1>5, SubmitLateInv
<1>6. ASSUME NEW i \in registrations, Register(i) PROVE GatewayInv'
  BY <1>6, RegisterInv
<1>7. ASSUME NEW i \in leaders, StepDown(i) \/ \E n \in 0 .. Len(logs[i]) - 1 : Commit(i, n)
      PROVE  GatewayInv'
  BY <1>7, StepDownInv, CommitInv
<1>8. ASSUME NEW i \in Server,
             \/ \E n \in lastApplied[i] + 1 .. Len(committed) - 1 : Follow(i, n)
             \/ \E j \in Server : \E kept \in 0 .. Len(logs[j]) : Elected(i, j, kept)
             \/ Restart(i)
      PROVE  GatewayInv'
  BY <1>8, FollowInv, ElectedInv, RestartInv
<1>9. CASE UNCHANGED vars
  <2>1. /\ UNCHANGED <<tabs, replicas, forwards, late, registrations, broadcasts>>
        /\ currentLeader' \in Led \cup {Nil}
    BY <1>9 DEF vars, GatewayInv, LeadersOK
  <2> QED BY <2>1, GatewayOnly
<1> QED BY <1>1, <1>2, <1>3, <1>4, <1>5, <1>6, <1>7, <1>8, <1>9 DEF Next

\* So it holds of every behaviour.
LEMMA GatewayInvariant == Spec => []GatewayInv
BY GatewayInvInit, GatewayInvNext, PTL DEF Spec

\* Whatever is retried, lost, sent late or elected, the fields keep their
\* types: the gateway believes in replicas that led, a forward has at most
\* three attempts, and no state machine is ahead of what is committed.
THEOREM GatewayTypeTheorem == Spec => []TypeOK
<1>1. GatewayInv => TypeOK
  BY DEF GatewayInv, ReplicasOK, LogsOK, LeadersOK, TabsOK, RequestsOK, Forward, TypeOK
<1> QED BY <1>1, GatewayInvariant, PTL

\* No echo, reconnect, replay or reload leaves a stroke on a canvas that is
\* neither committed nor in the queue of the tab that drew it.
THEOREM ShownIsKeptTheorem == Spec => []ShownIsKept
<1>1. GatewayInv => ShownIsKept
  BY DEF GatewayInv
<1> QED BY <1>1, GatewayInvariant, PTL

-----------------------------------------------------------------------------
(***************************************************************************)
(* Retries.  As long as the dedupe table has room for every tab, none is   *)
(* evicted, and a tab whose stroke was drawn has a row with its seq or a   *)
(* later one.                                                              *)
(***************************************************************************)

\* The machine m drew every stroke once, and remembers the tabs it drew for.
DrawsOnce(m) ==
  /\ \A a, b \in 1 .. Len(m.strokes) : m.strokes[a].op = m.strokes[b].op => a = b
  /\ \A k \in 1 .. Len(m.strokes) : \E j \in 1 .. Len(m.dedupe) :
       /\ m.dedupe[j].client = m.strokes[k].op.client
       /\ m.dedupe[j].seq >= m.strokes[k].op.seq
  /\ Rising(m.dedupe)

\* Without the row of one tab the table has fewer rows than there are tabs.
LEMMA RestIsShort ==
  ASSUME IsFiniteSet(Client), Cardinality(Client) <= dedupeMaxClients,
         NEW t \in Seq(Rows(Client)), Rising(t), NEW c \in Client, NEW u, Rest(Client, t, c, u)
  PROVE  Len(u) < dedupeMaxClients
<1> DEFINE f == [k \in 1 .. Len(u) |-> u[k].client]
           D == Client \ {c}
           I == 1 .. Len(u)
<1>1. /\ u \in Seq(Rows(Client)) /\ Len(u) \in Nat
      /\ \A k \in I : u[k].client \in D /\ u[k].index \in Nat
  <2>1. u \in Seq(Rows(Client)) /\ \A k \in 1 .. Len(u) : u[k].client # c
    BY DEF Rest
  <2> QED BY <2>1, RowFields
<1>2. ASSUME NEW a \in I, NEW b \in I, u[a].client = u[b].client PROVE a = b
  <2>1. PICK i \in 1 .. Len(t) : u[a] = t[i]
    BY DEF Rest
  <2>2. PICK j \in 1 .. Len(t) : u[b] = t[j]
    BY DEF Rest
  <2>3. t[i].index = t[j].index
    BY <1>2, <2>1, <2>2 DEF Rising
  <2>4. u[a].index = u[b].index
    BY <2>1, <2>2, <2>3
  <2>5. (a < b => u[a].index < u[b].index) /\ (b < a => u[b].index < u[a].index)
    BY DEF Rest
  <2> QED BY <1>1, <2>4, <2>5
<1>3. f \in Injection(I, D)
  BY <1>1, <1>2 DEF Injection, IsInjective
<1>4. IsFiniteSet(I) /\ Cardinality(I) = Len(u)
  <2>1. 1 \in Int /\ Len(u) \in Int
    BY <1>1
  <2>2. /\ IsFiniteSet(1 .. Len(u))
        /\ Cardinality(1 .. Len(u)) = IF 1 > Len(u) THEN 0 ELSE Len(u) - 1 + 1
    BY <2>1, FS_Interval
  <2> QED BY <1>1, <2>2
<1>5. IsFiniteSet(D) /\ Cardinality(D) = Cardinality(Client) - 1
  BY FS_RemoveElement
<1> HIDE DEF f, D, I
<1>6. Cardinality(I) <= Cardinality(D)
  BY <1>3, <1>4, <1>5, FS_Injection
<1>7. Cardinality(Client) \in Nat
  BY FS_CardinalityType
<1> QED BY <1>1, <1>4, <1>5, <1>6, <1>7, DedupeAssumption

\* A stroke that the table does not know is not drawn yet.
LEMMA UnseenIsNew ==
  ASSUME NEW l, NEW n, NEW m, Draws(l, n, m), DrawsOnce(m), NEW op \in Stroke, Seen(m, op) = {}
  PROVE  /\ \A k \in 1 .. Len(m.strokes) : m.strokes[k].op # op
         /\ \A k \in 1 .. Len(m.strokes) :
              m.strokes[k].op.client = op.client => op.seq >= m.strokes[k].op.seq
<1>1. m.strokes \in Seq(Drawing) /\ m.dedupe \in Seq(Rows(Client))
  BY DEF Draws
<1> SUFFICES ASSUME NEW k \in 1 .. Len(m.strokes), m.strokes[k].op.client = op.client
             PROVE  m.strokes[k].op # op /\ op.seq >= m.strokes[k].op.seq
  OBVIOUS
<1>2. PICK j \in 1 .. Len(m.dedupe) : /\ m.dedupe[j].client = m.strokes[k].op.client
                                      /\ m.dedupe[j].seq >= m.strokes[k].op.seq
  BY DEF DrawsOnce
<1>3. ~(m.dedupe[j].seq >= op.seq)
  BY <1>2 DEF Seen
<1>4. m.strokes[k].op \in Stroke /\ m.dedupe[j].seq \in Int
  <2>1. m.strokes[k] \in Drawing /\ m.dedupe[j] \in Rows(Client)
    BY <1>1
  <2> QED BY <2>1 DEF Drawing, Rows
<1>5. op.seq \in Int /\ m.strokes[k].op.seq \in Int
  BY <1>4, StrokeFields
<1> QED BY <1>2, <1>3, <1>4, <1>5

\* The table with the row of the stroke that is drawn now.
LEMMA TouchedRising ==
  ASSUME IsFiniteSet(Client), Cardinality(Client) <= dedupeMaxClients,
         NEW n \in Nat, NEW t \in Seq(Rows(Client)), Rising(t),
         \A k \in 1 .. Len(t) : t[k].index < n,
         NEW e \in Rows(Client), e.index = n, NEW r, Moved(Client, t, e, r)
  PROVE  /\ Rising(r)
         /\ \E j \in 1 .. Len(r) : r[j] = e
         /\ \A k \in 1 .. Len(t) : t[k].client # e.client => \E j \in 1 .. Len(r) : r[j] = t[k]
<1>0. e.client \in Client
  BY DEF Rows
<1>1. PICK u : /\ Removed(Client, t, e.client, u)
               /\ r \in Seq(Rows(Client))
               /\ \/ /\ Len(u) < dedupeMaxClients
                     /\ Len(r) = Len(u) + 1
                     /\ \A k \in 1 .. Len(u) : r[k] = u[k]
                  \/ Len(u) >= dedupeMaxClients
               /\ r[Len(r)] = e
  BY DEF Moved
<1>2. Rest(Client, t, e.client, u)
  BY <1>1, RemovedLeavesRest
<1>3. Len(u) < dedupeMaxClients
  BY <1>0, <1>2, RestIsShort
<1>4. u \in Seq(Rows(Client)) /\ Len(u) \in Nat
  BY <1>2 DEF Rest
<1>5. Len(r) = Len(u) + 1 /\ (\A k \in 1 .. Len(u) : r[k] = u[k]) /\ r[Len(u) + 1] = e
  BY <1>1, <1>3, <1>4, DedupeAssumption
<1>6. \A k \in 1 .. Len(u) : /\ u[k].client # e.client /\ u[k].index < n
                             /\ \E j \in 1 .. Len(t) : u[k] = t[j]
  BY <1>2 DEF Rest
<1>7. ASSUME NEW a \in 1 .. Len(r), NEW b \in 1 .. Len(r), a < b PROVE r[a].index < r[b].index
  <2>1. a \in 1 .. Len(u) /\ r[a] = u[a]
    BY <1>4, <1>5, <1>7
  <2>2. CASE b = Len(u) + 1
    BY <1>5, <1>6, <2>1, <2>2
  <2>3. CASE b \in 1 .. Len(u)
    <3>1. r[b] = u[b] /\ u[a].index < u[b].index
      BY <1>2, <1>5, <1>7, <2>1, <2>3 DEF Rest
    <3> QED BY <2>1, <3>1
  <2> QED BY <1>4, <1>5, <2>2, <2>3
<1>8. ASSUME NEW a \in 1 .. Len(r), NEW b \in 1 .. Len(r), r[a].client = r[b].client
      PROVE  r[a].index = r[b].index
  <2>1. \A k \in 1 .. Len(r) : k = Len(u) + 1 \/ k \in 1 .. Len(u)
    BY <1>4, <1>5
  <2>2. CASE a \in 1 .. Len(u) /\ b \in 1 .. Len(u)
    <3>1. PICK i \in 1 .. Len(t) : r[a] = t[i]
      BY <1>5, <1>6, <2>2
    <3>2. PICK j \in 1 .. Len(t) : r[b] = t[j]
      BY <1>5, <1>6, <2>2
    <3> QED BY <1>8, <3>1, <3>2 DEF Rising
  <2>3. CASE a = b
    BY <2>3
  <2>4. CASE a = Len(u) + 1 /\ b \in 1 .. Len(u)
    BY <1>5, <1>6, <1>8, <2>4
  <2>5. CASE b = Len(u) + 1 /\ a \in 1 .. Len(u)
    BY <1>5, <1>6, <1>8, <2>5
  <2> QED BY <2>1, <2>2, <2>3, <2>4, <2>5
<1>9. Rising(r)
  BY <1>7, <1>8 DEF Rising
<1>10. \E j \in 1 .. Len(r) : r[j] = e
  <2>1. Len(u) + 1 \in 1 .. Len(r)
    BY <1>4, <1>5
  <2> QED BY <1>5, <2>1
<1>11. ASSUME NEW k \in 1 .. Len(t), t[k].client # e.client
       PROVE  \E j \in 1 .. Len(r) : r[j] = t[k]
  <2>1. PICK j \in 1 .. Len(u) : u[j] = t[k]
    BY <1>2, <1>11 DEF Rest
  <2>2. j \in 1 .. Len(r) /\ r[j] = t[k]
    BY <1>4, <1>5, <2>1
  <2> QED BY <2>2
<1> QED BY <1>9, <1>10, <1>11

\* A machine that applies the next entry still draws every stroke once.
LEMMA ApplyOnce ==
  ASSUME IsFiniteSet(Client), Cardinality(Client) <= dedupeMaxClients,
         NEW n \in Nat, NEW l, NEW m, Draws(l, n, m), DrawsOnce(m),
         NEW op \in Stroke \cup {Noop}
  PROVE  DrawsOnce(apply(m, n, op))
<1> DEFINE r == apply(m, n, op)
<1>1. /\ m = [strokes |-> m.strokes, dedupe |-> m.dedupe, lastApplied |-> n - 1]
      /\ m.strokes \in Seq(Drawing) /\ Len(m.strokes) \in Nat
      /\ m.dedupe \in Seq(Rows(Client))
      /\ \A k \in 1 .. Len(m.dedupe) : m.dedupe[k].index < n
  BY DEF Draws
<1>2. CASE r = [strokes |-> m.strokes, dedupe |-> m.dedupe, lastApplied |-> n]
  <2>1. r.strokes = m.strokes /\ r.dedupe = m.dedupe
    BY <1>2
  <2> HIDE DEF r
  <2>2. DrawsOnce(r)
    BY <2>1 DEF DrawsOnce
  <2> QED BY <2>2 DEF r
<1>3. CASE /\ op \in Stroke /\ Seen(m, op) = {}
           /\ r = [strokes     |-> Append(m.strokes, [index |-> n, op |-> op]),
                   dedupe      |-> touchDedupe(m.dedupe, op, n),
                   lastApplied |-> n]
  <2> DEFINE d == [index |-> n, op |-> op]
             e == [client |-> op.client, seq |-> op.seq, index |-> n]
             t == touchDedupe(m.dedupe, op, n)
             s == Append(m.strokes, d)
  <2>1. r.strokes = s /\ r.dedupe = t
    BY <1>3
  <2>2. /\ d \in Drawing /\ e \in Rows(Client) /\ d.op = op /\ e.index = n
        /\ e.client = op.client /\ e.seq = op.seq
    BY <1>3, TouchedRow
  <2>3. Moved(Client, m.dedupe, e, t)
    BY <1>1, <2>2, TouchMoves
  <2> HIDE DEF r, t, d, e
  <2>4. /\ Len(s) = Len(m.strokes) + 1
        /\ \A k \in 1 .. Len(m.strokes) : s[k] = m.strokes[k]
        /\ s[Len(m.strokes) + 1] = d
    BY <1>1, <2>2, AppendProperties
  <2> HIDE DEF s
  <2>5. /\ Rising(t)
        /\ \E j \in 1 .. Len(t) : t[j] = e
        /\ \A k \in 1 .. Len(m.dedupe) : m.dedupe[k].client # e.client =>
                                           \E j \in 1 .. Len(t) : t[j] = m.dedupe[k]
    BY <1>1, <2>2, <2>3, TouchedRising DEF DrawsOnce
  <2>6. /\ \A k \in 1 .. Len(m.strokes) : m.strokes[k].op # op
        /\ \A k \in 1 .. Len(m.strokes) :
             m.strokes[k].op.client = op.client => op.seq >= m.strokes[k].op.seq
    BY <1>3, UnseenIsNew
  <2>7. \A k \in 1 .. Len(s) : \/ k \in 1 .. Len(m.strokes) /\ s[k] = m.strokes[k]
                               \/ k = Len(m.strokes) + 1 /\ s[k].op = op
    BY <1>1, <2>2, <2>4
  <2>8. ASSUME NEW a \in 1 .. Len(s), NEW b \in 1 .. Len(s), s[a].op = s[b].op PROVE a = b
    BY <2>6, <2>7, <2>8 DEF DrawsOnce
  <2>9. ASSUME NEW k \in 1 .. Len(s)
        PROVE  \E j \in 1 .. Len(t) : t[j].client = s[k].op.client /\ t[j].seq >= s[k].op.seq
    <3>1. PICK last \in 1 .. Len(t) : t[last] = e
      BY <2>5
    <3>2. CASE k = Len(m.strokes) + 1 /\ s[k].op = op
      <4>1. op.seq \in Int
        BY <1>3, StrokeFields
      <4> QED BY <2>2, <3>1, <3>2, <4>1
    <3>3. CASE /\ k \in 1 .. Len(m.strokes) /\ s[k] = m.strokes[k]
               /\ m.strokes[k].op.client = op.client
      BY <2>2, <2>6, <3>1, <3>3
    <3>4. CASE /\ k \in 1 .. Len(m.strokes) /\ s[k] = m.strokes[k]
               /\ m.strokes[k].op.client # op.client
      <4>1. PICK i \in 1 .. Len(m.dedupe) : /\ m.dedupe[i].client = m.strokes[k].op.client
                                            /\ m.dedupe[i].seq >= m.strokes[k].op.seq
        BY <3>4 DEF DrawsOnce
      <4>2. PICK j \in 1 .. Len(t) : t[j] = m.dedupe[i]
        BY <2>2, <2>5, <3>4, <4>1
      <4> QED BY <3>4, <4>1, <4>2
    <3> QED BY <2>7, <3>2, <3>3, <3>4
  <2>10. DrawsOnce(r)
    BY <2>1, <2>5, <2>8, <2>9 DEF DrawsOnce
  <2> QED BY <2>10 DEF r
<1> QED BY <1>1, <1>2, <1>3, ApplyCases

\* Every machine of a log draws its strokes once.
LEMMA MachinesDrawOnce ==
  ASSUME IsFiniteSet(Client), Cardinality(Client) <= dedupeMaxClients,
         NEW l \in Seq(Entry)
  PROVE  DrawsOnce(Machine(l))
<1>1. PICK h : Machines(l, h) /\ Machine(l) = h[Len(l)]
  BY MachineExists
<1>2. Len(l) \in Nat
  OBVIOUS
<1> DEFINE T == {n \in 0 .. Len(l) : DrawsOnce(h[n])}
<1>3. 0 \in T
  <2>1. h[0].strokes = <<>> /\ h[0].dedupe = <<>>
    BY <1>1 DEF Machines, EmptyMachine
  <2>2. DrawsOnce(h[0])
    BY <2>1 DEF DrawsOnce, Rising
  <2> QED BY <1>2, <2>2
<1>4. ASSUME NEW n \in 0 .. Len(l) - 1, n \in T PROVE n + 1 \in T
  <2>1. n \in Nat /\ n \in 0 .. Len(l) /\ n + 1 \in 1 .. Len(l) /\ (n + 1) - 1 = n
    BY <1>2
  <2>2. Draws(l, n, h[n]) /\ DrawsOnce(h[n])
    BY <1>1, <1>4, <2>1, MachinesDraw
  <2>3. l[n + 1].op \in Stroke \cup {Noop}
    <3>1. l[n + 1] \in Entry
      BY <2>1
    <3> QED BY <3>1 DEF Entry
  <2>4. h[n + 1] = apply(h[n], n, l[n + 1].op)
    <3>1. h[n + 1] = apply(h[(n + 1) - 1], (n + 1) - 1, l[n + 1].op)
      BY <1>1, <2>1 DEF Machines
    <3> QED BY <2>1, <3>1
  <2>5. DrawsOnce(h[n + 1])
    BY <2>1, <2>2, <2>3, <2>4, ApplyOnce
  <2> QED BY <1>2, <2>1, <2>5
<1> HIDE DEF T
<1>5. \A n \in 0 .. Len(l) : n \in T
  BY <1>2, <1>3, <1>4, UpToBound
<1>6. Len(l) \in T
  BY <1>2, <1>5
<1> QED BY <1>1, <1>6 DEF T

\* With no more tabs than the dedupe table has room for, a stroke is drawn
\* once, however often it is handed in and whichever leaders append it.
THEOREM RetriesTheorem ==
  ASSUME IsFiniteSet(Client), Cardinality(Client) <= dedupeMaxClients
  PROVE  Spec => []RetriesDrawOnce
<1>1. ASSUME GatewayInv PROVE RetriesDrawOnce
  <2>1. committed \in Seq(Entry)
    BY <1>1 DEF GatewayInv, ReplicasOK, LogsOK
  <2>2. DrawsOnce(Machine(committed))
    BY <2>1, MachinesDrawOnce
  <2> QED BY <2>2 DEF DrawsOnce, RetriesDrawOnce, Drawn
<1> QED BY <1>1, GatewayInvariant, PTL

-----------------------------------------------------------------------------
(***************************************************************************)
(* Acknowledgements.  A submit that waits knows where its stroke is in the *)
(* log of the leader it waits at, as long as that replica is not elected   *)
(* again, and what it is answered with is the index of a committed stroke. *)
(***************************************************************************)

\* The entry with the index x of the log l is the stroke op, or a later one of
\* its client.
Names(l, x, op) ==
  /\ x \in 0 .. Len(l) - 1
  /\ l[x + 1].op \in Stroke
  /\ l[x + 1].op.client = op.client /\ l[x + 1].op.seq >= op.seq

\* The forward f waits for its entry in the log of its target.
Waits(f) ==
  /\ f.target \in Server /\ f.term = ledIn[f.target]
  /\ f.index \in 0 .. Len(logs[f.target]) - 1
  /\ logs[f.target][f.index + 1].op = f.op

Phased(f) == {"phase", "index", "term"} \subseteq DOMAIN f

\* Neither an answer nor a submit that waits for one.
Unanswered(f) == Phased(f) /\ f.phase # "waiting" /\ f.phase # "acked"

AckOK(f) ==
  /\ Phased(f)
  /\ f.phase = "waiting" => Waits(f)
  /\ f.phase = "acked" => Names(committed, f.index, f.op)

AcksOK == \A f \in forwards : AckOK(f)

\* The index the dedupe table has for a stroke is that of the stroke, or of a
\* later one of its client.
LEMMA CachedNames ==
  ASSUME NEW l, Len(l) \in Nat, NEW n \in 0 .. Len(l), NEW m, Draws(l, n, m), NEW op \in Stroke,
         getDedupeIndex(m, op) # Nil
  PROVE  Names(l, getDedupeIndex(m, op), op)
<1> DEFINE k == CHOOSE k \in Seen(m, op) : TRUE
<1>1. Seen(m, op) # {}
  BY DEF getDedupeIndex
<1>2. k \in Seen(m, op) /\ getDedupeIndex(m, op) = m.dedupe[k].index
  BY <1>1 DEF getDedupeIndex
<1> HIDE DEF k
<1>3. k \in 1 .. Len(m.dedupe) /\ m.dedupe[k].client = op.client /\ m.dedupe[k].seq >= op.seq
  BY <1>2 DEF Seen
<1>4. m.dedupe[k].index \in Nat /\ m.dedupe[k].index < n /\ RowNames(l, m.dedupe[k])
  BY <1>3, RowFields DEF Draws
<1>5. m.dedupe[k].index \in 0 .. Len(l) - 1
  BY <1>4
<1> QED BY <1>2, <1>3, <1>4, <1>5 DEF Names, RowNames

\* It is below what the machine has applied.
LEMMA CachedBelow ==
  ASSUME NEW l, NEW n, NEW m, Draws(l, n, m), NEW op, getDedupeIndex(m, op) # Nil
  PROVE  getDedupeIndex(m, op) < n
<1> DEFINE k == CHOOSE k \in Seen(m, op) : TRUE
<1>1. Seen(m, op) # {}
  BY DEF getDedupeIndex
<1>2. k \in Seen(m, op) /\ getDedupeIndex(m, op) = m.dedupe[k].index
  BY <1>1 DEF getDedupeIndex
<1> HIDE DEF k
<1>3. k \in 1 .. Len(m.dedupe)
  BY <1>2 DEF Seen
<1> QED BY <1>2, <1>3 DEF Draws

\* What an index of a log names it names in every longer log.
LEMMA NamesLonger ==
  ASSUME NEW l, NEW k, Len(l) \in Nat, Len(k) \in Nat, NEW n \in 0 .. Len(l), n <= Len(k),
         \A j \in 1 .. n : k[j] = l[j], NEW x \in 0 .. n - 1, NEW op, Names(l, x, op)
  PROVE  Names(k, x, op)
<1>1. x + 1 \in 1 .. n /\ x \in 0 .. Len(k) - 1
  OBVIOUS
<1>2. k[x + 1] = l[x + 1]
  BY <1>1
<1> QED BY <1>1, <1>2 DEF Names

\* An acknowledgement stays true, and so does a submit that waits at a replica
\* that is not elected.
LEMMA AckKept ==
  ASSUME ReplicasOK, ReplicasOK', NEW f, AckOK(f), Begins(committed, committed'),
         f.phase = "waiting" =>
           ledIn'[f.target] = ledIn[f.target] /\ Begins(logs[f.target], logs'[f.target])
  PROVE  AckOK(f)'
<1>1. Len(committed) \in Nat /\ Len(committed') \in Nat
  BY DEF ReplicasOK, LogsOK
<1>2. CASE f.phase = "waiting"
  <2>1. /\ f.target \in Server /\ f.term = ledIn'[f.target]
        /\ Begins(logs[f.target], logs'[f.target])
        /\ f.index \in 0 .. Len(logs[f.target]) - 1
        /\ logs[f.target][f.index + 1].op = f.op
    BY <1>2 DEF AckOK, Waits
  <2>2. Len(logs[f.target]) \in Nat /\ Len(logs'[f.target]) \in Nat
    BY <2>1 DEF ReplicasOK, LogsOK
  <2>3. f.index + 1 \in 1 .. Len(logs[f.target]) /\ f.index \in 0 .. Len(logs'[f.target]) - 1
    BY <2>1, <2>2 DEF Begins
  <2>4. logs'[f.target][f.index + 1] = logs[f.target][f.index + 1]
    BY <2>1, <2>3 DEF Begins
  <2>5. Waits(f)'
    BY <2>1, <2>3, <2>4 DEF Waits
  <2> QED BY <1>2, <2>5 DEF AckOK, Phased
<1>3. CASE f.phase = "acked"
  <2>1. Names(committed, f.index, f.op)
    BY <1>3 DEF AckOK
  <2>2. f.index \in 0 .. Len(committed) - 1
    BY <2>1 DEF Names
  <2>3. Len(committed) \in 0 .. Len(committed) /\ Len(committed) <= Len(committed')
        /\ \A j \in 1 .. Len(committed) : committed'[j] = committed[j]
    BY <1>1 DEF Begins
  <2>4. Names(committed', f.index, f.op)
    BY <1>1, <2>1, <2>2, <2>3, NamesLonger
  <2> QED BY <1>3, <2>4 DEF AckOK, Phased
<1>4. CASE f.phase # "waiting" /\ f.phase # "acked"
  BY <1>4 DEF AckOK, Phased
<1> QED BY <1>2, <1>3, <1>4

\* A step that leaves the logs alone and answers nobody.
LEMMA NoAnswer ==
  ASSUME ReplicasOK, AcksOK, UNCHANGED <<ledIn, logs, committed>>,
         \A g \in forwards' : g \in forwards \/ Unanswered(g)
  PROVE  AcksOK'
<1>1. \A g : Unanswered(g) => AckOK(g)'
  BY DEF Unanswered, AckOK, Phased
<1>2. \A g : AckOK(g) => AckOK(g)'
  BY DEF AckOK, Phased, Waits, Names
<1> QED BY <1>1, <1>2 DEF AcksOK

\* An attempt that begins has no answer.
LEMMA AttemptUnanswered ==
  ASSUME NEW f, NEW n, NEW url
  PROVE  Unanswered(Attempt(f, n, url)) /\ \A g \in failed(f, url) : Unanswered(g)
<1>1. \A a : Unanswered(Attempt(f, a, url))
  BY DEF Attempt, Unanswered, Phased
<1> QED BY <1>1 DEF failed

\* The steps of a forward.
LEMMA GatewayStepAcks ==
  ASSUME ReplicasOK, AcksOK, NEW f \in forwards, GatewayStep(f)
  PROVE  AcksOK'
<1>1. UNCHANGED <<ledIn, logs, committed>>
  BY DEF GatewayStep, Discover, Redirected, Retry, Forwarded, replicas
<1>2. ASSUME NEW g \in forwards' PROVE g \in forwards \/ Unanswered(g)
  <2>1. \/ g \in forwards \/ g = Attempt(f, f.attempt, currentLeader')
        \/ g \in failed(f, Nil) \/ g \in failed(f, currentLeader')
    BY DEF GatewayStep, Discover, Redirected, Retry, Forwarded
  <2> QED BY <2>1, AttemptUnanswered
<1> QED BY <1>1, <1>2, NoAnswer

\* A leader that appends a stroke keeps what it had.
LEMMA AppendBegins ==
  ASSUME ReplicasOK, NEW i \in Server, NEW op \in Stroke, appendStroke(i, op)
  PROVE  /\ \A j \in Server : Begins(logs[j], logs'[j])
         /\ Len(logs[i]) \in Nat /\ Len(logs'[i]) = Len(logs[i]) + 1
         /\ logs'[i][Len(logs[i]) + 1].op = op
<1> DEFINE e == [term |-> ledIn[i], op |-> op]
<1>1. TermsOK /\ LogsOK
  BY DEF ReplicasOK
<1>2. e \in Entry /\ e.op = op
  BY <1>1, GatewayAssumption DEF Entry, TermsOK
<1>3. logs' = [logs EXCEPT ![i] = Append(@, e)]
  BY DEF appendStroke
<1> HIDE DEF e
<1>4. /\ \A j \in Server : logs'[j] = IF j = i THEN Append(logs[j], e) ELSE logs[j]
      /\ \A j \in Server : logs[j] \in Seq(Entry) /\ Len(logs[j]) \in Nat
  BY <1>1, <1>3 DEF LogsOK
<1>5. /\ Len(Append(logs[i], e)) = Len(logs[i]) + 1
      /\ \A k \in 1 .. Len(logs[i]) : Append(logs[i], e)[k] = logs[i][k]
      /\ Append(logs[i], e)[Len(logs[i]) + 1] = e
  BY <1>2, <1>4, AppendProperties
<1> DEFINE l == Append(logs[i], e)
<1> HIDE DEF l
<1>6. logs'[i] = l /\ Len(l) = Len(logs[i]) + 1 /\ l[Len(logs[i]) + 1] = e
      /\ \A k \in 1 .. Len(logs[i]) : l[k] = logs[i][k]
  BY <1>4, <1>5 DEF l
<1>7. Begins(logs[i], logs'[i])
  <2>1. Len(logs[i]) <= Len(l)
    BY <1>4, <1>6
  <2> QED BY <1>6, <2>1 DEF Begins
<1>8. \A j \in Server : j # i => Begins(logs[j], logs'[j])
  BY <1>4 DEF Begins
<1> QED BY <1>2, <1>4, <1>6, <1>7, <1>8

\* A submit waits for the entry it appended.
LEMMA SubmitAcks ==
  ASSUME GatewayInv, ReplicasOK', AcksOK, NEW f \in forwards, Submit(f)
  PROVE  AcksOK'
<1>0. PICK g : g = [f EXCEPT !.phase = "waiting", !.index = Len(logs[f.target]),
                             !.term = ledIn[f.target]]
  OBVIOUS
<1>1. ReplicasOK /\ LeadersOK /\ Forward(f) /\ Phased(f)
  BY DEF GatewayInv, RequestsOK, AcksOK, AckOK
<1>2. /\ appendStroke(f.target, f.op)
      /\ forwards' = (forwards \ {f}) \cup {g}
      /\ UNCHANGED <<ledIn, committed>>
  BY <1>0 DEF Submit
<1>3. f.target \in Server /\ f.op \in Stroke
  BY <1>1, <1>2 DEF appendStroke, LeadersOK, Led, Forward
<1>4. /\ \A j \in Server : Begins(logs[j], logs'[j])
      /\ Len(logs[f.target]) \in Nat /\ Len(logs'[f.target]) = Len(logs[f.target]) + 1
      /\ logs'[f.target][Len(logs[f.target]) + 1].op = f.op
  BY <1>1, <1>2, <1>3, AppendBegins
<1>5. Begins(committed, committed')
  BY <1>1, <1>2, SameBegins
<1>6. ASSUME NEW h \in forwards PROVE AckOK(h)'
  <2>1. AckOK(h) /\ (h.phase = "waiting" => h.target \in Server)
    BY DEF AcksOK, AckOK, Waits
  <2> QED BY <1>1, <1>2, <1>4, <1>5, <2>1, AckKept
<1>7. /\ g.phase = "waiting" /\ g.index = Len(logs[f.target]) /\ g.term = ledIn[f.target]
      /\ g.target = f.target /\ g.op = f.op /\ Phased(g)
  BY <1>0, <1>1 DEF Phased
<1>8. Waits(g)'
  <2>1. g.index \in 0 .. Len(logs'[g.target]) - 1
    BY <1>4, <1>7
  <2> QED BY <1>2, <1>3, <1>4, <1>7, <2>1 DEF Waits
<1>9. AckOK(g)'
  BY <1>7, <1>8 DEF AckOK, Phased
<1> QED BY <1>2, <1>6, <1>9 DEF AcksOK

\* A late request appends to the log behind the entries others wait for.
LEMMA SubmitLateAcks ==
  ASSUME GatewayInv, ReplicasOK', AcksOK, NEW s \in late, SubmitLate(s)
  PROVE  AcksOK'
<1>1. ReplicasOK /\ LeadersOK /\ s.op \in Stroke
  BY DEF GatewayInv, RequestsOK
<1>2. appendStroke(s.target, s.op) /\ UNCHANGED <<forwards, ledIn, committed>>
  BY DEF SubmitLate
<1>3. s.target \in Server
  BY <1>1, <1>2 DEF appendStroke, LeadersOK, Led
<1>4. \A j \in Server : Begins(logs[j], logs'[j])
  BY <1>1, <1>2, <1>3, AppendBegins
<1>5. Begins(committed, committed')
  BY <1>1, <1>2, SameBegins
<1>6. ASSUME NEW h \in forwards PROVE AckOK(h)'
  <2>1. AckOK(h) /\ (h.phase = "waiting" => h.target \in Server)
    BY DEF AcksOK, AckOK, Waits
  <2> QED BY <1>1, <1>2, <1>4, <1>5, <2>1, AckKept
<1> QED BY <1>2, <1>6 DEF AcksOK

\* The fast path answers with the index of a stroke the replica has applied.
LEMMA SubmitCachedAcks ==
  ASSUME GatewayInv, AcksOK, NEW f \in forwards, SubmitCached(f)
  PROVE  AcksOK'
<1> DEFINE m == MachineOf(f.target)
           cached == getDedupeIndex(m, f.op)
           last == lastApplied[f.target] + 1
<1>0. PICK g : g = [f EXCEPT !.phase = "acked", !.index = cached]
  OBVIOUS
<1>1. ReplicasOK /\ LeadersOK /\ Forward(f) /\ Phased(f) /\ f.op \in Stroke
  BY DEF GatewayInv, RequestsOK, AcksOK, AckOK, Forward
<1>2. /\ f.target \in leaders /\ cached # Nil
      /\ forwards' = (forwards \ {f}) \cup {g}
      /\ UNCHANGED <<ledIn, logs, committed>>
  BY <1>0 DEF SubmitCached, replicas
<1>3. f.target \in Server
  BY <1>1, <1>2 DEF LeadersOK, Led
<1>4. committed \in Seq(Entry) /\ last \in 0 .. Len(committed) /\ Len(committed) \in Nat
  BY <1>1, <1>3 DEF ReplicasOK, LogsOK
<1>5. Draws(committed, last, m)
  BY <1>4, MachineDraws DEF MachineOf
<1> HIDE DEF m, last
<1>6. Names(committed, cached, f.op)
  BY <1>1, <1>2, <1>4, <1>5, CachedNames
<1> HIDE DEF cached
<1>7. g.phase = "acked" /\ g.op = f.op /\ Phased(g) /\ Names(committed, g.index, g.op)
  BY <1>0, <1>1, <1>6 DEF Phased
<1>8. AckOK(g)'
  BY <1>2, <1>7 DEF AckOK, Phased, Names
<1>9. \A h : AckOK(h) => AckOK(h)'
  BY <1>2 DEF AckOK, Phased, Waits, Names
<1> QED BY <1>2, <1>8, <1>9 DEF AcksOK

\* A commit answers with the index of a stroke it committed.
LEMMA CommitAcks ==
  ASSUME GatewayInv, AcksOK, NEW i \in leaders, NEW n \in 0 .. Len(logs[i]) - 1, Commit(i, n)
  PROVE  AcksOK'
<1>1. ReplicasOK /\ LeadersOK /\ RequestsOK
  BY DEF GatewayInv
<1>2. i \in Server
  BY <1>1 DEF LeadersOK, Led
<1>3. ReplicasOK' /\ Begins(committed, committed')
      /\ \A k \in 1 .. n + 1 : k \in 1 .. Len(committed') /\ committed'[k] = logs[i][k]
  BY <1>1, CommitReplicas DEF Commits
<1>4. /\ forwards' = {IF f.phase = "waiting" /\ f.target = i THEN answer(f, i, n) ELSE f
                      : f \in forwards}
      /\ UNCHANGED <<ledIn, logs>>
  BY DEF Commit
<1>5. /\ logs[i] \in Seq(Entry) /\ Len(logs[i]) \in Nat /\ n \in Nat
      /\ n + 1 \in 0 .. Len(logs[i]) /\ Len(committed') \in Nat
  BY <1>1, <1>2, <1>3 DEF ReplicasOK, LogsOK
<1>6. ASSUME NEW h, AckOK(h) PROVE AckOK(h)'
  <2>1. h.phase = "waiting" => /\ ledIn'[h.target] = ledIn[h.target]
                               /\ Begins(logs[h.target], logs'[h.target])
    <3>1. h.phase = "waiting" => h.target \in Server
      BY <1>6 DEF AckOK, Waits
    <3>2. \A j \in Server : Len(logs[j]) \in Nat
      BY <1>1 DEF ReplicasOK, LogsOK
    <3> QED BY <1>4, <3>1, <3>2 DEF Begins
  <2> QED BY <1>1, <1>3, <1>6, <2>1, AckKept
<1>7. ASSUME NEW f \in forwards, f.phase = "waiting", f.target = i,
             NEW a, a = answer(f, i, n)
      PROVE  AckOK(a)'
  <2> DEFINE m == Machine(SubSeq(logs[i], 1, n + 1))
             authoritative == getDedupeIndex(m, f.op)
             x == IF authoritative = Nil THEN f.index ELSE authoritative
             r == [f EXCEPT !.phase = "rejected"]
  <2>1. AckOK(f) /\ Phased(f) /\ Waits(f) /\ f.op \in Stroke
    BY <1>1, <1>7 DEF AcksOK, AckOK, RequestsOK, Forward
  <2>2. a = IF f.index <= n THEN [f EXCEPT !.phase = "acked", !.index = x]
            ELSE IF f.term # ledIn[i] THEN r ELSE f
    BY <1>7 DEF answer
  <2>3. Draws(logs[i], n + 1, m)
    BY <1>5, MachineDraws
  <2> HIDE DEF m
  <2>4. authoritative # Nil => Names(logs[i], authoritative, f.op) /\ authoritative < n + 1
    <3>1. authoritative # Nil => Names(logs[i], authoritative, f.op)
      BY <1>5, <2>1, <2>3, CachedNames
    <3>2. authoritative # Nil => authoritative < n + 1
      BY <2>3, CachedBelow
    <3> QED BY <3>1, <3>2
  <2> HIDE DEF authoritative
  <2>5. f.index \in 0 .. Len(logs[i]) - 1 /\ logs[i][f.index + 1].op = f.op
    BY <1>7, <2>1 DEF Waits
  <2>6. CASE f.index <= n
    <3>1. Names(logs[i], f.index, f.op)
      <4>1. f.op.seq >= f.op.seq
        BY <2>1, StrokeFields
      <4> QED BY <2>1, <2>5, <4>1 DEF Names
    <3>2. Names(logs[i], x, f.op) /\ x \in 0 .. n
      <4>1. CASE authoritative = Nil
        BY <1>5, <2>5, <2>6, <3>1, <4>1
      <4>2. CASE authoritative # Nil
        <5>1. Names(logs[i], authoritative, f.op) /\ authoritative < n + 1
          BY <2>4, <4>2
        <5>2. authoritative \in 0 .. n
          BY <1>5, <5>1 DEF Names
        <5> QED BY <4>2, <5>1, <5>2
      <4> QED BY <4>1, <4>2
    <3> HIDE DEF x
    <3>3. Names(committed', x, f.op)
      <4>1. n + 1 <= Len(committed') /\ x \in 0 .. (n + 1) - 1
        <5>1. n + 1 \in 1 .. n + 1
          BY <1>5
        <5>2. n + 1 \in 1 .. Len(committed')
          BY <1>3, <5>1
        <5> QED BY <1>5, <3>2, <5>2
      <4> QED BY <1>3, <1>5, <3>2, <4>1, NamesLonger
    <3>4. a.phase = "acked" /\ a.index = x /\ a.op = f.op /\ Phased(a)
      BY <2>1, <2>2, <2>6 DEF Phased
    <3>5. Names(committed', a.index, a.op)
      BY <3>3, <3>4
    <3> QED BY <3>4, <3>5 DEF AckOK, Phased
  <2>7. CASE ~(f.index <= n)
    <3>1. a = f
      BY <1>7, <2>1, <2>2, <2>7 DEF Waits
    <3> QED BY <1>6, <2>1, <3>1
  <2> QED BY <2>6, <2>7
<1>8. ASSUME NEW h \in forwards' PROVE AckOK(h)'
  <2>1. PICK f \in forwards :
          h = IF f.phase = "waiting" /\ f.target = i THEN answer(f, i, n) ELSE f
    BY <1>4
  <2>2. AckOK(f)
    BY DEF AcksOK
  <2> QED BY <1>6, <1>7, <2>1, <2>2
<1> QED BY <1>8 DEF AcksOK

\* An election touches no replica at which a submit waits.
LEMMA ElectedAcks ==
  ASSUME GatewayInv, ReplicasOK', AcksOK, NoReelection, NEW i \in Server, NEW j \in Server,
         NEW kept \in 0 .. Len(logs[j]), Elected(i, j, kept)
  PROVE  AcksOK'
<1>1. ReplicasOK /\ \A k \in Server : Len(logs[k]) \in Nat
  BY DEF GatewayInv, ReplicasOK, LogsOK
<1>2. /\ UNCHANGED <<forwards, committed>>
      /\ \E l : logs' = [logs EXCEPT ![i] = l]
  BY DEF Elected
<1>3. ledIn'[i] # ledIn[i]
  BY <1>1, ElectedReplicas
<1>4. ASSUME NEW h \in forwards PROVE AckOK(h)'
  <2>1. AckOK(h) /\ (h.phase = "waiting" => h.target \in Server)
    BY DEF AcksOK, AckOK, Waits
  <2>2. h.phase = "waiting" => ledIn'[h.target] = ledIn[h.target]
    BY DEF NoReelection
  <2>3. h.phase = "waiting" => logs'[h.target] = logs[h.target]
    BY <1>2, <1>3, <2>1, <2>2
  <2>4. h.phase = "waiting" => Begins(logs[h.target], logs'[h.target])
    BY <1>1, <2>1, <2>3 DEF Begins
  <2>5. Begins(committed, committed')
    BY <1>1, <1>2, SameBegins
  <2> QED BY <1>1, <2>1, <2>2, <2>4, <2>5, AckKept
<1> QED BY <1>2, <1>4 DEF AcksOK

\* A replica killed rejects who waits at it.
LEMMA RestartAcks ==
  ASSUME GatewayInv, AcksOK, NEW i \in Server, Restart(i)
  PROVE  AcksOK'
<1>1. /\ forwards' = {IF f.phase = "waiting" /\ f.target = i THEN [f EXCEPT !.phase = "rejected"]
                      ELSE f : f \in forwards}
      /\ UNCHANGED <<ledIn, logs, committed>>
  BY DEF Restart
<1>2. ASSUME NEW f \in forwards PROVE Unanswered([f EXCEPT !.phase = "rejected"])
  <2>1. Phased(f)
    BY DEF AcksOK, AckOK
  <2> QED BY <2>1 DEF Phased, Unanswered
<1>3. \A g \in forwards' : g \in forwards \/ Unanswered(g)
  BY <1>1, <1>2
<1> QED BY <1>1, <1>3, NoAnswer DEF GatewayInv

\* Every step keeps the acknowledgements true, unless it elects a replica at
\* which a submit waits.
LEMMA AcksOKNext ==
  ASSUME GatewayInv, GatewayInv', AcksOK, [Next]_vars, [NoReelection]_vars
  PROVE  AcksOK'
<1>1. ReplicasOK /\ ReplicasOK'
  BY DEF GatewayInv
<1>2. ASSUME NEW c \in Client,
             \/ SendStroke(c) \/ Connect(c) \/ Disconnect(c)
             \/ Reload(c) \/ Clear(c) \/ \E i \in Server : Replay(c, i)
      PROVE  AcksOK'
  <2>1. UNCHANGED <<forwards, ledIn, logs, committed>>
    BY <1>2 DEF SendStroke, Connect, Disconnect, Reload, Clear, Replay, replicas
  <2> QED BY <1>1, <2>1, NoAnswer
<1>3. ASSUME NEW c \in Client, Receive(c) PROVE AcksOK'
  <2>1. UNCHANGED <<ledIn, logs, committed>>
    BY <1>3 DEF Receive, replicas
  <2>2. \E f : forwards' = forwards \cup {Attempt(f, 0, currentLeader)}
    BY <1>3 DEF Receive
  <2>3. \A g \in forwards' : g \in forwards \/ Unanswered(g)
    BY <2>2, AttemptUnanswered
  <2> QED BY <1>1, <2>1, <2>3, NoAnswer
<1>4. CASE RestartGateway
  <2>1. UNCHANGED <<ledIn, logs, committed>> /\ forwards' = {}
    BY <1>4 DEF RestartGateway, replicas
  <2> QED BY <2>1 DEF AcksOK
<1>5. ASSUME NEW b \in broadcasts, Broadcast(b) PROVE AcksOK'
  <2>1. UNCHANGED <<forwards, ledIn, logs, committed>>
    BY <1>5 DEF Broadcast, replicas
  <2> QED BY <1>1, <2>1, NoAnswer
<1>6. ASSUME NEW f \in forwards, GatewayStep(f) \/ Submit(f) \/ SubmitCached(f) PROVE AcksOK'
  BY <1>1, <1>6, GatewayStepAcks, SubmitAcks, SubmitCachedAcks
<1>7. ASSUME NEW s \in late, SubmitLate(s) PROVE AcksOK'
  BY <1>1, <1>7, SubmitLateAcks
<1>8. ASSUME NEW i \in registrations, Register(i) PROVE AcksOK'
  <2>1. UNCHANGED <<forwards, ledIn, logs, committed>>
    BY <1>8 DEF Register, replicas
  <2> QED BY <1>1, <2>1, NoAnswer
<1>9. ASSUME NEW i \in leaders, StepDown(i) PROVE AcksOK'
  <2>1. UNCHANGED <<forwards, ledIn, logs, committed>>
    BY <1>9 DEF StepDown
  <2> QED BY <1>1, <2>1, NoAnswer
<1>10. ASSUME NEW i \in leaders, NEW n \in 0 .. Len(logs[i]) - 1, Commit(i, n) PROVE AcksOK'
  BY <1>10, CommitAcks
<1>11. ASSUME NEW i \in Server, NEW n, Follow(i, n) PROVE AcksOK'
  <2>1. UNCHANGED <<forwards, ledIn, logs, committed>>
    BY <1>11 DEF Follow
  <2> QED BY <1>1, <2>1, NoAnswer
<1>12. ASSUME NEW i \in Server, NEW j \in Server, NEW kept \in 0 .. Len(logs[j]),
              Elected(i, j, kept)
       PROVE  AcksOK'
  <2>1. NoReelection
    <3>1. CASE UNCHANGED vars
      <4>1. ledIn' = ledIn
        BY <3>1 DEF vars, replicas
      <4> QED BY <4>1 DEF NoReelection
    <3> QED BY <3>1
  <2> QED BY <1>1, <1>12, <2>1, ElectedAcks
<1>13. ASSUME NEW i \in Server, Restart(i) PROVE AcksOK'
  BY <1>13, RestartAcks
<1>14. CASE UNCHANGED vars
  <2>1. UNCHANGED <<forwards, ledIn, logs, committed>>
    BY <1>14 DEF vars, replicas
  <2> QED BY <1>1, <2>1, NoAnswer
<1> QED BY <1>2, <1>3, <1>4, <1>5, <1>6, <1>7, <1>8, <1>9, <1>10, <1>11, <1>12, <1>13, <1>14
        DEF Next

\* As long as no replica is elected again while a submit of its earlier
\* leadership waits in _awaitCommit, the index POST /stroke answers with is
\* that of a committed stroke of the tab, the one posted or a later one.
THEOREM AckTheorem == Spec /\ [][NoReelection]_vars => []AckNamesCommit
<1>1. Init => AcksOK
  BY DEF Init, AcksOK
<1>2. GatewayInv /\ GatewayInv' /\ AcksOK /\ [Next]_vars /\ [NoReelection]_vars => AcksOK'
  BY AcksOKNext
<1>3. GatewayInv /\ AcksOK => AckNamesCommit
  <2> SUFFICES ASSUME GatewayInv, AcksOK, NEW a \in Acknowledgements
               PROVE  /\ a.index < Len(committed)
                      /\ committed[a.index + 1].op # Noop
                      /\ committed[a.index + 1].op.client = a.op.client
                      /\ committed[a.index + 1].op.seq >= a.op.seq
    BY DEF AckNamesCommit
  <2>1. Names(committed, a.index, a.op)
    BY DEF Acknowledgements, AcksOK, AckOK
  <2>2. Len(committed) \in Nat
    BY DEF GatewayInv, ReplicasOK, LogsOK
  <2>3. committed[a.index + 1].op # Noop
    BY <2>1, StrokeFields DEF Names
  <2> QED BY <2>1, <2>2, <2>3 DEF Names
<1> QED BY <1>1, <1>2, <1>3, GatewayInvariant, PTL DEF Spec
=============================================================================
