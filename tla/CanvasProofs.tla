---------------------------- MODULE CanvasProofs ----------------------------
(***************************************************************************)
(* The canvas for every number of replicas, clients and strokes and every  *)
(* size of the dedupe table: replicas that applied as much agree           *)
(* (ReplicasAgree), what they draw and remember is what the reference      *)
(* reading of the whole log calls for (DrawsTheLog), and GET /log serves   *)
(* what a replica drew, at once or in two parts (HistoryIsComplete).       *)
(*                                                                         *)
(* The argument keeps beside the log a history, the machine after each     *)
(* prefix of it, and a reading, the indexes drawn in each prefix.  Every   *)
(* machine and every snapshot is one of the history, whichever way it was  *)
(* come by, and each machine of the history matches the reading.           *)
(***************************************************************************)
EXTENDS Canvas, MachineFacts

-----------------------------------------------------------------------------
(***************************************************************************)
(* The last stroke drawn of a client.                                      *)
(***************************************************************************)

\* LastDrawn and Forgotten for a log that is given.
Mine(lg, drawn, c) == {n \in drawn : lg[n + 1].client = c}

Greatest(S) == IF S = {} THEN -1 ELSE CHOOSE n \in S : \A k \in S : n >= k

LastOf(lg, drawn, c) == Greatest(Mine(lg, drawn, c))

Later(lg, drawn, c) == {d \in Client : LastOf(lg, drawn, d) > LastOf(lg, drawn, c)}

\* LastDrawn and Forgotten are these for the log of the state.
LEMMA LastOfLog ==
  ASSUME NEW drawn, NEW c
  PROVE  /\ LastDrawn(drawn, c) = LastOf(log, drawn, c)
         /\ Forgotten(drawn, c) <=> Cardinality(Later(log, drawn, c)) >= dedupeMaxClients
<1>1. \A d : LastDrawn(drawn, d) = LastOf(log, drawn, d)
  BY DEF LastDrawn, LastOf, Greatest, Mine
<1>2. {d \in Client : LastDrawn(drawn, d) > LastDrawn(drawn, c)} = Later(log, drawn, c)
  BY <1>1 DEF Later
<1> QED BY <1>1, <1>2 DEF Forgotten

\* The greatest index drawn of a client is l, or -1 if there is none.
IsLast(lg, drawn, c, l) ==
  /\ l \in drawn \cup {-1}
  /\ l # -1 => lg[l + 1].client = c
  /\ \A k \in drawn : lg[k + 1].client = c => k <= l

\* LastOf gives it.
LEMMA LastIsGreatest ==
  ASSUME NEW n \in Nat, NEW lg, NEW drawn, drawn \subseteq 0 .. n - 1, NEW c
  PROVE  IsLast(lg, drawn, c, LastOf(lg, drawn, c))
<1> USE DEF IsLast
<1> DEFINE M == Mine(lg, drawn, c)
           l == LastOf(lg, drawn, c)
<1>1. CASE M = {}
  BY <1>1 DEF Mine, LastOf, Greatest
<1>2. CASE M # {}
  <2>1. M \subseteq drawn /\ \A k \in M : lg[k + 1].client = c
    BY DEF Mine
  <2>2. M \subseteq 0 .. n
    <3>1. \A k \in 0 .. n - 1 : k \in 0 .. n
      OBVIOUS
    <3> QED BY <2>1, <3>1
  <2>3. \E x \in M : \A y \in M : x >= y
    BY <1>2, <2>2, GreatestNatural
  <2>4. l = CHOOSE x \in M : \A y \in M : x >= y
    BY <1>2 DEF LastOf, Greatest
  <2> HIDE DEF M, l
  <2>5. l \in M /\ \A y \in M : l >= y
    BY <2>3, <2>4
  <2>6. \A k \in drawn : lg[k + 1].client = c => k \in M
    BY DEF M, Mine
  <2> QED BY <2>1, <2>2, <2>5, <2>6 DEF l
<1> QED BY <1>1, <1>2

\* Drawing index n makes it the last of its client and of no other.
LEMMA LastStep ==
  ASSUME NEW n \in Nat, NEW lg, NEW drawn, drawn \subseteq 0 .. n - 1, NEW c
  PROVE  LastOf(lg, drawn \cup {n}, c)
           = IF lg[n + 1].client = c THEN n ELSE LastOf(lg, drawn, c)
<1>1. drawn \cup {n} \subseteq 0 .. (n + 1) - 1
  OBVIOUS
<1>2. CASE lg[n + 1].client = c
  <2> DEFINE l == LastOf(lg, drawn \cup {n}, c)
  <2>1. /\ l \in (drawn \cup {n}) \cup {-1}
        /\ \A k \in drawn \cup {n} : lg[k + 1].client = c => k <= l
    BY <1>1, LastIsGreatest, n + 1 \in Nat DEF IsLast
  <2> HIDE DEF l
  <2>2. l >= n /\ l \in Int /\ l <= n
    BY <1>2, <2>1
  <2> QED BY <1>2, <2>2 DEF l
<1>3. CASE lg[n + 1].client # c
  <2>1. Mine(lg, drawn \cup {n}, c) = Mine(lg, drawn, c)
    BY <1>3 DEF Mine
  <2>2. LastOf(lg, drawn \cup {n}, c) = LastOf(lg, drawn, c)
    BY <2>1, Zenon DEF LastOf
  <2> QED BY <1>3, <2>2
<1> QED BY <1>2, <1>3

\* The logs lg and lh have the same first n entries.
SameTo(lg, lh, n) == \A k \in 1 .. n : lg[k] = lh[k]

SameLast(lg, lh, drawn) == \A c : LastOf(lh, drawn, c) = LastOf(lg, drawn, c)

\* LastOf reads the log below the indexes drawn only.
LEMMA LastSame ==
  ASSUME NEW n \in Nat, NEW lg, NEW lh, SameTo(lg, lh, n), NEW drawn, drawn \subseteq 0 .. n - 1
  PROVE  SameLast(lg, lh, drawn)
<1>1. \A k \in drawn : lg[k + 1] = lh[k + 1]
  <2>1. \A k \in drawn : k + 1 \in 1 .. n
    OBVIOUS
  <2> QED BY <2>1 DEF SameTo
<1>2. \A c : Mine(lh, drawn, c) = Mine(lg, drawn, c)
  BY <1>1, Zenon DEF Mine
<1> QED BY <1>2, Zenon DEF SameLast, LastOf

-----------------------------------------------------------------------------
(***************************************************************************)
(* The dedupe table.                                                       *)
(***************************************************************************)

\* What the dedupe table is for the indexes drawn: the last stroke of each of
\* its clients, oldest first; a client that drew and is not in it is older
\* than all of them, and then the table is full.
TableOf(lg, drawn, t) ==
  /\ t \in Seq(Rows(Client))
  /\ Len(t) <= dedupeMaxClients
  /\ \A k \in 1 .. Len(t) : /\ t[k].index = LastOf(lg, drawn, t[k].client)
                            /\ t[k].seq = lg[t[k].index + 1].seq
  /\ \A a, b \in 1 .. Len(t) : a < b => t[a].index < t[b].index
  /\ \A c \in Client : LastOf(lg, drawn, c) >= 0 =>
       \/ \E k \in 1 .. Len(t) : t[k].client = c
       \/ Len(t) = dedupeMaxClients /\ LastOf(lg, drawn, c) < t[1].index

\* Drawing a stroke of a client and touching its key keep the table what it is.
LEMMA TableStep ==
  ASSUME NEW n \in Nat, NEW lg, NEW drawn, drawn \subseteq 0 .. n - 1,
         lg[n + 1].client \in Client, lg[n + 1].seq \in Int,
         NEW t, TableOf(lg, drawn, t)
  PROVE  TableOf(lg, drawn \cup {n}, touchDedupe(t, lg[n + 1], n))
<1> DEFINE c == lg[n + 1].client
           e == [client |-> c, seq |-> lg[n + 1].seq, index |-> n]
           r == touchDedupe(t, lg[n + 1], n)
           L(d) == LastOf(lg, drawn, d)
           M(d) == LastOf(lg, drawn \cup {n}, d)
<1>1. \A d : M(d) = IF d = c THEN n ELSE L(d)
  BY LastStep
<1>2. \A d : L(d) \in Int /\ L(d) < n
  <2>1. \A d : L(d) \in drawn \cup {-1}
    BY LastIsGreatest DEF IsLast
  <2> HIDE DEF L
  <2> QED BY <2>1
<1>3. e \in Rows(Client) /\ e.client = c /\ e.index = n /\ e.seq = lg[n + 1].seq
  BY DEF Rows
<1>4. t \in Seq(Rows(Client))
  BY DEF TableOf
<1>5. Moved(Client, t, e, r)
  BY <1>3, <1>4, TouchMoves
<1> HIDE DEF e, r, L, M
<1>6. /\ Len(t) \in Nat
      /\ \A k \in 1 .. Len(t) : t[k].client \in Client /\ t[k].index \in Nat
  BY <1>4, RowFields
<1>7. /\ Len(t) <= dedupeMaxClients
      /\ \A k \in 1 .. Len(t) : t[k].index = L(t[k].client) /\ t[k].seq = lg[t[k].index + 1].seq
      /\ \A a, b \in 1 .. Len(t) : a < b => t[a].index < t[b].index
      /\ \A d \in Client : L(d) >= 0 =>
           \/ \E k \in 1 .. Len(t) : t[k].client = d
           \/ Len(t) = dedupeMaxClients /\ L(d) < t[1].index
  BY DEF TableOf, L
<1>8. PICK u : /\ Removed(Client, t, c, u)
               /\ r \in Seq(Rows(Client))
               /\ \/ /\ Len(u) < dedupeMaxClients
                     /\ Len(r) = Len(u) + 1
                     /\ \A k \in 1 .. Len(u) : r[k] = u[k]
                  \/ /\ Len(u) >= dedupeMaxClients
                     /\ Len(r) = Len(u)
                     /\ \A k \in 1 .. Len(u) - 1 : r[k] = u[k + 1]
               /\ r[Len(r)] = e
  BY <1>3, <1>5 DEF Moved
<1>9. /\ u \in Seq(Rows(Client))
      /\ \A k \in 1 .. Len(u) : u[k].client # c /\ \E j \in 1 .. Len(t) : u[k] = t[j]
      /\ \A a, b \in 1 .. Len(u) : a < b => u[a].index < u[b].index
      /\ \A k \in 1 .. Len(t) : t[k].client # c => \E j \in 1 .. Len(u) : u[j] = t[k]
      /\ u = t \/ Len(u) = Len(t) - 1
  <2>1. Rising(t)
    BY <1>7 DEF Rising
  <2>2. Rest(Client, t, c, u)
    BY <1>4, <1>8, <2>1, RemovedLeavesRest
  <2> QED BY <2>2 DEF Rest
<1>10. Len(u) \in Nat /\ dedupeMaxClients \in Nat \ {0} /\ Len(u) <= dedupeMaxClients
  BY <1>6, <1>7, <1>9, DedupeAssumption
\* The rows of u have the index and the seq of the last stroke, and are older than n.
<1>11. \A k \in 1 .. Len(u) : /\ u[k].index = M(u[k].client)
                              /\ u[k].seq = lg[u[k].index + 1].seq
                              /\ u[k].index \in Nat /\ u[k].index < n
  <2>1. SUFFICES ASSUME NEW k \in 1 .. Len(u)
                 PROVE  /\ u[k].index = M(u[k].client)
                        /\ u[k].seq = lg[u[k].index + 1].seq
                        /\ u[k].index \in Nat /\ u[k].index < n
    OBVIOUS
  <2>2. PICK j \in 1 .. Len(t) : u[k] = t[j]
    BY <1>9
  <2>3. u[k].client # c
    BY <1>9
  <2>4. M(u[k].client) = L(u[k].client)
    BY <1>1, <2>3
  <2> QED BY <1>2, <1>6, <1>7, <2>2, <2>4
<1>12. M(c) = n
  BY <1>1
<1> SUFFICES /\ r \in Seq(Rows(Client))
             /\ Len(r) <= dedupeMaxClients
             /\ \A k \in 1 .. Len(r) : /\ r[k].index = M(r[k].client)
                                       /\ r[k].seq = lg[r[k].index + 1].seq
             /\ \A a, b \in 1 .. Len(r) : a < b => r[a].index < r[b].index
             /\ \A d \in Client : M(d) >= 0 =>
                  \/ \E k \in 1 .. Len(r) : r[k].client = d
                  \/ Len(r) = dedupeMaxClients /\ M(d) < r[1].index
  BY DEF TableOf, M, r
\* The table has room: nothing is evicted.
<1>13. CASE Len(u) < dedupeMaxClients
  <2>1. Len(r) = Len(u) + 1 /\ \A k \in 1 .. Len(u) : r[k] = u[k]
    BY <1>8, <1>10, <1>13
  <2>2. r[Len(u) + 1] = e
    BY <1>8, <2>1
  <2>3. \A k \in 1 .. Len(r) : k \in 1 .. Len(u) \/ k = Len(u) + 1
    BY <1>10, <2>1
  <2>4. \A k \in 1 .. Len(r) : r[k].index = M(r[k].client) /\ r[k].seq = lg[r[k].index + 1].seq
    BY <1>3, <1>11, <1>12, <2>1, <2>2, <2>3
  <2>5. ASSUME NEW a \in 1 .. Len(r), NEW b \in 1 .. Len(r), a < b
        PROVE  r[a].index < r[b].index
    <3>1. a \in 1 .. Len(u)
      BY <1>10, <2>1, <2>5
    <3>2. CASE b \in 1 .. Len(u)
      BY <1>9, <2>1, <2>5, <3>1, <3>2
    <3>3. CASE b = Len(u) + 1
      BY <1>3, <1>11, <2>1, <2>2, <3>1, <3>3
    <3> QED BY <2>3, <3>2, <3>3
  <2>6. ASSUME NEW d \in Client, M(d) >= 0
        PROVE  \/ \E k \in 1 .. Len(r) : r[k].client = d
               \/ Len(r) = dedupeMaxClients /\ M(d) < r[1].index
    <3>1. CASE d = c
      <4>1. Len(u) + 1 \in 1 .. Len(r) /\ r[Len(u) + 1].client = d
        BY <1>3, <1>10, <2>1, <2>2, <3>1
      <4> QED BY <4>1
    <3>2. CASE d # c /\ \E k \in 1 .. Len(t) : t[k].client = d
      <4>1. PICK j \in 1 .. Len(u) : u[j].client = d
        BY <1>9, <3>2
      <4>2. j \in 1 .. Len(r) /\ r[j] = u[j]
        BY <1>10, <2>1
      <4> QED BY <4>1, <4>2
    <3>3. CASE d # c /\ ~\E k \in 1 .. Len(t) : t[k].client = d
      <4>1. Len(t) = dedupeMaxClients /\ M(d) < t[1].index
        BY <1>1, <1>7, <2>6, <3>3
      <4>2. u # t /\ Len(u) = Len(t) - 1
        BY <1>9, <1>13, <4>1
      <4>3. Len(r) = dedupeMaxClients
        BY <1>10, <2>1, <4>1, <4>2
      <4>4. 1 \in 1 .. Len(t) /\ Len(r) \in 1 .. Len(r)
        BY <1>10, <4>1, <4>3
      <4>5. t[1].index <= r[1].index
        <5>1. CASE Len(u) = 0
          BY <1>2, <1>3, <1>6, <1>7, <2>2, <4>4, <5>1
        <5>2. CASE Len(u) # 0
          <6>1. 1 \in 1 .. Len(u) /\ r[1] = u[1]
            BY <1>10, <2>1, <5>2
          <6>2. PICK j \in 1 .. Len(t) : u[1] = t[j]
            BY <1>9, <6>1
          <6> QED BY <1>6, <1>7, <4>4, <6>1, <6>2
        <5> QED BY <5>1, <5>2
      <4>6. M(d) \in Int /\ t[1].index \in Int /\ r[1].index \in Int
        <5>1. r[1] \in Rows(Client)
          BY <1>8, <1>10, <4>3
        <5> QED BY <1>1, <1>2, <1>6, <4>4, <5>1 DEF Rows
      <4> QED BY <4>1, <4>3, <4>5, <4>6
    <3> QED BY <3>1, <3>2, <3>3
  <2> QED BY <1>8, <1>10, <1>13, <2>1, <2>4, <2>5, <2>6
\* The table is full and the client is not in it: the oldest row goes.
<1>14. CASE Len(u) = dedupeMaxClients
  <2>1. u = t
    BY <1>6, <1>7, <1>9, <1>10, <1>14
  <2>2. Len(r) = Len(t) /\ \A k \in 1 .. Len(t) - 1 : r[k] = t[k + 1]
    BY <1>8, <1>10, <1>14, <2>1
  <2>3. r[Len(t)] = e /\ Len(t) \in 1 .. Len(t) /\ 1 \in 1 .. Len(t)
    BY <1>8, <1>10, <2>1, <2>2
  <2>4. \A k \in 1 .. Len(r) : \/ k \in 1 .. Len(t) - 1 /\ k + 1 \in 1 .. Len(t)
                               \/ k = Len(t)
    BY <1>6, <2>2
  <2>5. \A k \in 1 .. Len(r) : r[k].index = M(r[k].client) /\ r[k].seq = lg[r[k].index + 1].seq
    BY <1>3, <1>11, <1>12, <2>1, <2>2, <2>3, <2>4
  <2>6. ASSUME NEW a \in 1 .. Len(r), NEW b \in 1 .. Len(r), a < b
        PROVE  r[a].index < r[b].index
    <3>1. a \in 1 .. Len(t) - 1 /\ a + 1 \in 1 .. Len(t)
      BY <1>6, <2>2, <2>6
    <3>2. CASE b \in 1 .. Len(t) - 1
      <4>1. b + 1 \in 1 .. Len(t) /\ a + 1 < b + 1
        BY <1>6, <2>6, <3>1, <3>2
      <4> QED BY <1>7, <2>2, <3>1, <3>2, <4>1
    <3>3. CASE b = Len(t)
      BY <1>3, <1>11, <2>1, <2>2, <2>3, <3>1, <3>3
    <3> QED BY <2>4, <3>2, <3>3
  <2>7. \A d : M(d) \in Int
    BY <1>1, <1>2
  \* What is first now was not before, or is new.
  <2>8. t[1].index < r[1].index /\ t[1].index \in Nat /\ r[1].index \in Nat
    <3>1. CASE Len(t) = 1
      BY <1>3, <1>11, <2>1, <2>3, <3>1
    <3>2. CASE Len(t) # 1
      <4>1. 1 \in 1 .. Len(t) - 1 /\ 2 \in 1 .. Len(t) /\ r[1] = t[2]
        BY <1>6, <2>2, <2>3, <3>2
      <4> QED BY <1>6, <1>7, <2>3, <4>1
    <3> QED BY <3>1, <3>2
  <2>9. ASSUME NEW d \in Client, M(d) >= 0
        PROVE  \/ \E k \in 1 .. Len(r) : r[k].client = d
               \/ Len(r) = dedupeMaxClients /\ M(d) < r[1].index
    <3>1. CASE d = c
      BY <1>3, <2>2, <2>3, <3>1
    <3>2. CASE d # c /\ \E k \in 1 .. Len(t) : t[k].client = d
      <4>1. PICK k \in 1 .. Len(t) : t[k].client = d
        BY <3>2
      <4>2. CASE k = 1
        <5>1. M(d) = t[1].index
          BY <1>1, <1>7, <3>2, <4>1, <4>2
        <5> QED BY <1>14, <2>1, <2>2, <2>8, <5>1
      <4>3. CASE k # 1
        <5>1. k - 1 \in 1 .. Len(t) - 1 /\ (k - 1) + 1 = k /\ k - 1 \in 1 .. Len(r)
          BY <1>6, <2>2, <4>3
        <5>2. r[k - 1] = t[k]
          BY <2>2, <5>1
        <5> QED BY <4>1, <5>1, <5>2
      <4> QED BY <4>2, <4>3
    <3>3. CASE d # c /\ ~\E k \in 1 .. Len(t) : t[k].client = d
      <4>1. Len(t) = dedupeMaxClients /\ M(d) < t[1].index
        BY <1>1, <1>7, <2>9, <3>3
      <4> QED BY <2>2, <2>7, <2>8, <4>1
    <3> QED BY <3>1, <3>2, <3>3
  <2> QED BY <1>8, <1>10, <1>14, <2>1, <2>2, <2>5, <2>6, <2>9
<1> QED BY <1>10, <1>13, <1>14

\* The clients in the table are those that drew and are not forgotten.
LEMMA KnownIsInTable ==
  ASSUME NEW n \in Nat, NEW lg, NEW drawn, drawn \subseteq 0 .. n - 1,
         NEW t, TableOf(lg, drawn, t), NEW c \in Client
  PROVE  (\E k \in 1 .. Len(t) : t[k].client = c)
           <=> /\ LastOf(lg, drawn, c) >= 0
               /\ ~(Cardinality(Later(lg, drawn, c)) >= dedupeMaxClients)
<1> DEFINE L(d) == LastOf(lg, drawn, d)
           later == Later(lg, drawn, c)
<1>1. ASSUME NEW d
      PROVE  L(d) \in drawn \cup {-1} /\ (L(d) # -1 => lg[L(d) + 1].client = d)
  <2>1. IsLast(lg, drawn, d, L(d))
    BY LastIsGreatest
  <2> HIDE DEF L
  <2> QED BY <2>1 DEF IsLast
<1>2. later = {d \in Client : L(d) > L(c)}
  BY DEF Later
<1>3. /\ t \in Seq(Rows(Client))
      /\ Len(t) <= dedupeMaxClients
      /\ \A k \in 1 .. Len(t) : t[k].index = L(t[k].client)
      /\ \A a, b \in 1 .. Len(t) : a < b => t[a].index < t[b].index
      /\ \A d \in Client : L(d) >= 0 =>
           \/ \E k \in 1 .. Len(t) : t[k].client = d
           \/ Len(t) = dedupeMaxClients /\ L(d) < t[1].index
  BY DEF TableOf
<1>4. /\ Len(t) \in Nat
      /\ \A k \in 1 .. Len(t) : t[k].client \in Client /\ t[k].index \in Nat
  BY <1>3, RowFields
<1> HIDE DEF L, later
<1>5. ASSUME NEW d PROVE L(d) \in Int /\ (L(d) # -1 => L(d) \in 0 .. n - 1)
  <2>1. L(d) \in drawn \cup {-1}
    BY <1>1
  <2>2. L(d) \in 0 .. n - 1 \/ L(d) = -1
    BY <2>1
  <2> QED BY <2>2
<1>6. ASSUME NEW k \in 1 .. Len(t), t[k].client = c
      PROVE  L(c) >= 0 /\ ~(Cardinality(later) >= dedupeMaxClients)
  <2> DEFINE S == k + 1 .. Len(t)
             T == {t[j].client : j \in S}
             f == [j \in S |-> t[j].client]
  <2>1. L(c) = t[k].index /\ L(c) \in Nat
    BY <1>3, <1>4, <1>6
  <2>2. ASSUME NEW d \in later PROVE d \in T
    <3>1. d \in Client /\ L(d) > L(c) /\ L(d) >= 0
      BY <1>2, <1>5, <2>1
    <3>2. ASSUME NEW j \in 1 .. Len(t) PROVE t[j].index >= t[1].index
      <4>1. 1 \in 1 .. Len(t)
        BY <1>4
      <4> QED BY <1>3, <1>4, <4>1
    <3>3. ~(L(d) < t[1].index)
      <4>1. 1 \in 1 .. Len(t) /\ t[k].index >= t[1].index
        BY <1>4, <3>2
      <4> QED BY <1>4, <1>5, <2>1, <3>1, <4>1
    <3>4. PICK j \in 1 .. Len(t) : t[j].client = d
      BY <1>3, <3>1, <3>3
    <3>5. t[j].index > t[k].index
      BY <1>3, <2>1, <3>1, <3>4
    <3>6. ~(j <= k)
      BY <1>3, <1>4, <3>5
    <3>7. j \in S
      BY <1>4, <3>6
    <3> QED BY <3>4, <3>7
  <2>3. IsFiniteSet(S) /\ Cardinality(S) <= Len(t) - k /\ Cardinality(S) \in Nat
    <3>1. k + 1 \in Int /\ Len(t) \in Int
      BY <1>4
    <3>2. IsFiniteSet(S) /\ Cardinality(S) = IF k + 1 > Len(t) THEN 0 ELSE Len(t) - (k + 1) + 1
      BY <3>1, FS_Interval
    <3> HIDE DEF S
    <3> QED BY <1>4, <3>2
  <2> HIDE DEF S
  <2>4. f \in Surjection(S, T)
    BY DEF Surjection
  <2> HIDE DEF T, f
  <2>5. IsFiniteSet(T) /\ Cardinality(T) <= Cardinality(S)
    BY <2>3, <2>4, FS_Surjection
  <2>6. IsFiniteSet(later) /\ Cardinality(later) <= Cardinality(T)
    <3>1. later \in SUBSET T
      BY <2>2
    <3> QED BY <2>5, <3>1, FS_Subset
  <2>7. Cardinality(later) \in Nat /\ Cardinality(T) \in Nat
    BY <2>5, <2>6, FS_CardinalityType
  <2> QED BY <1>3, <1>4, <2>1, <2>3, <2>5, <2>6, <2>7, DedupeAssumption
<1>7. ASSUME L(c) >= 0, ~\E k \in 1 .. Len(t) : t[k].client = c
      PROVE  Cardinality(later) >= dedupeMaxClients
  <2> DEFINE S == 1 .. Len(t)
             T == {t[j].client : j \in S}
             f == [j \in S |-> t[j].client]
             g == [d \in later |-> L(d)]
  <2>1. Len(t) = dedupeMaxClients /\ L(c) < t[1].index
    BY <1>3, <1>7
  <2>2. T \in SUBSET later
    <3>1. SUFFICES ASSUME NEW j \in S PROVE t[j].client \in later
      OBVIOUS
    <3>2. 1 \in 1 .. Len(t) /\ (j = 1 \/ 1 < j)
      BY <1>4
    <3>3. t[j].index >= t[1].index
      BY <1>3, <1>4, <3>2
    <3>4. L(t[j].client) > L(c)
      BY <1>3, <1>4, <1>5, <2>1, <3>2, <3>3
    <3> QED BY <1>2, <1>4, <3>4
  <2>3. f \in Bijection(S, T)
    <3>1. ASSUME NEW a \in S, NEW b \in S, t[a].client = t[b].client PROVE a = b
      <4>1. t[a].index = t[b].index
        BY <1>3, <3>1
      <4>2. ~(a < b) /\ ~(b < a)
        BY <1>3, <1>4, <4>1
      <4> QED BY <1>4, <4>2
    <3> QED BY <3>1 DEF Bijection, Injection, IsInjective, Surjection
  <2>4. IsFiniteSet(S) /\ Cardinality(S) = Len(t)
    <3>1. 1 \in Int /\ Len(t) \in Int
      BY <1>4
    <3>2. IsFiniteSet(S) /\ Cardinality(S) = IF 1 > Len(t) THEN 0 ELSE Len(t) - 1 + 1
      BY <3>1, FS_Interval
    <3> HIDE DEF S
    <3> QED BY <1>4, <3>2
  <2> HIDE DEF S, T, f
  <2>5. ExistsBijection(S, T)
    BY <2>3 DEF ExistsBijection
  <2>6. Cardinality(T) = Len(t)
    BY <2>4, <2>5, FS_Bijection
  <2>7. IsFiniteSet(later)
    <3> DEFINE I == 0 .. n - 1
    <3>1. \A d \in later : L(d) \in I /\ L(d) # -1
      BY <1>2, <1>5, <1>7
    <3>2. \A d, e \in later : L(d) = L(e) => d = e
      BY <1>1, <3>1
    <3>3. IsFiniteSet(I)
      <4>1. 0 \in Int /\ n - 1 \in Int
        OBVIOUS
      <4> QED BY <4>1, FS_Interval
    <3> HIDE DEF I
    <3>4. g \in Injection(later, I)
      BY <3>1, <3>2 DEF Injection, IsInjective
    <3> HIDE DEF g
    <3> QED BY <3>3, <3>4, FS_Injection
  <2>8. Cardinality(T) <= Cardinality(later)
    BY <2>2, <2>7, FS_Subset
  <2> QED BY <2>1, <2>6, <2>8
<1> QED BY <1>6, <1>7 DEF L, later

-----------------------------------------------------------------------------
(***************************************************************************)
(* A machine and what the log calls for.                                   *)
(***************************************************************************)

Stroke == [index : Nat, op : Op \ {Noop}]

\* The strokes are those drawn, in the order of the log.
StrokesOf(lg, drawn, s) ==
  /\ s \in Seq(Stroke)
  /\ {s[k].index : k \in 1 .. Len(s)} = drawn
  /\ \A k \in 1 .. Len(s) : s[k].op = lg[s[k].index + 1]
  /\ \A a, b \in 1 .. Len(s) : a < b => s[a].index < s[b].index

\* The machine m is what the first n entries make of it when they draw drawn.
Matches(lg, n, drawn, m) ==
  /\ m = [strokes |-> m.strokes, dedupe |-> m.dedupe, lastApplied |-> n - 1]
  /\ drawn \subseteq 0 .. n - 1
  /\ StrokesOf(lg, drawn, m.strokes)
  /\ TableOf(lg, drawn, m.dedupe)

\* Draws for a log that is given.
DrawsOf(lg, drawn, op) ==
  /\ op # Noop
  /\ \/ op.client = Nil
     \/ LastOf(lg, drawn, op.client) = -1
     \/ Cardinality(Later(lg, drawn, op.client)) >= dedupeMaxClients
     \/ lg[LastOf(lg, drawn, op.client) + 1].seq < op.seq

\* The indexes drawn once the entry after the first n is read.
Reads(lg, drawn, n) ==
  IF DrawsOf(lg, drawn, lg[n + 1]) THEN drawn \cup {n} ELSE drawn

\* Draws is DrawsOf for the log of the state.
LEMMA DrawsFromLog ==
  ASSUME NEW drawn, NEW op
  PROVE  Draws(drawn, op) <=> DrawsOf(log, drawn, op)
BY LastOfLog DEF Draws, DrawsOf

\* The fields of an entry.
LEMMA OpFields ==
  ASSUME NEW op \in Op, op # Noop
  PROVE  /\ op.seq \in Int
         /\ op.client # Nil => op.client \in Client
BY CanvasAssumption DEF Op

\* An entry draws when the table does not have it as a duplicate.
LEMMA DrawsUnlessSeen ==
  ASSUME NEW n \in Nat, NEW lg, NEW drawn, drawn \subseteq 0 .. n - 1,
         NEW m, TableOf(lg, drawn, m.dedupe), NEW op \in Op, op # Noop, op.client # Nil
  PROVE  DrawsOf(lg, drawn, op) <=> Seen(m, op) = {}
<1> DEFINE t == m.dedupe
           c == op.client
           l == LastOf(lg, drawn, c)
           forgotten == Cardinality(Later(lg, drawn, c)) >= dedupeMaxClients
<1>1. c \in Client /\ op.seq \in Int
  BY OpFields
<1>2. (\E k \in 1 .. Len(t) : t[k].client = c) <=> l >= 0 /\ ~forgotten
  BY <1>1, KnownIsInTable
<1>3. l \in Nat \/ l = -1
  <2>1. IsLast(lg, drawn, c, l)
    BY LastIsGreatest
  <2> HIDE DEF l
  <2> QED BY <2>1 DEF IsLast
<1>4. \A k \in 1 .. Len(t) : t[k].client = c => t[k].seq = lg[l + 1].seq /\ t[k].seq \in Int
  <2>1. t \in Seq(Rows(Client))
    BY DEF TableOf
  <2>2. \A k \in 1 .. Len(t) : t[k] \in Rows(Client)
    BY <2>1
  <2>3. \A r \in Rows(Client) : r.seq \in Int
    BY DEF Rows
  <2>4. \A k \in 1 .. Len(t) : t[k].index = LastOf(lg, drawn, t[k].client)
                             /\ t[k].seq = lg[t[k].index + 1].seq
    BY DEF TableOf
  <2> QED BY <2>2, <2>3, <2>4
<1>5. DrawsOf(lg, drawn, op) <=> l = -1 \/ forgotten \/ lg[l + 1].seq < op.seq
  BY DEF DrawsOf
<1>6. Seen(m, op) = {k \in 1 .. Len(t) : t[k].client = c /\ t[k].seq >= op.seq}
  BY DEF Seen
<1> HIDE DEF t, c, l, forgotten
<1>7. CASE \E k \in 1 .. Len(t) : t[k].client = c
  <2>1. PICK k \in 1 .. Len(t) : t[k].client = c
    BY <1>7
  <2>2. CASE lg[l + 1].seq < op.seq
    <3>1. \A j \in 1 .. Len(t) : t[j].client = c => ~(t[j].seq >= op.seq)
      BY <1>1, <1>4, <2>2
    <3> QED BY <1>5, <1>6, <2>2, <3>1
  <2>3. CASE ~(lg[l + 1].seq < op.seq)
    <3>1. t[k].seq >= op.seq
      BY <1>1, <1>4, <2>1, <2>3
    <3>2. k \in Seen(m, op)
      BY <1>6, <2>1, <3>1
    <3>3. l # -1 /\ ~forgotten
      BY <1>2, <1>7
    <3> QED BY <1>5, <2>3, <3>2, <3>3
  <2> QED BY <2>2, <2>3
<1>8. CASE ~\E k \in 1 .. Len(t) : t[k].client = c
  <2>1. Seen(m, op) = {}
    BY <1>6, <1>8
  <2>2. l = -1 \/ forgotten
    BY <1>2, <1>3, <1>8
  <2> QED BY <1>5, <2>1, <2>2
<1> QED BY <1>7, <1>8

\* Drawing index n adds a stroke after the others.
LEMMA StrokesStep ==
  ASSUME NEW n \in Nat, NEW lg, NEW drawn, drawn \subseteq 0 .. n - 1,
         NEW s, StrokesOf(lg, drawn, s), lg[n + 1] \in Op \ {Noop}
  PROVE  StrokesOf(lg, drawn \cup {n}, Append(s, [index |-> n, op |-> lg[n + 1]]))
<1> DEFINE e == [index |-> n, op |-> lg[n + 1]]
           r == Append(s, e)
<1>1. e \in Stroke /\ e.index = n /\ e.op = lg[n + 1]
  BY DEF Stroke
<1>2. /\ s \in Seq(Stroke)
      /\ {s[k].index : k \in 1 .. Len(s)} = drawn
      /\ \A k \in 1 .. Len(s) : s[k].op = lg[s[k].index + 1]
      /\ \A a, b \in 1 .. Len(s) : a < b => s[a].index < s[b].index
  BY DEF StrokesOf
<1> HIDE DEF e
<1>3. /\ r \in Seq(Stroke) /\ Len(s) \in Nat /\ Len(r) = Len(s) + 1
      /\ \A k \in 1 .. Len(s) : r[k] = s[k]
      /\ r[Len(s) + 1] = e
  BY <1>1, <1>2, AppendProperties
<1> HIDE DEF r
<1>4. \A k \in 1 .. Len(r) : k \in 1 .. Len(s) \/ k = Len(s) + 1
  BY <1>3
<1>5. 1 .. Len(r) = 1 .. Len(s) \cup {Len(s) + 1}
  BY <1>3
<1>6. {r[k].index : k \in 1 .. Len(r)} = drawn \cup {n}
  <2>1. \A k \in 1 .. Len(r) : r[k].index \in drawn \cup {n}
    BY <1>1, <1>2, <1>3, <1>4
  <2>2. ASSUME NEW x \in drawn \cup {n} PROVE \E k \in 1 .. Len(r) : r[k].index = x
    <3>1. CASE x \in drawn
      <4>1. PICK k \in 1 .. Len(s) : s[k].index = x
        BY <1>2, <3>1
      <4> QED BY <1>3, <1>5, <4>1
    <3>2. CASE x = n
      BY <1>1, <1>3, <1>5, <3>2
    <3> QED BY <3>1, <3>2
  <2> QED BY <2>1, <2>2
<1>7. \A k \in 1 .. Len(r) : r[k].op = lg[r[k].index + 1]
  BY <1>1, <1>2, <1>3, <1>4
<1>8. ASSUME NEW a \in 1 .. Len(r), NEW b \in 1 .. Len(r), a < b
      PROVE  r[a].index < r[b].index
  <2>1. a \in 1 .. Len(s)
    BY <1>3, <1>8
  <2>2. CASE b \in 1 .. Len(s)
    BY <1>2, <1>3, <1>8, <2>1, <2>2
  <2>3. CASE b = Len(s) + 1
    <3>1. s[a].index \in drawn
      BY <1>2, <2>1
    <3>2. s[a].index < n
      <4>1. \A x \in drawn : x < n
        OBVIOUS
      <4> QED BY <3>1, <4>1
    <3> QED BY <1>1, <1>3, <2>1, <2>3, <3>2
  <2> QED BY <1>4, <2>2, <2>3
<1> QED BY <1>3, <1>6, <1>7, <1>8 DEF StrokesOf, r, e

\* apply does to the machine what reading the entry does to the indexes drawn.
LEMMA ApplyMatches ==
  ASSUME NEW lg \in Seq(Op), NEW n \in 0 .. Len(lg) - 1,
         NEW drawn, NEW m, Matches(lg, n, drawn, m)
  PROVE  Matches(lg, n + 1, Reads(lg, drawn, n), apply(m, n, lg[n + 1]))
<1> DEFINE op == lg[n + 1]
           r == apply(m, n, op)
<1>1. n \in Nat /\ op \in Op /\ n + 1 - 1 = n
  BY DEF Op
<1>2. /\ m = [strokes |-> m.strokes, dedupe |-> m.dedupe, lastApplied |-> n - 1]
      /\ drawn \subseteq 0 .. n - 1
      /\ StrokesOf(lg, drawn, m.strokes)
      /\ TableOf(lg, drawn, m.dedupe)
  BY DEF Matches
<1>3. r = IF op = Noop \/ (op.client # Nil /\ Seen(m, op) # {})
          THEN [m EXCEPT !.lastApplied = n]
          ELSE [strokes     |-> Append(m.strokes, [index |-> n, op |-> op]),
                dedupe      |-> IF op.client # Nil THEN touchDedupe(m.dedupe, op, n) ELSE m.dedupe,
                lastApplied |-> n]
  <2>1. m.lastApplied = n - 1
    BY <1>2
  <2>2. ~(n <= m.lastApplied)
    BY <1>1, <2>1
  <2> QED BY <2>2 DEF apply, Keyed
<1>4. drawn \subseteq 0 .. n /\ drawn \cup {n} \subseteq 0 .. n
  BY <1>1, <1>2
<1> HIDE DEF r
<1>5. CASE op = Noop \/ (op.client # Nil /\ Seen(m, op) # {})
  <2>1. ~DrawsOf(lg, drawn, op)
    <3>1. CASE op = Noop
      BY <3>1 DEF DrawsOf
    <3>2. CASE op # Noop /\ op.client # Nil /\ Seen(m, op) # {}
      BY <1>1, <1>2, <3>2, DrawsUnlessSeen
    <3> QED BY <1>5, <3>1, <3>2
  <2>2. r = [strokes |-> m.strokes, dedupe |-> m.dedupe, lastApplied |-> n]
    BY <1>2, <1>3, <1>5
  <2>3. Reads(lg, drawn, n) = drawn
    BY <2>1 DEF Reads
  <2> QED BY <1>1, <1>2, <1>4, <2>2, <2>3 DEF Matches, r
<1>6. CASE ~(op = Noop \/ (op.client # Nil /\ Seen(m, op) # {}))
  <2>1. DrawsOf(lg, drawn, op)
    <3>1. CASE op.client = Nil
      BY <1>6, <3>1 DEF DrawsOf
    <3>2. CASE op.client # Nil
      BY <1>1, <1>2, <1>6, <3>2, DrawsUnlessSeen
    <3> QED BY <3>1, <3>2
  <2>2. Reads(lg, drawn, n) = drawn \cup {n}
    BY <2>1 DEF Reads
  <2>3. r = [strokes     |-> Append(m.strokes, [index |-> n, op |-> op]),
             dedupe      |-> IF op.client # Nil THEN touchDedupe(m.dedupe, op, n) ELSE m.dedupe,
             lastApplied |-> n]
    BY <1>3, <1>6
  <2>4. StrokesOf(lg, drawn \cup {n}, r.strokes)
    BY <1>1, <1>2, <1>6, <2>3, StrokesStep
  <2>5. TableOf(lg, drawn \cup {n}, r.dedupe)
    <3>1. CASE op.client # Nil
      <4>1. op.client \in Client /\ op.seq \in Int
        BY <1>1, <1>6, <3>1, OpFields
      <4>2. r.dedupe = touchDedupe(m.dedupe, op, n)
        BY <2>3, <3>1
      <4> QED BY <1>1, <1>2, <4>1, <4>2, TableStep
    <3>2. CASE op.client = Nil
      <4>1. \A c \in Client : LastOf(lg, drawn \cup {n}, c) = LastOf(lg, drawn, c)
        BY <1>1, <1>2, <3>2, LastStep, CanvasAssumption
      <4>2. r.dedupe = m.dedupe
        BY <2>3, <3>2
      <4>3. m.dedupe \in Seq(Rows(Client))
        BY <1>2 DEF TableOf
      <4>4. \A k \in 1 .. Len(m.dedupe) : m.dedupe[k].client \in Client
        BY <4>3, RowFields
      <4> QED BY <1>2, <4>1, <4>2, <4>4 DEF TableOf
    <3> QED BY <3>1, <3>2
  <2>6. r = [strokes |-> r.strokes, dedupe |-> r.dedupe, lastApplied |-> n]
    BY <2>3
  <2> QED BY <1>1, <1>4, <2>2, <2>4, <2>5, <2>6 DEF Matches, r
<1> QED BY <1>5, <1>6

\* What a machine matches depends on the entries below it only.
LEMMA MatchesSame ==
  ASSUME NEW lg, NEW lh, NEW n \in Nat, SameTo(lg, lh, n),
         NEW drawn, NEW m, Matches(lg, n, drawn, m)
  PROVE  Matches(lh, n, drawn, m)
<1>1. drawn \subseteq 0 .. n - 1
  BY DEF Matches
<1>2. \A c : LastOf(lh, drawn, c) = LastOf(lg, drawn, c)
  <2>1. SameLast(lg, lh, drawn)
    BY <1>1, LastSame
  <2> QED BY <2>1 DEF SameLast
<1>3. \A x \in drawn : lh[x + 1] = lg[x + 1]
  <2>1. \A x \in drawn : x + 1 \in 1 .. n
    BY <1>1
  <2> QED BY <2>1 DEF SameTo
<1>4. StrokesOf(lh, drawn, m.strokes)
  <2>1. StrokesOf(lg, drawn, m.strokes)
    BY DEF Matches
  <2>2. \A k \in 1 .. Len(m.strokes) : m.strokes[k].index \in drawn
    BY <2>1 DEF StrokesOf
  <2> QED BY <1>3, <2>1, <2>2 DEF StrokesOf
<1>5. TableOf(lh, drawn, m.dedupe)
  <2>1. TableOf(lg, drawn, m.dedupe)
    BY DEF Matches
  <2>2. m.dedupe \in Seq(Rows(Client))
    BY <2>1 DEF TableOf
  <2>3. ASSUME NEW k \in 1 .. Len(m.dedupe) PROVE m.dedupe[k].index \in drawn
    <3>1. m.dedupe[k].index \in Nat
      BY <2>2, RowFields
    <3>2. m.dedupe[k].index = LastOf(lg, drawn, m.dedupe[k].client)
      BY <2>1 DEF TableOf
    <3>3. IsLast(lg, drawn, m.dedupe[k].client, LastOf(lg, drawn, m.dedupe[k].client))
      BY <1>1, LastIsGreatest
    <3>4. m.dedupe[k].index \in drawn \cup {-1}
      BY <3>2, <3>3 DEF IsLast
    <3> QED BY <3>1, <3>4
  <2>4. \A k \in 1 .. Len(m.dedupe) : m.dedupe[k].seq = lh[m.dedupe[k].index + 1].seq
    BY <1>3, <2>1, <2>3 DEF TableOf
  <2> QED BY <1>2, <2>1, <2>4 DEF TableOf
<1> QED BY <1>1, <1>4, <1>5 DEF Matches

\* So does what an entry draws.
LEMMA ReadsSame ==
  ASSUME NEW lg, NEW lh, NEW n \in Nat, SameTo(lg, lh, n + 1),
         NEW drawn, drawn \subseteq 0 .. n - 1
  PROVE  Reads(lh, drawn, n) = Reads(lg, drawn, n)
<1> DEFINE op == lg[n + 1]
<1>1. lh[n + 1] = op
  BY DEF SameTo
<1>2. SameTo(lg, lh, n)
  BY DEF SameTo
<1>3. \A c : LastOf(lh, drawn, c) = LastOf(lg, drawn, c)
  <2>1. SameLast(lg, lh, drawn)
    BY <1>2, LastSame
  <2> QED BY <2>1 DEF SameLast
<1>4. \A c : Later(lh, drawn, c) = Later(lg, drawn, c)
  BY <1>3 DEF Later
<1>5. LastOf(lg, drawn, op.client) = -1
        \/ lh[LastOf(lg, drawn, op.client) + 1] = lg[LastOf(lg, drawn, op.client) + 1]
  <2>1. IsLast(lg, drawn, op.client, LastOf(lg, drawn, op.client))
    BY LastIsGreatest
  <2>2. \A x \in drawn : x + 1 \in 1 .. n
    OBVIOUS
  <2>3. \A x \in drawn : lh[x + 1] = lg[x + 1]
    BY <1>2, <2>2 DEF SameTo
  <2> QED BY <2>1, <2>3 DEF IsLast
<1>6. DrawsOf(lh, drawn, op) <=> DrawsOf(lg, drawn, op)
  <2> HIDE DEF op
  <2> QED BY <1>3, <1>4, <1>5 DEF DrawsOf
<1> QED BY <1>1, <1>6 DEF Reads

-----------------------------------------------------------------------------
(***************************************************************************)
(* The inductive invariant.                                                *)
(***************************************************************************)

\* d[n] is the set of the indexes drawn after the first n entries.
IsReading(lg, d) ==
  d = [n \in 0 .. Len(lg) |-> IF n = 0 THEN {} ELSE Reads(lg, d[n - 1], n - 1)]

\* h[n] is the machine and d[n] the indexes drawn after the first n entries.
History(lg, h, d) ==
  /\ DOMAIN h = 0 .. Len(lg)
  /\ IsReading(lg, d)
  /\ h[0] = EmptyMachine
  /\ \A n \in 1 .. Len(lg) : h[n] = apply(h[n - 1], n - 1, lg[n])
  /\ \A n \in 0 .. Len(lg) : Matches(lg, n, d[n], h[n])

IsSaved(v, h, n) == v = [index |-> n - 1, blob |-> getSnapshot(h[n])]

\* The machine s and the snapshot v of a replica are those of the history.
OfHistory(lg, s, v, h) ==
  /\ \E n \in 0 .. Len(lg) : s = h[n]
  /\ v = Nil \/ \E n \in 1 .. Len(lg) : IsSaved(v, h, n)

CanvasInv ==
  /\ log \in Seq(Op)
  /\ DOMAIN sm = Server
  /\ DOMAIN saved = Server
  /\ \E h, d : /\ History(log, h, d)
               /\ \A i \in Server : OfHistory(log, sm[i], saved[i], h)

\* Nothing is drawn by an empty log.
LEMMA EmptyMatches == Matches(<<>>, 0, {}, EmptyMachine)
<1>1. EmptyMachine.strokes = <<>> /\ EmptyMachine.dedupe = <<>>
  BY DEF EmptyMachine
<1>2. EmptyMachine = [strokes |-> <<>>, dedupe |-> <<>>, lastApplied |-> 0 - 1]
  BY DEF EmptyMachine
<1>3. StrokesOf(<<>>, {}, <<>>)
  BY DEF StrokesOf
<1>4. TableOf(<<>>, {}, <<>>)
  <2>1. \A c : LastOf(<<>>, {}, c) = -1
    BY DEF LastOf, Greatest, Mine
  <2> QED BY <2>1, DedupeAssumption DEF TableOf
<1> HIDE DEF EmptyMachine
<1> QED BY <1>1, <1>2, <1>3, <1>4 DEF Matches

\* The empty log has the empty history.
LEMMA CanvasInvInit == Init => CanvasInv
<1> SUFFICES ASSUME Init PROVE CanvasInv
  OBVIOUS
<1>1. log = <<>> /\ Len(log) = 0 /\ log \in Seq(Op)
  BY DEF Init
<1>2. DOMAIN sm = Server /\ DOMAIN saved = Server
  BY DEF Init
<1>3. \A i \in Server : sm[i] = EmptyMachine /\ saved[i] = Nil
  BY DEF Init
<1> DEFINE h == [n \in 0 .. 0 |-> EmptyMachine]
           d == [n \in 0 .. 0 |-> {}]
<1>4. History(log, h, d)
  <2>1. \A n \in 0 .. Len(log) : n = 0
    BY <1>1
  <2>2. h[0] = EmptyMachine /\ d[0] = {} /\ DOMAIN h = 0 .. 0
    OBVIOUS
  <2>3. d = [n \in 0 .. Len(log) |-> IF n = 0 THEN {} ELSE Reads(log, d[n - 1], n - 1)]
    BY <1>1
  <2>4. 1 .. Len(log) = {}
    BY <1>1
  <2>5. \A n \in 0 .. Len(log) : Matches(log, n, d[n], h[n])
    BY <1>1, <2>1, <2>2, EmptyMatches
  <2> HIDE DEF h, d
  <2> QED BY <1>1, <2>2, <2>3, <2>4, <2>5 DEF History, IsReading
<1>5. \A i \in Server : OfHistory(log, sm[i], saved[i], h)
  BY <1>1, <1>3 DEF OfHistory
<1> HIDE DEF h, d
<1> QED BY <1>1, <1>2, <1>4, <1>5 DEF CanvasInv

\* A history goes on with the next entry.
LEMMA HistoryGrows ==
  ASSUME NEW lg \in Seq(Op), NEW op \in Op, NEW h, NEW d, History(lg, h, d)
  PROVE  \E h2, d2 : /\ History(Append(lg, op), h2, d2)
                     /\ \A n \in 0 .. Len(lg) : h2[n] = h[n]
<1> DEFINE N == Len(lg)
           lh == Append(lg, op)
           h2 == [n \in 0 .. N + 1 |-> IF n = N + 1 THEN apply(h[N], N, op) ELSE h[n]]
           d2 == [n \in 0 .. N + 1 |-> IF n = N + 1 THEN Reads(lh, d[N], N) ELSE d[n]]
<1>1. /\ N \in Nat /\ lh \in Seq(Op) /\ Len(lh) = N + 1 /\ lh[N + 1] = op
      /\ \A k \in 1 .. N : lh[k] = lg[k]
  BY AppendProperties
<1>2. /\ d = [n \in 0 .. N |-> IF n = 0 THEN {} ELSE Reads(lg, d[n - 1], n - 1)]
      /\ h[0] = EmptyMachine
      /\ \A n \in 1 .. N : h[n] = apply(h[n - 1], n - 1, lg[n])
      /\ \A n \in 0 .. N : Matches(lg, n, d[n], h[n])
  BY DEF History, IsReading
<1>3. \A n \in 0 .. N : h2[n] = h[n] /\ d2[n] = d[n]
  BY <1>1
<1>4. /\ DOMAIN h2 = 0 .. N + 1
      /\ h2[N + 1] = apply(h[N], N, op)
      /\ d2[N + 1] = Reads(lh, d[N], N)
      /\ d2 = [n \in 0 .. N + 1 |-> d2[n]]
  BY <1>1
<1> HIDE DEF h2, d2, lh, N
<1>5. \A n \in 0 .. N + 1 : n \in 0 .. N \/ n = N + 1
  BY <1>1
<1>6. \A n \in 0 .. N : SameTo(lg, lh, n)
  BY <1>1 DEF SameTo
<1>7. ASSUME NEW n \in 0 .. N PROVE Matches(lh, n, d2[n], h2[n])
  <2>1. n \in Nat /\ SameTo(lg, lh, n) /\ Matches(lg, n, d[n], h[n])
    BY <1>2, <1>6
  <2>2. Matches(lh, n, d[n], h[n])
    BY <2>1, MatchesSame
  <2> QED BY <1>3, <2>2
<1>8. Matches(lh, N + 1, d2[N + 1], h2[N + 1])
  <2>1. N \in 0 .. Len(lh) - 1 /\ N \in 0 .. N
    BY <1>1
  <2>2. Matches(lh, N, d[N], h[N])
    BY <1>3, <1>7, <2>1
  <2>3. Matches(lh, N + 1, Reads(lh, d[N], N), apply(h[N], N, lh[N + 1]))
    BY <1>1, <2>1, <2>2, ApplyMatches
  <2> QED BY <1>1, <1>4, <2>3
<1>9. ASSUME NEW n \in 0 .. N + 1
      PROVE  d2[n] = IF n = 0 THEN {} ELSE Reads(lh, d2[n - 1], n - 1)
  <2>1. CASE n = N + 1
    <3>1. n # 0 /\ n - 1 = N /\ N \in 0 .. N
      BY <1>1, <2>1
    <3> QED BY <1>3, <1>4, <2>1, <3>1
  <2>2. CASE n \in 0 .. N /\ n # 0
    <3>1. n - 1 \in 0 .. N /\ n - 1 \in Nat /\ n - 1 + 1 = n
      BY <1>1, <2>2
    <3>2. d[n - 1] \subseteq 0 .. (n - 1) - 1
      BY <1>2, <3>1 DEF Matches
    <3>3. Reads(lh, d[n - 1], n - 1) = Reads(lg, d[n - 1], n - 1)
      <4> DEFINE k == n - 1
      <4>1. k \in Nat /\ SameTo(lg, lh, k + 1) /\ d[k] \subseteq 0 .. k - 1
        BY <1>6, <2>2, <3>1, <3>2
      <4> HIDE DEF k
      <4>2. Reads(lh, d[k], k) = Reads(lg, d[k], k)
        BY <4>1, ReadsSame
      <4> QED BY <4>2 DEF k
    <3>4. d[n] = Reads(lg, d[n - 1], n - 1)
      BY <1>2, <2>2
    <3> QED BY <1>3, <2>2, <3>1, <3>3, <3>4
  <2>3. CASE n = 0
    <3>1. 0 \in 0 .. N /\ d[0] = {}
      BY <1>1, <1>2
    <3> QED BY <1>3, <2>3, <3>1
  <2> QED BY <1>5, <2>1, <2>2, <2>3
<1>10. d2 = [n \in 0 .. N + 1 |-> IF n = 0 THEN {} ELSE Reads(lh, d2[n - 1], n - 1)]
  BY <1>4, <1>9
<1>11. h2[0] = EmptyMachine
  BY <1>1, <1>2, <1>3
<1>12. ASSUME NEW n \in 1 .. N + 1 PROVE h2[n] = apply(h2[n - 1], n - 1, lh[n])
  <2>1. CASE n = N + 1
    <3>1. n - 1 = N /\ N \in 0 .. N
      BY <1>1, <2>1
    <3> QED BY <1>1, <1>3, <1>4, <2>1, <3>1
  <2>2. CASE n # N + 1
    <3>1. n \in 1 .. N /\ n \in 0 .. N /\ n - 1 \in 0 .. N
      BY <1>1, <2>2
    <3> QED BY <1>1, <1>2, <1>3, <3>1
  <2> QED BY <2>1, <2>2
<1>13. \A n \in 0 .. N + 1 : Matches(lh, n, d2[n], h2[n])
  BY <1>5, <1>7, <1>8
<1>14. History(lh, h2, d2)
  BY <1>1, <1>4, <1>10, <1>11, <1>12, <1>13 DEF History, IsReading
<1> QED BY <1>3, <1>14 DEF lh, N

\* The number of entries a machine of the history has applied.
LEMMA HistoryApplied ==
  ASSUME NEW lg, NEW h, NEW d, History(lg, h, d), NEW n \in 0 .. Len(lg)
  PROVE  /\ h[n].lastApplied = n - 1
         /\ restoreSnapshot(getSnapshot(h[n]), n - 1) = h[n]
<1>1. Matches(lg, n, d[n], h[n])
  BY DEF History
<1>2. h[n] = [strokes |-> h[n].strokes, dedupe |-> h[n].dedupe, lastApplied |-> n - 1]
  BY <1>1 DEF Matches
<1>3. h[n].lastApplied = n - 1
  BY <1>2
<1>4. restoreSnapshot(getSnapshot(h[n]), n - 1)
        = [strokes |-> h[n].strokes, dedupe |-> h[n].dedupe, lastApplied |-> n - 1]
  BY DEF restoreSnapshot, getSnapshot
<1> QED BY <1>2, <1>3, <1>4

\* Every step of a replica keeps the invariant.
LEMMA CanvasInvNext == CanvasInv /\ [Next]_vars => CanvasInv'
<1> SUFFICES ASSUME CanvasInv, [Next]_vars PROVE CanvasInv'
  OBVIOUS
<1>1. log \in Seq(Op) /\ DOMAIN sm = Server /\ DOMAIN saved = Server /\ Len(log) \in Nat
  BY DEF CanvasInv
<1>2. PICK h, d : History(log, h, d) /\ \A i \in Server : OfHistory(log, sm[i], saved[i], h)
  BY DEF CanvasInv
\* One replica moves within the history.
<1>3. ASSUME NEW i \in Server, log' = log,
             DOMAIN sm' = Server, DOMAIN saved' = Server,
             \A j \in Server \ {i} : sm'[j] = sm[j] /\ saved'[j] = saved[j],
             OfHistory(log, sm'[i], saved'[i], h)
      PROVE  CanvasInv'
  <2>1. \A j \in Server : OfHistory(log', sm'[j], saved'[j], h)
    BY <1>2, <1>3
  <2>2. History(log', h, d)
    BY <1>2, <1>3
  <2> QED BY <1>1, <1>3, <2>1, <2>2 DEF CanvasInv
<1>4. ASSUME NEW op \in Op, Commit(op) PROVE CanvasInv'
  <2>1. log' = Append(log, op) /\ sm' = sm /\ saved' = saved
    BY <1>4 DEF Commit
  <2>2. PICK h2, d2 : /\ History(Append(log, op), h2, d2)
                      /\ \A n \in 0 .. Len(log) : h2[n] = h[n]
    BY <1>1, <1>2, HistoryGrows
  <2>3. log' \in Seq(Op) /\ Len(log') = Len(log) + 1
    BY <1>1, <2>1, AppendProperties
  <2>4. ASSUME NEW i \in Server PROVE OfHistory(log', sm[i], saved[i], h2)
    <3>1. /\ \A n \in 0 .. Len(log) : n \in 0 .. Len(log')
          /\ \A n \in 1 .. Len(log) : n \in 0 .. Len(log) /\ n \in 1 .. Len(log')
      BY <1>1, <2>3
    <3>2. OfHistory(log, sm[i], saved[i], h)
      BY <1>2
    <3>3. \A v : \A n \in 1 .. Len(log) : IsSaved(v, h, n) => IsSaved(v, h2, n)
      BY <2>2, <3>1 DEF IsSaved
    <3> QED BY <2>2, <3>1, <3>2, <3>3 DEF OfHistory
  <2> QED BY <1>1, <2>1, <2>2, <2>3, <2>4 DEF CanvasInv
<1>5. ASSUME NEW i \in Server, ApplyNext(i) PROVE CanvasInv'
  <2> DEFINE n == sm[i].lastApplied + 1
  <2>1. n < Len(log) /\ sm' = [sm EXCEPT ![i] = apply(sm[i], n, log[n + 1])]
        /\ log' = log /\ saved' = saved
    BY <1>5 DEF ApplyNext
  <2>2. PICK k \in 0 .. Len(log) : sm[i] = h[k]
    BY <1>2 DEF OfHistory
  <2>3. n = k
    BY <1>1, <1>2, <2>2, HistoryApplied
  <2>4. k + 1 \in 1 .. Len(log) /\ k + 1 \in 0 .. Len(log) /\ k + 1 - 1 = k
    BY <1>1, <2>1, <2>3
  <2>5. h[k + 1] = apply(h[k], k, log[k + 1])
    BY <1>2, <2>4 DEF History
  <2>6. sm'[i] = h[k + 1]
    BY <1>1, <2>1, <2>2, <2>3, <2>5
  <2>7. OfHistory(log, sm'[i], saved'[i], h)
    BY <1>2, <2>1, <2>4, <2>6 DEF OfHistory
  <2> QED BY <1>1, <1>3, <2>1, <2>7
<1>6. ASSUME NEW i \in Server, TakeSnapshot(i) PROVE CanvasInv'
  <2>1. /\ sm[i].lastApplied >= 0
        /\ saved' = [saved EXCEPT ![i] = [index |-> sm[i].lastApplied, blob |-> getSnapshot(sm[i])]]
        /\ log' = log /\ sm' = sm
    BY <1>6 DEF TakeSnapshot
  <2>2. PICK k \in 0 .. Len(log) : sm[i] = h[k]
    BY <1>2 DEF OfHistory
  <2>3. sm[i].lastApplied = k - 1
    BY <1>1, <1>2, <2>2, HistoryApplied
  <2>4. k \in 1 .. Len(log)
    BY <1>1, <2>1, <2>3
  <2>5. IsSaved(saved'[i], h, k)
    BY <1>1, <2>1, <2>2, <2>3 DEF IsSaved
  <2>6. OfHistory(log, sm'[i], saved'[i], h)
    BY <1>2, <2>1, <2>4, <2>5 DEF OfHistory
  <2> QED BY <1>1, <1>3, <2>1, <2>6
<1>7. ASSUME NEW i \in Server, NEW v, NEW k \in 1 .. Len(log), IsSaved(v, h, k)
      PROVE  restoreSnapshot(v.blob, v.index) = h[k] /\ k \in 0 .. Len(log)
  <2>1. k \in 0 .. Len(log)
    BY <1>1
  <2>2. v.blob = getSnapshot(h[k]) /\ v.index = k - 1
    BY <1>7 DEF IsSaved
  <2> QED BY <1>2, <2>1, <2>2, HistoryApplied
<1>8. ASSUME NEW i \in Server, Restart(i) PROVE CanvasInv'
  <2>1. /\ sm' = [sm EXCEPT ![i] = IF saved[i] = Nil THEN EmptyMachine
                                   ELSE restoreSnapshot(saved[i].blob, saved[i].index)]
        /\ log' = log /\ saved' = saved
    BY <1>8 DEF Restart
  <2>2. \E n \in 0 .. Len(log) : sm'[i] = h[n]
    <3>1. CASE saved[i] = Nil
      <4>1. 0 \in 0 .. Len(log) /\ h[0] = EmptyMachine
        BY <1>1, <1>2 DEF History
      <4> QED BY <1>1, <2>1, <3>1, <4>1
    <3>2. CASE saved[i] # Nil
      <4>1. PICK k \in 1 .. Len(log) : IsSaved(saved[i], h, k)
        BY <1>2, <3>2 DEF OfHistory
      <4>2. sm'[i] = restoreSnapshot(saved[i].blob, saved[i].index)
        BY <1>1, <2>1, <3>2
      <4> QED BY <1>7, <4>1, <4>2
    <3> QED BY <3>1, <3>2
  <2>3. OfHistory(log, sm'[i], saved'[i], h)
    BY <1>2, <2>1, <2>2 DEF OfHistory
  <2> QED BY <1>1, <1>3, <2>1, <2>3
<1>9. ASSUME NEW i \in Server, NEW j \in Server \ {i}, Install(i, j) PROVE CanvasInv'
  <2>1. /\ saved[j] # Nil
        /\ saved' = [saved EXCEPT ![i] = saved[j]]
        /\ sm' = [sm EXCEPT ![i] = restoreSnapshot(saved[j].blob, saved[j].index)]
        /\ log' = log
    BY <1>9 DEF Install
  <2>2. PICK k \in 1 .. Len(log) : IsSaved(saved[j], h, k)
    BY <1>2, <2>1 DEF OfHistory
  <2>3. sm'[i] = h[k] /\ k \in 0 .. Len(log)
    BY <1>1, <1>7, <2>1, <2>2
  <2>4. saved'[i] = saved[j]
    BY <1>1, <2>1
  <2>5. OfHistory(log, sm'[i], saved'[i], h)
    BY <2>2, <2>3, <2>4 DEF OfHistory
  <2> QED BY <1>1, <1>3, <2>1, <2>5
<1>10. CASE UNCHANGED vars
  BY <1>1, <1>2, <1>10 DEF CanvasInv, vars
<1> QED BY <1>4, <1>5, <1>6, <1>8, <1>9, <1>10 DEF Next

\* So it holds of every behaviour.
LEMMA CanvasInvariant == Spec => []CanvasInv
BY CanvasInvInit, CanvasInvNext, PTL DEF Spec

-----------------------------------------------------------------------------
(***************************************************************************)
(* The properties.                                                         *)
(***************************************************************************)

\* Replicas that applied as much, through whatever snapshots, restarts and
\* installs, have the same strokes and the same dedupe table in the same order.
THEOREM ReplicasAgreeTheorem == Spec => []ReplicasAgree
<1>1. CanvasInv => ReplicasAgree
  <2> SUFFICES ASSUME CanvasInv, NEW i \in Server, NEW j \in Server,
                      sm[i].lastApplied = sm[j].lastApplied
               PROVE  sm[i] = sm[j]
    BY DEF ReplicasAgree
  <2>1. PICK h, d : History(log, h, d) /\ \A k \in Server : OfHistory(log, sm[k], saved[k], h)
    BY DEF CanvasInv
  <2>2. PICK m \in 0 .. Len(log) : sm[i] = h[m]
    BY <2>1 DEF OfHistory
  <2>3. PICK n \in 0 .. Len(log) : sm[j] = h[n]
    BY <2>1 DEF OfHistory
  <2>4. m - 1 = n - 1
    BY <2>1, <2>2, <2>3, HistoryApplied
  <2>5. m = n
    BY <2>4
  <2> QED BY <2>2, <2>3, <2>5
<1> QED BY <1>1, CanvasInvariant, PTL

\* What a replica draws and remembers is what the log calls for.
MatchesLog(lg, d, m) ==
  \E n \in 0 .. Len(lg) : m.lastApplied + 1 = n /\ Matches(lg, n, d[n], m)

\* Every replica draws and remembers it, at the point of the log it has reached.
LEMMA EveryMachineMatches ==
  ASSUME CanvasInv
  PROVE  \E d : /\ IsReading(log, d)
                /\ \A i \in Server : MatchesLog(log, d, sm[i])
<1>1. PICK h, d : History(log, h, d) /\ \A k \in Server : OfHistory(log, sm[k], saved[k], h)
  BY DEF CanvasInv
<1>2. ASSUME NEW i \in Server PROVE MatchesLog(log, d, sm[i])
  <2>1. PICK n \in 0 .. Len(log) : sm[i] = h[n]
    BY <1>1 DEF OfHistory
  <2>2. Matches(log, n, d[n], h[n])
    BY <1>1 DEF History
  <2>3. h[n].lastApplied = n - 1
    BY <1>1, HistoryApplied
  <2>4. sm[i].lastApplied + 1 = n
    BY <2>1, <2>3
  <2> QED BY <2>1, <2>2, <2>4 DEF MatchesLog
<1>3. IsReading(log, d)
  BY <1>1 DEF History
<1> QED BY <1>2, <1>3

\* Every machine has applied a prefix of the log, drawn strokes only, and
\* remembers no more clients than the limit.
THEOREM CanvasTypeTheorem == Spec => []TypeOK
<1>1. CanvasInv => TypeOK
  <2> SUFFICES ASSUME CanvasInv PROVE TypeOK
    OBVIOUS
  <2>1. log \in Seq(Op) /\ Len(log) \in Nat
    BY DEF CanvasInv
  <2>2. ASSUME NEW i \in Server
        PROVE  /\ sm[i].lastApplied \in -1 .. Len(log) - 1
               /\ Len(sm[i].dedupe) <= dedupeMaxClients
               /\ \A n \in 1 .. Len(sm[i].strokes) : sm[i].strokes[n].op \in Op \ {Noop}
    <3>1. PICK d : \A j \in Server : MatchesLog(log, d, sm[j])
      BY EveryMachineMatches
    <3>2. PICK n \in 0 .. Len(log) : /\ sm[i].lastApplied + 1 = n
                                     /\ Matches(log, n, d[n], sm[i])
      BY <3>1 DEF MatchesLog
    <3>3. sm[i].lastApplied = n - 1
      <4>1. sm[i] = [strokes |-> sm[i].strokes, dedupe |-> sm[i].dedupe, lastApplied |-> n - 1]
        BY <3>2 DEF Matches
      <4> QED BY <4>1
    <3>4. Len(sm[i].dedupe) <= dedupeMaxClients
      BY <3>2 DEF Matches, TableOf
    <3>5. sm[i].strokes \in Seq(Stroke)
      BY <3>2 DEF Matches, StrokesOf
    <3>6. \A k \in 1 .. Len(sm[i].strokes) : sm[i].strokes[k] \in Stroke
      BY <3>5
    <3>7. \A e \in Stroke : e.op \in Op \ {Noop}
      BY DEF Stroke
    <3> QED BY <2>1, <3>3, <3>4, <3>6, <3>7
  <2> QED BY <2>1, <2>2 DEF TypeOK
<1> QED BY <1>1, CanvasInvariant, PTL

\* There is one reading of a log.
LEMMA ReadingIsUnique ==
  ASSUME NEW lg, Len(lg) \in Nat, NEW d, NEW e, IsReading(lg, d), IsReading(lg, e)
  PROVE  d = e
<1> DEFINE N == Len(lg)
<1>1. /\ DOMAIN d = 0 .. N /\ DOMAIN e = 0 .. N
      /\ d = [n \in 0 .. N |-> d[n]] /\ e = [n \in 0 .. N |-> e[n]]
  BY DEF IsReading
<1>2. \A n \in 0 .. N : /\ d[n] = IF n = 0 THEN {} ELSE Reads(lg, d[n - 1], n - 1)
                        /\ e[n] = IF n = 0 THEN {} ELSE Reads(lg, e[n - 1], n - 1)
  BY DEF IsReading
<1> DEFINE differ == {n \in 0 .. N : d[n] # e[n]}
<1>3. ASSUME differ # {} PROVE FALSE
  <2>1. PICK x \in differ : \A y \in differ : x <= y
    <3>1. differ \subseteq Nat
      OBVIOUS
    <3> HIDE DEF differ
    <3> QED BY <1>3, <3>1, LeastNatural
  <2>2. x # 0
    BY <1>2
  <2>3. x - 1 \in 0 .. N /\ ~(x <= x - 1)
    BY <2>2
  <2>4. d[x - 1] = e[x - 1]
    BY <2>1, <2>3
  <2> QED BY <1>2, <2>2, <2>4
<1> QED BY <1>1, <1>3

\* The parts of IsDrawn.
LEMMA IsDrawnIf ==
  ASSUME NEW s, NEW table, NEW drawn,
         {s[k].index : k \in 1 .. Len(s)} = drawn,
         \A k \in 1 .. Len(s) : /\ s[k].op = log[s[k].index + 1]
                                /\ k > 1 => s[k - 1].index < s[k].index,
         {<<table[k].client, table[k].index>> : k \in 1 .. Len(table)}
           = {<<c, LastDrawn(drawn, c)>> : c \in Known(drawn)}
  PROVE  IsDrawn(s, table, drawn)
BY Zenon DEF IsDrawn

\* The strokes are those the whole log calls for, in its order, and the dedupe
\* table has the last stroke drawn of each client not forgotten.
THEOREM DrawsTheLogTheorem == Spec => []DrawsTheLog
<1>1. CanvasInv => DrawsTheLog
  <2> SUFFICES ASSUME CanvasInv PROVE DrawsTheLog
    OBVIOUS
  <2>1. log \in Seq(Op) /\ Len(log) \in Nat
    BY DEF CanvasInv
  <2>2. PICK d : /\ IsReading(log, d)
                 /\ \A i \in Server : MatchesLog(log, d, sm[i])
    BY EveryMachineMatches
  <2> DEFINE Reading(f) == f = [n \in 0 .. Len(log) |->
                                  IF n = 0 THEN {}
                                  ELSE IF Draws(f[n - 1], log[n]) THEN f[n - 1] \cup {n - 1}
                                  ELSE f[n - 1]]
  <2>3. ASSUME NEW f
        PROVE  [n \in 0 .. Len(log) |->
                  IF n = 0 THEN {}
                  ELSE IF Draws(f[n - 1], log[n]) THEN f[n - 1] \cup {n - 1} ELSE f[n - 1]]
                 = [n \in 0 .. Len(log) |-> IF n = 0 THEN {} ELSE Reads(log, f[n - 1], n - 1)]
    <3>1. ASSUME NEW n \in 0 .. Len(log), n # 0
          PROVE  (IF Draws(f[n - 1], log[n]) THEN f[n - 1] \cup {n - 1} ELSE f[n - 1])
                   = Reads(log, f[n - 1], n - 1)
      <4>1. n - 1 + 1 = n
        BY <2>1
      <4> QED BY <4>1, DrawsFromLog DEF Reads
    <3> QED BY <3>1
  <2>4. Reading(d)
    BY <2>2, <2>3 DEF IsReading
  <2>5. Drawn = CHOOSE f : Reading(f)
    BY DEF Drawn
  <2>6. Reading(Drawn)
    <3> HIDE DEF Reading
    <3> QED BY <2>4, <2>5
  <2>7. Drawn = d
    <3>1. IsReading(log, Drawn)
      BY <2>3, <2>6 DEF IsReading
    <3> QED BY <2>1, <2>2, <3>1, ReadingIsUnique
  <2>8. SUFFICES ASSUME NEW i \in Server
                 PROVE  IsDrawn(sm[i].strokes, sm[i].dedupe, Drawn[sm[i].lastApplied + 1])
    BY DEF DrawsTheLog
  <2> DEFINE s == sm[i].strokes
             table == sm[i].dedupe
             drawn == Drawn[sm[i].lastApplied + 1]
             known == Known(drawn)
  <2>9. PICK n \in 0 .. Len(log) : /\ sm[i].lastApplied + 1 = n
                                   /\ Matches(log, n, d[n], sm[i])
    BY <2>2 DEF MatchesLog
  <2>10. /\ drawn \subseteq 0 .. n - 1
         /\ StrokesOf(log, drawn, s)
         /\ TableOf(log, drawn, table)
    BY <2>7, <2>9 DEF Matches
  <2>11. \A c \in Client : c \in known <=> \E k \in 1 .. Len(table) : table[k].client = c
    <3> SUFFICES ASSUME NEW c \in Client
                 PROVE  c \in known <=> \E k \in 1 .. Len(table) : table[k].client = c
      OBVIOUS
    <3>1. c \in known <=> /\ LastOf(log, drawn, c) >= 0
                          /\ ~(Cardinality(Later(log, drawn, c)) >= dedupeMaxClients)
      BY LastOfLog DEF Known
    <3> HIDE DEF known, table, drawn
    <3>2. n \in Nat
      OBVIOUS
    <3>3. (\E k \in 1 .. Len(table) : table[k].client = c)
            <=> /\ LastOf(log, drawn, c) >= 0
                /\ ~(Cardinality(Later(log, drawn, c)) >= dedupeMaxClients)
      BY <2>10, <3>2, KnownIsInTable
    <3> QED BY <3>1, <3>3
  <2>12. table \in Seq(Rows(Client)) /\ \A k \in 1 .. Len(table) :
           table[k].client \in Client /\ table[k].index = LastDrawn(drawn, table[k].client)
    <3> HIDE DEF table, drawn
    <3>1. table \in Seq(Rows(Client))
      BY <2>10 DEF TableOf
    <3>2. \A k \in 1 .. Len(table) : table[k].client \in Client
      BY <3>1, RowFields
    <3>3. \A k \in 1 .. Len(table) : table[k].index = LastOf(log, drawn, table[k].client)
      BY <2>10 DEF TableOf
    <3>4. \A c : LastDrawn(drawn, c) = LastOf(log, drawn, c)
      BY LastOfLog
    <3> QED BY <3>1, <3>2, <3>3, <3>4
  <2> HIDE DEF s, table, drawn, Reading
  <2>13. known \subseteq Client
    BY DEF Known
  <2> HIDE DEF known
  <2>14. {<<table[k].client, table[k].index>> : k \in 1 .. Len(table)}
           = {<<c, LastDrawn(drawn, c)>> : c \in known}
    <3>1. \A k \in 1 .. Len(table) : /\ table[k].client \in known
                                     /\ table[k].index = LastDrawn(drawn, table[k].client)
      BY <2>11, <2>12
    <3>2. \A c \in known : \E k \in 1 .. Len(table) :
            table[k].client = c /\ table[k].index = LastDrawn(drawn, c)
      BY <2>11, <2>12, <2>13
    <3> QED BY <3>1, <3>2
  <2>15. {s[k].index : k \in 1 .. Len(s)} = drawn
    BY <2>10 DEF StrokesOf
  <2>16. \A k \in 1 .. Len(s) : /\ s[k].op = log[s[k].index + 1]
                                /\ k > 1 => s[k - 1].index < s[k].index
    <3>1. /\ \A k \in 1 .. Len(s) : s[k].op = log[s[k].index + 1]
          /\ \A a, b \in 1 .. Len(s) : a < b => s[a].index < s[b].index
      BY <2>10 DEF StrokesOf
    <3>2. Len(s) \in Nat
      <4>1. s \in Seq(Stroke)
        BY <2>10 DEF StrokesOf
      <4> QED BY <4>1
    <3>3. ASSUME NEW k \in 1 .. Len(s), k > 1 PROVE k - 1 \in 1 .. Len(s) /\ k - 1 < k
      BY <3>2, <3>3
    <3> QED BY <3>1, <3>3
  <2>17. IsDrawn(s, table, drawn)
    <3>1. known = Known(drawn)
      BY DEF known
    <3>2. {<<table[k].client, table[k].index>> : k \in 1 .. Len(table)}
            = {<<c, LastDrawn(drawn, c)>> : c \in Known(drawn)}
      BY <2>14, <3>1
    <3> QED BY <2>15, <2>16, <3>2, IsDrawnIf
  <2> QED BY <2>17 DEF s, table, drawn
<1> QED BY <1>1, CanvasInvariant, PTL

\* p of the strokes s have an index up to n, and they come first.
Cut(s, n, p) == p \in 0 .. Len(s) /\ \A k \in 1 .. Len(s) : s[k].index <= n <=> k <= p

\* Strokes in the order of their indexes can be cut at every index.
LEMMA StrokesCut ==
  ASSUME NEW s \in Seq(Stroke), \A a, b \in 1 .. Len(s) : a < b => s[a].index < s[b].index,
         NEW n \in Int
  PROVE  \E p : Cut(s, n, p)
<1> DEFINE P == {k \in 1 .. Len(s) : s[k].index <= n}
<1>1. Len(s) \in Nat /\ \A k \in 1 .. Len(s) : s[k].index \in Nat
  <2>1. \A k \in 1 .. Len(s) : s[k] \in Stroke
    OBVIOUS
  <2>2. \A e \in Stroke : e.index \in Nat
    BY DEF Stroke
  <2> QED BY <2>1, <2>2
<1>2. CASE P = {}
  <2>1. Cut(s, n, 0)
    BY <1>1, <1>2 DEF Cut
  <2> QED BY <2>1
<1>3. CASE P # {}
  <2>1. P \subseteq 0 .. Len(s)
    OBVIOUS
  <2>2. PICK p \in P : \A k \in P : p >= k
    <3> HIDE DEF P
    <3> QED BY <1>1, <1>3, <2>1, GreatestNatural
  <2>3. p \in 1 .. Len(s) /\ s[p].index <= n /\ \A k \in 1 .. Len(s) : s[k].index <= n => k <= p
    BY <1>1, <2>2
  <2>4. \A k \in 1 .. Len(s) : k <= p => s[k].index <= n
    BY <1>1, <2>3
  <2>5. Cut(s, n, p)
    BY <1>1, <2>3, <2>4 DEF Cut
  <2> QED BY <2>5
<1> QED BY <1>2, <1>3

\* Whatever index a reader of /log stops at, the page up to it and the page
\* from the next index on are together the strokes the replica drew.
THEOREM HistoryTheorem == Spec => []HistoryIsComplete
<1>1. CanvasInv => HistoryIsComplete
  <2> SUFFICES ASSUME CanvasInv, NEW i \in Server
               PROVE  LET commit == sm[i].lastApplied
                          all == getLogEntries(sm[i], 0, commit)
                      IN  /\ all = sm[i].strokes
                          /\ \A n \in 0 .. commit :
                               getLogEntries(sm[i], 0, n) \o getLogEntries(sm[i], n + 1, commit)
                                 = all
    BY DEF HistoryIsComplete
  <2> DEFINE commit == sm[i].lastApplied
             s == sm[i].strokes
  <2>1. PICK d : \A j \in Server : MatchesLog(log, d, sm[j])
    BY EveryMachineMatches
  <2>2. PICK m \in 0 .. Len(log) : commit + 1 = m /\ Matches(log, m, d[m], sm[i])
    BY <2>1 DEF MatchesLog
  <2>3. commit = m - 1 /\ m \in Int
    <3>1. sm[i] = [strokes |-> sm[i].strokes, dedupe |-> sm[i].dedupe, lastApplied |-> m - 1]
      BY <2>2 DEF Matches
    <3>2. m \in Int
      BY DEF CanvasInv
    <3> QED BY <3>1, <3>2
  <2>4. StrokesOf(log, d[m], s) /\ d[m] \subseteq 0 .. m - 1
    BY <2>2 DEF Matches
  <2> HIDE DEF commit
  <2>5. /\ s \in Seq(Stroke) /\ Len(s) \in Nat
        /\ \A a, b \in 1 .. Len(s) : a < b => s[a].index < s[b].index
    <3>1. s \in Seq(Stroke) /\ \A a, b \in 1 .. Len(s) : a < b => s[a].index < s[b].index
      BY <2>4 DEF StrokesOf
    <3> HIDE DEF s
    <3> QED BY <3>1
  <2>6. \A k \in 1 .. Len(s) : s[k].index \in Int /\ s[k].index >= 0 /\ s[k].index <= commit
    <3>1. \A k \in 1 .. Len(s) : s[k].index \in d[m]
      BY <2>4 DEF StrokesOf
    <3> HIDE DEF s
    <3> QED BY <2>3, <2>4, <3>1
  <2>7. getLogEntries(sm[i], 0, commit) = s
    <3>1. Len(s) \in 0 .. Len(s) /\ \A k \in 1 .. Len(s) : s[k].index <= commit <=> k <= Len(s)
      BY <2>5, <2>6
    <3>2. getLogEntries(sm[i], 0, commit) = SubSeq(s, 1, Len(s))
      BY <2>5, <2>6, <3>1, FirstEntries
    <3> HIDE DEF s
    <3> QED BY <2>5, <3>2, SubSeqFull
  <2>8. ASSUME NEW n \in 0 .. commit
        PROVE  getLogEntries(sm[i], 0, n) \o getLogEntries(sm[i], n + 1, commit) = s
    <3>1. n \in Int
      BY <2>3
    <3>2. PICK p : Cut(s, n, p)
      BY <2>5, <3>1, StrokesCut
    <3>3. p \in 0 .. Len(s) /\ \A k \in 1 .. Len(s) : s[k].index <= n <=> k <= p
      BY <3>2 DEF Cut
    <3>4. \A k \in 1 .. Len(s) : s[k].index >= n + 1 <=> k > p
      <4> HIDE DEF s
      <4> QED BY <2>5, <2>6, <3>1, <3>3
    <3>5. getLogEntries(sm[i], 0, n) = SubSeq(s, 1, p)
      BY <2>5, <2>6, <3>3, FirstEntries
    <3>6. getLogEntries(sm[i], n + 1, commit) = SubSeq(s, p + 1, Len(s))
      BY <2>5, <2>6, <3>3, <3>4, LastEntries
    <3> HIDE DEF s
    <3>7. SubSeq(s, 1, p) \o SubSeq(s, p + 1, Len(s)) = SubSeq(s, 1, Len(s))
      <4>1. 1 \in 1 .. Len(s) + 1 /\ p \in 1 - 1 .. Len(s) /\ Len(s) \in p .. Len(s)
        BY <2>5, <3>3
      <4> QED BY <2>5, <4>1, ConcatAdjacentSubSeq
    <3> QED BY <2>5, <3>5, <3>6, <3>7, SubSeqFull
  <2> QED BY <2>7, <2>8 DEF commit, s
<1> QED BY <1>1, CanvasInvariant, PTL
=============================================================================
