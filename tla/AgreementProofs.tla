-------------------------- MODULE AgreementProofs ---------------------------
(***************************************************************************)
(* Why the replicas agree: the logs of the leaders, the quorums that       *)
(* acknowledged them and what each write of Persistence does to the log a  *)
(* store shows. No lemma here is about a whole step of RaftNode but the    *)
(* last ones, which frame them; SafetyProofs has the steps.                *)
(*                                                                         *)
(* The ghosts: G[t] is the log of the leader of term t, empty while there  *)
(* was none, and <<j, k, t>> in K says that j told the leader of term t    *)
(* that it has the leader's log up to index k. They are no variables of    *)
(* RaftNode: the invariant says that there are such G and K, and every     *)
(* step gives the next ones. T and L are the terms and the logs of the     *)
(* replicas.                                                               *)
(*                                                                         *)
(* The argument is Raft's: an entry a majority acknowledged to the leader  *)
(* of its own term (Chosen) is in the log of every later leader, because a *)
(* voter of that leader had acknowledged it and the up-to-date check of    *)
(* handleRequestVote makes the leader's log cover it (Cover). What         *)
(* commitIndex names is below a chosen entry (Fixed), so is what a         *)
(* snapshot holds, and that is why compacted stores still show the log.    *)
(***************************************************************************)
EXTENDS NodeProofs

-----------------------------------------------------------------------------
(***************************************************************************)
(* The leaders' logs, the acknowledgements and the quorums.                *)
(***************************************************************************)

\* A log without holes, from index 0 on.
IsFull(X) == \E b \in Index : X \in [0 .. b -> Entry]

\* The entry of X at n is of term t.
Has(X, n, t) == n \in DOMAIN X /\ X[n].term = t

\* X and Y reach k and are the same up to it.
Agrees(X, Y, k) ==
  k \in DOMAIN X /\ k \in DOMAIN Y /\ \A n \in 0 .. k : X[n] = Y[n]

\* Every entry of the log was copied, with all before it, from the leader of
\* its term, and that is U or an earlier one.
From(X, G, U) ==
  \A n \in DOMAIN X : X[n].term \in 0 .. U /\ Agrees(X, G[X[n].term], n)

\* Term t has had a leader.
Led(G, t) == DOMAIN G[t] # {}

\* Replica j told the leader of term t that it has its log up to n at least.
Acked(K, j, n, t) == \E k \in Nat : k >= n /\ <<j, k, t>> \in K

\* A majority of the replicas.
IsQuorum(Q) == Q \in SUBSET Server /\ Cardinality(Q) >= Majority

\* A majority acknowledged the entry at n to the leader of term t, and it is of
\* that leader's own term.
Chosen(G, K, n, t) ==
  /\ Has(G[t], n, t)
  /\ \E Q \in SUBSET Server : IsQuorum(Q) /\ \A j \in Q : Acked(K, j, n, t)

\* The leaders between t and U have the entry n of term t.
Carried(G, n, t, U) ==
  \A u \in Nat : (t < u /\ u < U /\ Led(G, u)) => Has(G[u], n, t)

\* What j acknowledged before term U and no leader dropped since is in X.
Cover(G, K, j, U, X) ==
  \A t, n \in Nat :
    (t < U /\ Acked(K, j, n, t) /\ Has(G[t], n, t) /\ Carried(G, n, t, U)) => Has(X, n, t)

\* A majority that reached term U vouches for X.
Endorsed(G, K, T, U, X) ==
  \E Q \in SUBSET Server :
    IsQuorum(Q) /\ \A j \in Q : T[j] >= U /\ Cover(G, K, j, U, X)

\* What a replica acknowledged is in the log of that term's leader and, while it
\* stays in the term, in its own.
AcksOK(G, K, T, L) ==
  \A j \in Server, k, t \in Nat : <<j, k, t>> \in K =>
    /\ t <= T[j] /\ k \in DOMAIN G[t]
    /\ t = T[j] => Agrees(L[j], G[t], k)

\* What holds of the leaders' logs, the acknowledgements, the terms T and the
\* logs L of the replicas: every log is copied from leaders, every leader was
\* elected by replicas whose acknowledgements its log covers.
Core(G, K, T, L) ==
  /\ \A t \in Nat : IsFull(G[t]) /\ From(G[t], G, t)
  /\ \A i \in Server : T[i] \in Nat /\ IsFull(L[i]) /\ From(L[i], G, T[i])
  /\ AcksOK(G, K, T, L)
  /\ \A j \in Server : Cover(G, K, j, T[j] + 1, L[j])
  /\ \A U \in Nat : Led(G, U) => Endorsed(G, K, T, U, G[U])

\* A full log has every index below one it has.
LEMMA FullBelow ==
  ASSUME NEW X, IsFull(X), NEW n \in DOMAIN X
  PROVE  n \in Nat /\ X[n] \in Entry /\ X[n].term \in Nat /\ 0 .. n \subseteq DOMAIN X
<1>1. PICK b \in Index : X \in [0 .. b -> Entry]
  BY DEF IsFull
<1>2. DOMAIN X = 0 .. b /\ b \in Int /\ n \in 0 .. b
  BY <1>1 DEF Index
<1>3. X[n] \in Entry
  BY <1>1, <1>2
<1> QED BY <1>2, <1>3 DEF Entry

\* Two logs whose entries at n have the same term agree up to n.
LEMMA SameTermAgrees ==
  ASSUME NEW X, NEW Y, NEW G, NEW U, NEW V, From(X, G, U), From(Y, G, V),
         NEW t, NEW n, Has(X, n, t), Has(Y, n, t)
  PROVE  Agrees(X, Y, n)
BY DEF From, Has, Agrees

\* Logs that agree up to k agree up to every index below.
LEMMA AgreesUp ==
  ASSUME NEW X, NEW Y, NEW k \in Nat, Agrees(X, Y, k), IsFull(X), IsFull(Y), NEW n \in 0 .. k
  PROVE  Agrees(X, Y, n) /\ X[n] = Y[n]
<1>1. n \in DOMAIN X /\ n \in DOMAIN Y /\ 0 .. n \subseteq 0 .. k
  BY FullBelow DEF Agrees
<1> QED BY <1>1 DEF Agrees

\* Agreement is transitive.
LEMMA AgreesTrans ==
  ASSUME NEW X, NEW Y, NEW Z, NEW k, Agrees(X, Y, k), Agrees(Y, Z, k)
  PROVE  Agrees(X, Z, k)
BY DEF Agrees

\* Agreement is symmetric.
LEMMA AgreesSym ==
  ASSUME NEW X, NEW Y, NEW k, Agrees(X, Y, k)
  PROVE  Agrees(Y, X, k)
BY DEF Agrees

\* The terms of a log never decrease.
LEMMA TermsGrow ==
  ASSUME NEW X, NEW G, NEW U, IsFull(X), From(X, G, U),
         \A t \in Nat : IsFull(G[t]) /\ From(G[t], G, t),
         NEW b \in DOMAIN X, NEW n \in 0 .. b
  PROVE  n \in DOMAIN X /\ X[n].term \in Nat /\ X[b].term \in Nat /\ X[n].term <= X[b].term
<1> DEFINE s == X[b].term
<1>1. /\ b \in Nat /\ s \in Nat /\ n \in DOMAIN X /\ X[n].term \in Nat
  BY FullBelow
<1>2. Agrees(X, G[s], b)
  BY DEF From
<1>3. n \in DOMAIN G[s] /\ X[n] = G[s][n]
  BY <1>1, <1>2, AgreesUp DEF Agrees
<1>4. G[s][n].term \in 0 .. s
  BY <1>1, <1>3 DEF From
<1> QED BY <1>1, <1>3, <1>4

\* Two majorities have a replica in common: the voters of a leader and the
\* replicas a leader counts in _maybeAdvanceCommitIndex.
LEMMA QuorumsMeet ==
  ASSUME NEW P, IsQuorum(P), NEW Q, IsQuorum(Q)
  PROVE  \E j \in Server : j \in P /\ j \in Q
<1>1. /\ Cardinality(Server) \in Nat /\ Cardinality(P) \in Nat
      /\ Cardinality(Q) \in Nat /\ IsFiniteSet(Server)
  BY FS_CardinalityType, FS_Subset, ServerAssumption DEF IsQuorum
<1>2. Cardinality(P) + Cardinality(Q) > Cardinality(Server)
  BY <1>1 DEF Majority, IsQuorum
<1>3. P \in SUBSET Server /\ Q \in SUBSET Server
  BY DEF IsQuorum
<1> QED BY <1>1, <1>2, <1>3, FS_MajoritiesIntersect

\* What was chosen in a term is in the log of every later leader.
LEMMA LeadersHaveChosen ==
  ASSUME NEW G, NEW K, NEW T, NEW L, Core(G, K, T, L),
         NEW n \in Nat, NEW t \in Nat, Chosen(G, K, n, t)
  PROVE  \A U \in Nat : (U > t /\ Led(G, U)) => Has(G[U], n, t)
<1> DEFINE Bad == {U \in Nat : U > t /\ Led(G, U) /\ ~Has(G[U], n, t)}
<1> SUFFICES ASSUME Bad # {} PROVE FALSE
  OBVIOUS
<1>1. PICK U \in Bad : \A u \in Bad : U <= u
  <2> Bad \subseteq Nat
    OBVIOUS
  <2> HIDE DEF Bad
  <2> QED BY LeastNatural
<1>2. U \in Nat /\ U > t /\ Led(G, U) /\ ~Has(G[U], n, t)
  OBVIOUS
<1>3. Carried(G, n, t, U)
  <2> SUFFICES ASSUME NEW u \in Nat, t < u, u < U, Led(G, u), ~Has(G[u], n, t) PROVE FALSE
    BY DEF Carried
  <2>1. u \in Bad
    OBVIOUS
  <2> QED BY <1>1, <1>2, <2>1
<1>4. PICK P \in SUBSET Server : IsQuorum(P) /\ \A j \in P : Acked(K, j, n, t)
  BY DEF Chosen
<1>5. PICK Q \in SUBSET Server : IsQuorum(Q) /\ \A j \in Q : Cover(G, K, j, U, G[U])
  BY <1>2 DEF Core, Endorsed
<1>6. PICK j \in Server : j \in P /\ j \in Q
  BY <1>4, <1>5, QuorumsMeet
<1> QED BY <1>2, <1>3, <1>4, <1>5, <1>6 DEF Cover, Chosen

-----------------------------------------------------------------------------
(***************************************************************************)
(* What happens to the logs: a term grows, a log follows a leader's, a     *)
(* replica acknowledges, a leader appends or is elected.                   *)
(***************************************************************************)

\* The logs of the leaders only grow, by entries of the leader's own term.
LogsGrow(G, H) ==
  \A t \in Nat :
    /\ \A n \in DOMAIN G[t] : n \in DOMAIN H[t] /\ H[t][n] = G[t][n]
    /\ Led(G, t) => \A n \in DOMAIN H[t] : n \in DOMAIN G[t] \/ H[t][n].term = t

\* New acknowledgements are of the term the replica is in.
MoreAcks(K, J, T) ==
  /\ K \subseteq J
  /\ \A j \in Server, k, t \in Nat : <<j, k, t>> \in J => <<j, k, t>> \in K \/ t >= T[j]

\* An entry the leaders of the longer logs have, those of the shorter ones had.
LEMMA GrowthCarries ==
  ASSUME NEW G, NEW H, LogsGrow(G, H), NEW n, NEW t \in Nat, NEW U, Carried(H, n, t, U)
  PROVE  Carried(G, n, t, U)
<1> SUFFICES ASSUME NEW u \in Nat, t < u, u < U, Led(G, u) PROVE Has(G[u], n, t)
  BY DEF Carried
<1>1. Led(H, u)
  BY DEF Led, LogsGrow
<1>2. Has(H[u], n, t)
  BY <1>1 DEF Carried
<1>3. n \in DOMAIN G[u]
  BY <1>2 DEF LogsGrow, Has
<1> QED BY <1>2, <1>3 DEF LogsGrow, Has

\* X covers what a replica acknowledged before a term it has reached, whatever
\* it acknowledges later and however the leaders' logs grow.
LEMMA CoverKept ==
  ASSUME NEW G, NEW K, NEW T, NEW L, AcksOK(G, K, T, L),
         NEW H, LogsGrow(G, H), \A t \in Nat : IsFull(G[t]),
         NEW J, MoreAcks(K, J, T),
         NEW j \in Server, T[j] \in Nat, NEW U \in Nat, T[j] >= U, NEW X, Cover(G, K, j, U, X)
  PROVE  Cover(H, J, j, U, X)
<1> SUFFICES ASSUME NEW t \in Nat, NEW n \in Nat, t < U, Acked(J, j, n, t),
                    Has(H[t], n, t), Carried(H, n, t, U)
             PROVE  Has(X, n, t)
  BY DEF Cover
<1>1. PICK k \in Nat : k >= n /\ <<j, k, t>> \in J
  BY DEF Acked
<1>2. <<j, k, t>> \in K
  BY <1>1 DEF MoreAcks
<1>3. n \in DOMAIN G[t]
  <2>1. k \in DOMAIN G[t]
    BY <1>2 DEF AcksOK
  <2>2. n \in 0 .. k
    BY <1>1
  <2> QED BY <2>1, <2>2, FullBelow
<1>4. Has(G[t], n, t) /\ Carried(G, n, t, U) /\ Acked(K, j, n, t)
  BY <1>1, <1>2, <1>3, GrowthCarries DEF Has, LogsGrow, Acked
<1> QED BY <1>4 DEF Cover

\* A majority that vouches for a log goes on vouching for it.
LEMMA EndorsedKept ==
  ASSUME NEW G, NEW K, NEW T, NEW L, AcksOK(G, K, T, L),
         NEW H, LogsGrow(G, H), \A t \in Nat : IsFull(G[t]),
         NEW J, MoreAcks(K, J, T), \A j \in Server : T[j] \in Nat,
         NEW S, \A j \in Server : S[j] \in Nat /\ S[j] >= T[j],
         NEW U \in Nat, NEW X, Endorsed(G, K, T, U, X)
  PROVE  Endorsed(H, J, S, U, X)
<1>1. PICK Q \in SUBSET Server :
         IsQuorum(Q) /\ \A j \in Q : T[j] >= U /\ Cover(G, K, j, U, X)
  BY DEF Endorsed
<1>2. ASSUME NEW j \in Q PROVE S[j] >= U /\ Cover(H, J, j, U, X)
  <2>1. j \in Server /\ T[j] >= U /\ Cover(G, K, j, U, X) /\ T[j] \in Nat /\ S[j] \in Nat /\ S[j] >= T[j]
    BY <1>1
  <2>2. Cover(H, J, j, U, X)
    BY <2>1, CoverKept
  <2> QED BY <2>1, <2>2
<1> QED BY <1>1, <1>2 DEF Endorsed

\* The leaders' logs may stay as they are.
LEMMA LogsGrowRefl ==
  ASSUME NEW G
  PROVE  LogsGrow(G, G)
BY DEF LogsGrow

\* A step may acknowledge nothing.
LEMMA MoreAcksRefl ==
  ASSUME NEW K, NEW T
  PROVE  MoreAcks(K, K, T)
BY DEF MoreAcks

\* Terms grow.
LEMMA TermsKeepCore ==
  ASSUME NEW G, NEW K, NEW T, NEW L, Core(G, K, T, L),
         NEW S, \A i \in Server : S[i] \in Nat /\ S[i] >= T[i]
  PROVE  Core(G, K, S, L)
<1>1. \A i \in Server : IsFull(L[i]) /\ From(L[i], G, S[i])
  BY DEF Core, From
<1>2. AcksOK(G, K, S, L)
  BY DEF Core, AcksOK
<1>3. ASSUME NEW j \in Server PROVE Cover(G, K, j, S[j] + 1, L[j])
  <2> SUFFICES ASSUME NEW t \in Nat, NEW n \in Nat, t < S[j] + 1, Acked(K, j, n, t),
                      Has(G[t], n, t), Carried(G, n, t, S[j] + 1)
               PROVE  Has(L[j], n, t)
    BY DEF Cover
  <2>1. PICK k \in Nat : <<j, k, t>> \in K
    BY DEF Acked
  <2>2. t < T[j] + 1 /\ S[j] >= T[j] /\ T[j] \in Nat
    BY <2>1 DEF Core, AcksOK
  <2>3. Carried(G, n, t, T[j] + 1)
    BY <2>2 DEF Carried
  <2> QED BY <2>2, <2>3 DEF Core, Cover
<1>4. ASSUME NEW U \in Nat, Led(G, U) PROVE Endorsed(G, K, S, U, G[U])
  <2>1. Endorsed(G, K, T, U, G[U]) /\ AcksOK(G, K, T, L)
    BY <1>4 DEF Core
  <2> QED BY <2>1, EndorsedKept, LogsGrowRefl, MoreAcksRefl DEF Core
<1> QED BY <1>1, <1>2, <1>3, <1>4 DEF Core

\* A replica acknowledges what agrees with the log of its term's leader.
LEMMA AckKeepsCore ==
  ASSUME NEW G, NEW K, NEW T, NEW L, Core(G, K, T, L),
         NEW j \in Server, NEW k \in Nat, Agrees(L[j], G[T[j]], k)
  PROVE  /\ Core(G, K \cup {<<j, k, T[j]>>}, T, L)
         /\ MoreAcks(K, K \cup {<<j, k, T[j]>>}, T)
<1> DEFINE J == K \cup {<<j, k, T[j]>>}
<1>1. MoreAcks(K, J, T)
  BY DEF MoreAcks, Core
<1>2. AcksOK(G, J, T, L)
  BY DEF AcksOK, Core, Agrees
<1> HIDE DEF J
<1>3. ASSUME NEW i \in Server PROVE Cover(G, J, i, T[i] + 1, L[i])
  <2> SUFFICES ASSUME NEW t \in Nat, NEW n \in Nat, t < T[i] + 1, Acked(J, i, n, t),
                      Has(G[t], n, t), Carried(G, n, t, T[i] + 1)
               PROVE  Has(L[i], n, t)
    BY DEF Cover
  <2>1. PICK l \in Nat : l >= n /\ <<i, l, t>> \in J
    BY DEF Acked
  <2>2. CASE t = T[i]
    <3>1. Agrees(L[i], G[t], l) /\ n \in 0 .. l
      BY <1>2, <2>1, <2>2 DEF AcksOK
    <3>2. IsFull(L[i]) /\ IsFull(G[t])
      BY DEF Core
    <3>3. Agrees(L[i], G[t], n)
      BY <3>1, <3>2, AgreesUp
    <3> QED BY <3>3 DEF Agrees, Has
  <2>3. CASE t # T[i]
    <3>1. <<i, l, t>> \in K
      BY <2>1, <2>3 DEF J
    <3> QED BY <2>1, <3>1 DEF Acked, Core, Cover
  <2> QED BY <2>2, <2>3
<1>4. ASSUME NEW U \in Nat, Led(G, U) PROVE Endorsed(G, J, T, U, G[U])
  <2>1. Endorsed(G, K, T, U, G[U]) /\ AcksOK(G, K, T, L)
    BY <1>4 DEF Core
  <2> QED BY <1>1, <2>1, EndorsedKept, LogsGrowRefl DEF Core
<1>5. \A i \in Server : T[i] \in Nat /\ IsFull(L[i]) /\ From(L[i], G, T[i])
  BY DEF Core
<1>6. Core(G, J, T, L)
  BY <1>2, <1>3, <1>4, <1>5 DEF Core
<1> QED BY <1>1, <1>6 DEF J

\* A replica in the term of a leader takes a log that keeps what it shared
\* with the leader's.
LEMMA FollowKeepsCore ==
  ASSUME NEW G, NEW K, NEW T, NEW L, Core(G, K, T, L), DOMAIN L = Server,
         NEW j \in Server, Led(G, T[j]), NEW X, IsFull(X), From(X, G, T[j]),
         \A k \in Nat : Agrees(L[j], G[T[j]], k) => Agrees(X, G[T[j]], k)
  PROVE  Core(G, K, T, [L EXCEPT ![j] = X])
<1> DEFINE M == [L EXCEPT ![j] = X]
           U == T[j]
<1>0. M[j] = X /\ \A i \in Server : i # j => M[i] = L[i]
  OBVIOUS
<1> HIDE DEF M
<1>1. \A i \in Server : T[i] \in Nat /\ IsFull(M[i]) /\ From(M[i], G, T[i])
  BY <1>0 DEF Core
<1>2. AcksOK(G, K, T, M)
  BY <1>0 DEF AcksOK, Core
<1>3. ASSUME NEW i \in Server PROVE Cover(G, K, i, T[i] + 1, M[i])
  <2>1. CASE i # j
    BY <1>0, <2>1 DEF Core
  <2>2. CASE i = j
    <3> SUFFICES ASSUME NEW t \in Nat, NEW n \in Nat, t < U + 1, Acked(K, j, n, t),
                        Has(G[t], n, t), Carried(G, n, t, U + 1)
                 PROVE  Has(X, n, t)
      BY <1>0, <2>2 DEF Cover
    <3>1. Has(L[j], n, t)
      BY DEF Core, Cover
    <3>2. Has(G[U], n, t) /\ U \in Nat
      <4>1. U \in Nat
        BY DEF Core
      <4>2. CASE t = U
        BY <4>1, <4>2
      <4>3. CASE t < U
        BY <4>1, <4>3 DEF Carried
      <4> QED BY <4>1, <4>2, <4>3
    <3>3. From(L[j], G, U) /\ From(G[U], G, U)
      BY <3>2 DEF Core
    <3>4. Agrees(L[j], G[U], n)
      BY <3>1, <3>2, <3>3, SameTermAgrees
    <3>5. Agrees(X, G[U], n)
      BY <3>4
    <3>6. n \in 0 .. n
      OBVIOUS
    <3> QED BY <3>2, <3>5, <3>6 DEF Agrees, Has
  <2> QED BY <2>1, <2>2
<1>4. Core(G, K, T, M)
  BY <1>1, <1>2, <1>3 DEF Core
<1> QED BY <1>4 DEF M

\* X with e appended; b is its last index.
Longer(X, b, e) == [n \in 0 .. b + 1 |-> IF n = b + 1 THEN e ELSE X[n]]

\* What a log and the same log with one more entry have at each index.
LEMMA LongerIsFull ==
  ASSUME NEW b \in Index, NEW X \in [0 .. b -> Entry], NEW e \in Entry
  PROVE  /\ IsFull(X) /\ IsFull(Longer(X, b, e))
         /\ DOMAIN X = 0 .. b /\ DOMAIN Longer(X, b, e) = 0 .. b + 1
         /\ \A n \in 0 .. b : n \in DOMAIN Longer(X, b, e) /\ Longer(X, b, e)[n] = X[n]
         /\ b \in Int /\ b + 1 \in Nat /\ Longer(X, b, e)[b + 1] = e
<1>1. b + 1 \in Index /\ b + 1 \in Nat /\ b \in Int
  BY DEF Index
<1>2. Longer(X, b, e) \in [0 .. b + 1 -> Entry]
  <2>1. ASSUME NEW n \in 0 .. b + 1 PROVE (IF n = b + 1 THEN e ELSE X[n]) \in Entry
    <3>1. n = b + 1 \/ n \in 0 .. b
      BY <1>1
    <3> QED BY <1>1, <3>1
  <2> QED BY <2>1 DEF Longer
<1>3. ASSUME NEW n \in 0 .. b PROVE n \in DOMAIN Longer(X, b, e) /\ Longer(X, b, e)[n] = X[n]
  BY <1>1 DEF Longer
<1>4. Longer(X, b, e)[b + 1] = e /\ DOMAIN Longer(X, b, e) = 0 .. b + 1
  BY <1>1 DEF Longer
<1> QED BY <1>1, <1>2, <1>3, <1>4 DEF IsFull

\* The leader of a term, or the candidate a majority vouches for, appends an
\* entry of its term.
LEMMA AppendKeepsCore ==
  ASSUME NEW G, DOMAIN G = Nat, NEW K, NEW T, NEW L, Core(G, K, T, L), DOMAIN L = Server,
         NEW i \in Server, NEW b \in Index, L[i] \in [0 .. b -> Entry],
         Endorsed(G, K, T, T[i], L[i]), Led(G, T[i]) => G[T[i]] = L[i],
         NEW e \in Entry, e.term = T[i]
  PROVE  LET Y == Longer(L[i], b, e)
             H == [G EXCEPT ![T[i]] = Y]
         IN  Core(H, K, T, [L EXCEPT ![i] = Y]) /\ LogsGrow(G, H)
<1> DEFINE X == L[i]
           U == T[i]
           Y == Longer(X, b, e)
           H == [G EXCEPT ![U] = Y]
           M == [L EXCEPT ![i] = Y]
<1>0. /\ U \in Nat /\ M[i] = Y /\ \A j \in Server : j # i => M[j] = L[j]
      /\ H[U] = Y /\ \A t \in Nat : t # U => H[t] = G[t]
      /\ AcksOK(G, K, T, L)
      /\ \A t \in Nat : IsFull(G[t]) /\ From(G[t], G, t)
      /\ \A j \in Server : T[j] \in Nat
  BY DEF Core
<1>1. /\ IsFull(X) /\ IsFull(Y) /\ DOMAIN X = 0 .. b /\ DOMAIN Y = 0 .. b + 1
      /\ \A n \in 0 .. b : n \in DOMAIN Y /\ Y[n] = X[n]
      /\ b \in Int /\ b + 1 \in Nat /\ Y[b + 1] = e
  BY LongerIsFull
<1>2. /\ From(X, G, U) /\ (Led(G, U) => G[U] = X)
      /\ Endorsed(G, K, T, U, X) /\ e.term = U
  BY DEF Core
<1> HIDE DEF H, M, Y, X, U
<1>3. LogsGrow(G, H)
  <2> SUFFICES ASSUME NEW t \in Nat
               PROVE  /\ \A n \in DOMAIN G[t] : n \in DOMAIN H[t] /\ H[t][n] = G[t][n]
                      /\ Led(G, t) => \A n \in DOMAIN H[t] : n \in DOMAIN G[t] \/ H[t][n].term = t
    BY DEF LogsGrow
  <2>1. CASE t # U
    BY <1>0, <2>1
  <2>2. CASE t = U /\ ~Led(G, U)
    BY <2>2 DEF Led
  <2>3. CASE t = U /\ Led(G, U)
    <3>1. G[t] = X /\ H[t] = Y
      BY <1>0, <1>2, <2>3
    <3>2. \A n \in 0 .. b + 1 : n \in 0 .. b \/ n = b + 1
      BY <1>1
    <3> QED BY <1>1, <1>2, <2>3, <3>1, <3>2
  <2> QED BY <2>1, <2>2, <2>3
<1>4. ASSUME NEW Z, NEW V, From(Z, G, V) PROVE From(Z, H, V)
  <2> SUFFICES ASSUME NEW n \in DOMAIN Z
               PROVE  Z[n].term \in 0 .. V /\ Agrees(Z, H[Z[n].term], n)
    BY DEF From
  <2>1. Z[n].term \in 0 .. V /\ Agrees(Z, G[Z[n].term], n) /\ Z[n].term \in Nat
    BY <1>4 DEF From
  <2>2. ASSUME NEW k \in 0 .. n PROVE k \in DOMAIN G[Z[n].term] /\ Z[k] = G[Z[n].term][k]
    <3>1. n \in DOMAIN G[Z[n].term] /\ IsFull(G[Z[n].term])
      BY <1>0, <2>1 DEF Agrees
    <3> QED BY <2>1, <3>1, FullBelow DEF Agrees
  <2>3. \A k \in 0 .. n : Z[k] = H[Z[n].term][k]
    BY <1>3, <2>1, <2>2 DEF LogsGrow
  <2> QED BY <1>3, <2>1, <2>3 DEF Agrees, LogsGrow
<1>5. From(Y, H, U)
  <2> SUFFICES ASSUME NEW n \in DOMAIN Y
               PROVE  Y[n].term \in 0 .. U /\ Agrees(Y, H[Y[n].term], n)
    BY DEF From
  <2>1. CASE n = b + 1
    <3>1. Y[n].term = U /\ H[Y[n].term] = Y
      BY <1>0, <1>1, <1>2, <2>1
    <3> QED BY <1>0, <3>1 DEF Agrees
  <2>2. CASE n # b + 1
    <3>1. n \in 0 .. b /\ n \in DOMAIN X
      BY <1>1, <2>2
    <3>2. Y[n] = X[n] /\ X[n].term \in 0 .. U
      BY <1>1, <1>2, <3>1 DEF From
    <3>3. Agrees(X, H[X[n].term], n)
      BY <1>2, <1>4, <3>1 DEF From
    <3>4. \A k \in 0 .. n : Y[k] = X[k]
      BY <1>1, <3>1
    <3> QED BY <3>2, <3>3, <3>4 DEF Agrees
  <2> QED BY <2>1, <2>2
<1>6. \A t \in Nat : IsFull(H[t]) /\ From(H[t], H, t)
  BY <1>0, <1>1, <1>4, <1>5
<1>7. \A j \in Server : T[j] \in Nat /\ IsFull(M[j]) /\ From(M[j], H, T[j])
  <2> SUFFICES ASSUME NEW j \in Server PROVE IsFull(M[j]) /\ From(M[j], H, T[j])
    BY <1>0
  <2>1. CASE j = i
    BY <1>0, <1>1, <1>5, <2>1 DEF U
  <2>2. CASE j # i
    <3>1. IsFull(L[j]) /\ From(L[j], G, T[j])
      BY DEF Core
    <3> QED BY <1>0, <1>4, <2>2, <3>1
  <2> QED BY <2>1, <2>2
<1>8. AcksOK(H, K, T, M)
  <2> SUFFICES ASSUME NEW j \in Server, NEW k \in Nat, NEW t \in Nat, <<j, k, t>> \in K
               PROVE  /\ t <= T[j] /\ k \in DOMAIN H[t]
                      /\ t = T[j] => Agrees(M[j], H[t], k)
    BY DEF AcksOK
  <2>1. t <= T[j] /\ k \in DOMAIN G[t] /\ (t = T[j] => Agrees(L[j], G[t], k))
    BY <1>0 DEF AcksOK
  <2>2. k \in DOMAIN H[t]
    BY <1>3, <2>1 DEF LogsGrow
  <2>3. ASSUME t = T[j], j = i PROVE Agrees(M[j], H[t], k)
    BY <1>0, <2>2, <2>3 DEF Agrees, U
  <2>4. ASSUME t = T[j], j # i PROVE Agrees(M[j], H[t], k)
    <3>1. Agrees(L[j], G[t], k) /\ M[j] = L[j]
      BY <1>0, <2>1, <2>4
    <3>2. 0 .. k \subseteq DOMAIN G[t]
      BY <1>0, <2>1, FullBelow
    <3>3. \A n \in 0 .. k : G[t][n] = H[t][n]
      BY <1>3, <3>2 DEF LogsGrow
    <3> QED BY <2>2, <3>1, <3>3 DEF Agrees
  <2> QED BY <2>1, <2>2, <2>3, <2>4
<1>9. MoreAcks(K, K, T)
  BY MoreAcksRefl
<1>10. ASSUME NEW j \in Server PROVE Cover(H, K, j, T[j] + 1, M[j])
  <2> SUFFICES ASSUME NEW t \in Nat, NEW n \in Nat, t < T[j] + 1, Acked(K, j, n, t),
                      Has(H[t], n, t), Carried(H, n, t, T[j] + 1)
               PROVE  Has(M[j], n, t)
    BY DEF Cover
  <2>1. PICK k \in Nat : k >= n /\ <<j, k, t>> \in K
    BY DEF Acked
  <2>2. n \in DOMAIN G[t]
    <3>1. k \in DOMAIN G[t] /\ n \in 0 .. k
      BY <1>0, <2>1 DEF AcksOK
    <3> QED BY <1>0, <3>1, FullBelow
  <2>3. Has(G[t], n, t) /\ Carried(G, n, t, T[j] + 1)
    BY <1>3, <2>2, GrowthCarries DEF Has, LogsGrow
  <2>4. Has(L[j], n, t)
    BY <2>3 DEF Core, Cover
  <2>5. CASE j # i
    BY <1>0, <2>4, <2>5
  <2>6. CASE j = i
    <3>1. n \in DOMAIN X /\ X[n].term = t
      BY <2>4, <2>6 DEF Has, X
    <3>2. n \in DOMAIN Y /\ Y[n] = X[n]
      BY <1>1, <3>1
    <3> QED BY <1>0, <2>6, <3>1, <3>2 DEF Has
  <2> QED BY <2>5, <2>6
<1>11. ASSUME NEW V \in Nat, Led(H, V) PROVE Endorsed(H, K, T, V, H[V])
  <2>1. CASE V # U
    <3>1. Led(G, V) /\ H[V] = G[V]
      BY <1>0, <1>11, <2>1 DEF Led
    <3>2. Endorsed(G, K, T, V, G[V])
      BY <3>1 DEF Core
    <3>3. Endorsed(H, K, T, V, G[V])
      BY <1>0, <1>3, <1>9, <3>2, EndorsedKept
    <3> QED BY <3>1, <3>3
  <2>2. CASE V = U
    <3>1. Endorsed(H, K, T, U, X)
      BY <1>0, <1>2, <1>3, <1>9, EndorsedKept
    <3>2. ASSUME NEW j, Cover(H, K, j, U, X) PROVE Cover(H, K, j, U, Y)
      <4>1. \A n, t : Has(X, n, t) => Has(Y, n, t)
        BY <1>1 DEF Has
      <4> QED BY <3>2, <4>1 DEF Cover
    <3> QED BY <1>0, <2>2, <3>1, <3>2 DEF Endorsed
  <2> QED BY <2>1, <2>2
<1>12. Core(H, K, T, M)
  BY <1>6, <1>7, <1>8, <1>10, <1>11 DEF Core
<1> QED BY <1>3, <1>12 DEF H, M, Y, X, U

\* The up-to-date check: the voter's last term and index.
LEMMA VoteCovers ==
  ASSUME NEW G, NEW K, NEW T, NEW L, Core(G, K, T, L),
         NEW j \in Server, NEW c \in Server, T[c] = T[j], ~Led(G, T[j]),
         NEW a \in Index, NEW b \in Index, L[j] \in [0 .. a -> Entry], L[c] \in [0 .. b -> Entry],
         a >= 0 => /\ b >= 0
                   /\ \/ L[c][b].term > L[j][a].term
                      \/ L[c][b].term = L[j][a].term /\ b >= a
  PROVE  Cover(G, K, j, T[j], L[c])
<1> DEFINE X == L[c]
           Y == L[j]
           U == T[j]
<1>0. /\ \A t \in Nat : IsFull(G[t]) /\ From(G[t], G, t)
      /\ IsFull(X) /\ IsFull(Y) /\ From(X, G, U) /\ From(Y, G, U)
      /\ Cover(G, K, j, U + 1, Y) /\ U \in Nat
  BY DEF Core
<1> SUFFICES ASSUME NEW t \in Nat, NEW n \in Nat, t < U, Acked(K, j, n, t),
                    Has(G[t], n, t), Carried(G, n, t, U)
             PROVE  Has(X, n, t)
  BY DEF Cover
<1>1. Carried(G, n, t, U + 1)
  <2>1. \A u \in Nat : (t < u /\ u < U + 1 /\ Led(G, u)) => u < U
    BY <1>0
  <2> QED BY <2>1 DEF Carried
<1>2. Has(Y, n, t)
  BY <1>0, <1>1 DEF Cover
<1>3. a \in Nat /\ n \in 0 .. a /\ a \in DOMAIN Y /\ b \in Nat /\ b \in DOMAIN X
  BY <1>2 DEF Has, Index
<1> DEFINE lt == X[b].term
           st == Y[a].term
<1>4. lt \in Nat /\ st \in Nat /\ t <= st /\ lt >= st
  <2>1. lt \in Nat /\ st \in Nat
    BY <1>0, <1>3, FullBelow
  <2>2. Y[n].term = t /\ Y[n].term <= st
    BY <1>0, <1>2, <1>3, TermsGrow DEF Has
  <2> QED BY <1>3, <2>1, <2>2
<1>5. Agrees(X, G[lt], b) /\ lt <= U /\ b \in DOMAIN G[lt]
  BY <1>0, <1>3, <1>4 DEF From, Agrees
<1>6. ASSUME Has(G[lt], n, t), n <= b PROVE Has(X, n, t)
  <2>1. Agrees(X, G[lt], n)
    BY <1>0, <1>3, <1>4, <1>5, <1>6, AgreesUp
  <2> QED BY <1>6, <2>1 DEF Agrees, Has
<1>7. CASE lt = t
  BY <1>3, <1>4, <1>6, <1>7
<1>8. CASE lt > t
  <2>1. Led(G, lt) /\ lt < U
    <3>1. Led(G, lt)
      BY <1>5 DEF Led
    <3>2. lt # U
      BY <3>1
    <3> QED BY <1>0, <1>4, <1>5, <3>1, <3>2
  <2>2. Has(G[lt], n, t)
    BY <1>4, <1>8, <2>1 DEF Carried
  <2>3. ASSUME b < n PROVE FALSE
    <3>1. b \in 0 .. n /\ n \in DOMAIN G[lt] /\ G[lt][n].term = t
      BY <1>3, <2>2, <2>3 DEF Has
    <3>2. G[lt][b].term <= t
      BY <1>0, <1>4, <3>1, TermsGrow
    <3>3. G[lt][b] = X[b]
      BY <1>3, <1>5 DEF Agrees
    <3> QED BY <1>4, <1>8, <3>2, <3>3
  <2> QED BY <1>3, <1>6, <2>2, <2>3
<1> QED BY <1>4, <1>7, <1>8

-----------------------------------------------------------------------------
(***************************************************************************)
(* What is committed.                                                      *)
(***************************************************************************)

\* The log X is chosen up to index c, in terms up to U.
Fixed(G, K, X, c, U) ==
  \E n, t \in Nat : c <= n /\ t <= U /\ Chosen(G, K, n, t) /\ Agrees(X, G[t], c)

\* An index and its entry are chosen.
Settled(G, K, d) ==
  \E t \in Nat : Fixed(G, K, G[t], d[1], t) /\ d[2] = G[t][d[1]]

\* A log that is chosen up to c agrees up to c with every later leader's, whose
\* own entries all come after c.
LEMMA FixedIsLeaders ==
  ASSUME NEW G, NEW K, NEW T, NEW L, Core(G, K, T, L),
         NEW X, IsFull(X), NEW c \in Nat, NEW U \in Nat, Fixed(G, K, X, c, U),
         NEW V \in Nat, U <= V, Led(G, V)
  PROVE  /\ Agrees(X, G[V], c)
         /\ \A k \in Nat : (U < V /\ Has(G[V], k, V)) => c < k
<1>1. PICK n \in Nat, t \in Nat : c <= n /\ t <= U /\ Chosen(G, K, n, t) /\ Agrees(X, G[t], c)
  BY DEF Fixed
<1>2. \A s \in Nat : IsFull(G[s]) /\ From(G[s], G, s)
  BY DEF Core
<1>3. Has(G[V], n, t)
  <2>1. CASE t = V
    BY <1>1, <2>1 DEF Chosen
  <2>2. CASE t # V
    BY <1>1, <2>2, LeadersHaveChosen
  <2> QED BY <2>1, <2>2
<1>4. Agrees(X, G[V], c)
  <2>1. Has(G[t], n, t)
    BY <1>1 DEF Chosen
  <2>2. Agrees(G[t], G[V], n)
    BY <1>2, <1>3, <2>1, SameTermAgrees
  <2>3. Agrees(G[t], G[V], c)
    BY <1>1, <1>2, <2>2, AgreesUp
  <2> QED BY <1>1, <2>3, AgreesTrans
<1>5. ASSUME NEW k \in Nat, U < V, Has(G[V], k, V) PROVE c < k
  <2> SUFFICES ASSUME k <= c PROVE FALSE
    OBVIOUS
  <2>1. n \in DOMAIN G[V] /\ k \in 0 .. n
    BY <1>1, <1>3 DEF Has
  <2>2. G[V][k].term <= G[V][n].term
    BY <1>2, <2>1, TermsGrow
  <2>3. V <= t
    BY <1>3, <1>5, <2>2 DEF Has
  <2> QED BY <1>1, <1>5, <2>3
<1> QED BY <1>4, <1>5

\* Two chosen entries have the same entries below them.
LEMMA FixedAgreeAux ==
  ASSUME NEW G, NEW K, NEW T, NEW L, Core(G, K, T, L),
         NEW n \in Nat, NEW t \in Nat, Chosen(G, K, n, t),
         NEW l \in Nat, NEW u \in Nat, Chosen(G, K, l, u),
         NEW m \in Nat, m <= n, m <= l, t <= u
  PROVE  m \in DOMAIN G[t] /\ m \in DOMAIN G[u] /\ G[t][m] = G[u][m]
<1>1. \A s \in Nat : IsFull(G[s]) /\ From(G[s], G, s)
  BY DEF Core
<1>2. Has(G[t], n, t) /\ Has(G[u], l, u)
  BY DEF Chosen
<1>3. CASE t = u
  <2>1. m \in 0 .. n /\ n \in DOMAIN G[t]
    BY <1>2 DEF Has
  <2>2. m \in DOMAIN G[t]
    BY <1>1, <2>1, FullBelow
  <2> QED BY <1>3, <2>2
<1>4. CASE t < u
  <2>1. Led(G, u)
    BY <1>2 DEF Led, Has
  <2>2. Has(G[u], n, t)
    BY <1>4, <2>1, LeadersHaveChosen
  <2>3. Agrees(G[t], G[u], n)
    BY <1>1, <1>2, <2>2, SameTermAgrees
  <2>4. Agrees(G[t], G[u], m)
    BY <1>1, <2>3, AgreesUp
  <2> QED BY <2>4 DEF Agrees
<1> QED BY <1>3, <1>4

\* Two logs that are chosen up to some index are the same up to it.
LEMMA FixedAgree ==
  ASSUME NEW G, NEW K, NEW T, NEW L, Core(G, K, T, L),
         NEW X, NEW c \in Nat, NEW U, Fixed(G, K, X, c, U),
         NEW Y, NEW d \in Nat, NEW V, Fixed(G, K, Y, d, V),
         NEW m \in Nat, m <= c, m <= d
  PROVE  X[m] = Y[m]
<1>1. PICK n \in Nat, t \in Nat : c <= n /\ Chosen(G, K, n, t) /\ Agrees(X, G[t], c)
  BY DEF Fixed
<1>2. PICK l \in Nat, u \in Nat : d <= l /\ Chosen(G, K, l, u) /\ Agrees(Y, G[u], d)
  BY DEF Fixed
<1>3. G[t][m] = G[u][m]
  <2>1. m <= n /\ m <= l
    BY <1>1, <1>2
  <2>2. CASE t <= u
    BY <1>1, <1>2, <2>1, <2>2, FixedAgreeAux
  <2>3. CASE u <= t
    BY <1>1, <1>2, <2>1, <2>3, FixedAgreeAux
  <2> QED BY <2>2, <2>3
<1>4. X[m] = G[t][m] /\ Y[m] = G[u][m]
  BY <1>1, <1>2 DEF Agrees
<1> QED BY <1>3, <1>4

\* What is chosen stays chosen.
LEMMA ChosenKept ==
  ASSUME NEW G, NEW K, NEW H, LogsGrow(G, H), NEW J, K \subseteq J,
         NEW n, NEW t \in Nat, Chosen(G, K, n, t)
  PROVE  Chosen(H, J, n, t)
<1>1. Has(H[t], n, t)
  BY DEF Chosen, Has, LogsGrow
<1>2. \A j : Acked(K, j, n, t) => Acked(J, j, n, t)
  BY DEF Acked
<1> QED BY <1>1, <1>2 DEF Chosen

\* A log that agrees with a leader's agrees with the leader's longer one.
LEMMA AgreesGrown ==
  ASSUME NEW G, NEW H, LogsGrow(G, H), NEW t \in Nat, IsFull(G[t]), NEW X, NEW c, Agrees(X, G[t], c)
  PROVE  Agrees(X, H[t], c)
<1>1. 0 .. c \subseteq DOMAIN G[t] /\ c \in DOMAIN G[t]
  BY FullBelow DEF Agrees
<1>2. \A n \in 0 .. c : n \in DOMAIN H[t] /\ H[t][n] = G[t][n]
  BY <1>1 DEF LogsGrow
<1> QED BY <1>1, <1>2 DEF Agrees, LogsGrow

\* What is fixed stays fixed, in later terms and in logs that agree with it.
LEMMA FixedKept ==
  ASSUME NEW G, NEW K, NEW H, LogsGrow(G, H), NEW J, K \subseteq J, \A t \in Nat : IsFull(G[t]),
         NEW X, NEW c \in Nat, NEW U \in Nat, Fixed(G, K, X, c, U),
         NEW V \in Nat, U <= V, NEW Y, Agrees(Y, X, c)
  PROVE  Fixed(H, J, Y, c, V)
<1>1. PICK n \in Nat, t \in Nat : c <= n /\ t <= U /\ Chosen(G, K, n, t) /\ Agrees(X, G[t], c)
  BY DEF Fixed
<1>2. Chosen(H, J, n, t) /\ t <= V
  BY <1>1, ChosenKept
<1>3. Agrees(Y, H[t], c)
  BY <1>1, AgreesTrans, AgreesGrown
<1> QED BY <1>1, <1>2, <1>3 DEF Fixed

\* Up to a lower index, too.
LEMMA FixedBelow ==
  ASSUME NEW G, NEW K, \A t \in Nat : IsFull(G[t]),
         NEW X, IsFull(X), NEW c \in Nat, NEW U \in Nat, Fixed(G, K, X, c, U),
         NEW m \in 0 .. c
  PROVE  Fixed(G, K, X, m, U) /\ m \in DOMAIN X /\ Settled(G, K, <<m, X[m]>>)
<1>1. PICK n \in Nat, t \in Nat : c <= n /\ t <= U /\ Chosen(G, K, n, t) /\ Agrees(X, G[t], c)
  BY DEF Fixed
<1>2. Agrees(X, G[t], m) /\ X[m] = G[t][m]
  BY <1>1, AgreesUp
<1>3. m <= n /\ m \in Nat /\ t <= t
  BY <1>1
<1>4. Agrees(G[t], G[t], m)
  BY <1>2 DEF Agrees
<1>5. Fixed(G, K, X, m, U) /\ Fixed(G, K, G[t], m, t)
  BY <1>1, <1>2, <1>3, <1>4 DEF Fixed
<1> QED BY <1>2, <1>5 DEF Settled, Agrees

\* What is settled stays settled.
LEMMA SettledKept ==
  ASSUME NEW G, NEW K, NEW H, LogsGrow(G, H), NEW J, K \subseteq J, \A t \in Nat : IsFull(G[t]),
         NEW d, d[1] \in Nat, Settled(G, K, d)
  PROVE  Settled(H, J, d)
<1>1. PICK t \in Nat : Fixed(G, K, G[t], d[1], t) /\ d[2] = G[t][d[1]]
  BY DEF Settled
<1>2. Agrees(G[t], G[t], d[1])
  BY <1>1 DEF Fixed, Agrees
<1>3. Agrees(H[t], G[t], d[1]) /\ H[t][d[1]] = d[2]
  BY <1>1, <1>2, AgreesGrown, AgreesSym DEF Agrees
<1>4. Fixed(H, J, H[t], d[1], t)
  BY <1>1, <1>3, FixedKept
<1> QED BY <1>3, <1>4 DEF Settled

\* A log that is chosen up to c has what is settled up to c.
LEMMA FixedHasSettled ==
  ASSUME NEW G, NEW K, NEW T, NEW L, Core(G, K, T, L),
         NEW X, NEW c \in Nat, NEW U, Fixed(G, K, X, c, U),
         NEW d, d[1] \in Nat, d[1] <= c, Settled(G, K, d)
  PROVE  X[d[1]] = d[2]
<1>1. PICK t \in Nat : Fixed(G, K, G[t], d[1], t) /\ d[2] = G[t][d[1]]
  BY DEF Settled
<1>2. X[d[1]] = G[t][d[1]]
  BY <1>1, FixedAgree
<1> QED BY <1>1, <1>2

\* Nothing else is settled at the same index.
LEMMA SettledOnce ==
  ASSUME NEW G, NEW K, NEW T, NEW L, Core(G, K, T, L),
         NEW a, a[1] \in Nat, Settled(G, K, a), NEW b, b[1] = a[1], Settled(G, K, b)
  PROVE  a[2] = b[2]
<1>1. PICK t \in Nat : Fixed(G, K, G[t], a[1], t) /\ a[2] = G[t][a[1]]
  BY DEF Settled
<1>2. G[t][b[1]] = b[2]
  BY <1>1, FixedHasSettled
<1> QED BY <1>1, <1>2

\* Whatever is settled is in the log of a leader nobody is ahead of, and a
\* majority has it.
LEMMA SettledOnQuorum ==
  ASSUME NEW G, NEW K, NEW T, NEW L, Core(G, K, T, L),
         NEW d, d[1] \in Nat, Settled(G, K, d)
  PROVE  \E Q \in SUBSET Server :
           IsQuorum(Q) /\ \A j \in Q : d[1] \in DOMAIN L[j] /\ L[j][d[1]] = d[2]
<1>1. PICK s \in Nat : Fixed(G, K, G[s], d[1], s) /\ d[2] = G[s][d[1]]
  BY DEF Settled
<1>2. PICK n \in Nat, t \in Nat :
        d[1] <= n /\ t <= s /\ Chosen(G, K, n, t) /\ Agrees(G[s], G[t], d[1])
  BY <1>1 DEF Fixed
<1>3. PICK Q \in SUBSET Server : IsQuorum(Q) /\ \A j \in Q : Acked(K, j, n, t)
  BY <1>2 DEF Chosen
<1>4. ASSUME NEW j \in Q PROVE d[1] \in DOMAIN L[j] /\ L[j][d[1]] = d[2]
  <2>1. j \in Server /\ Acked(K, j, n, t) /\ Has(G[t], n, t)
    BY <1>2, <1>3 DEF Chosen
  <2>2. Carried(G, n, t, T[j] + 1)
    BY <1>2, LeadersHaveChosen DEF Carried
  <2>3. t < T[j] + 1
    BY <2>1 DEF Core, AcksOK, Acked
  <2>4. Has(L[j], n, t)
    BY <2>1, <2>2, <2>3 DEF Core, Cover
  <2>5. Agrees(L[j], G[t], n) /\ IsFull(L[j]) /\ IsFull(G[t])
    BY <2>1, <2>4, SameTermAgrees DEF Core
  <2>6. Agrees(L[j], G[t], d[1])
    BY <1>2, <2>5, AgreesUp
  <2> QED BY <1>1, <1>2, <2>6 DEF Agrees
<1> QED BY <1>3, <1>4

-----------------------------------------------------------------------------
(***************************************************************************)
(* The log a store shows, and what the writes of Persistence do to it.     *)
(***************************************************************************)

\* The store p shows the log X, whose last index is b: its rows are the end
\* of X, without holes and from the snapshot on at the latest, and its snapshot
\* is the beginning of X.
Shows(p, b, X) ==
  /\ b \in Index /\ X \in [0 .. b -> Entry]
  /\ p.lastSnapshotIndex <= b
  /\ \E f \in 0 .. p.lastSnapshotIndex + 1 : Rows(p) = f .. b
  /\ \A n \in Rows(p) : p.log[n] = X[n]
  /\ \A n \in 0 .. p.lastSnapshotIndex : p.snapshot[n + 1] = X[n]
  /\ p.lastSnapshotIndex = -1 => p.lastSnapshotTerm = -1
  /\ p.lastSnapshotIndex >= 0 => p.lastSnapshotTerm = X[p.lastSnapshotIndex].term

\* The log of a store: the snapshot's entries and the rows after them.
StoreLog(p) == [n \in 0 .. lastIndex(p) |-> EntryAt(p, n)]

\* The beginning of Y.
Upto(Y, k) == [n \in 0 .. k |-> Y[n]]

\* The largest and the smallest index of an interval of rows.
LEMMA RangeMax ==
  ASSUME NEW f \in Int, NEW b \in Int, f <= b
  PROVE  Max(f .. b) = b /\ Min(f .. b) = f
<1>1. Max(f .. b) \in f .. b /\ \A y \in f .. b : Max(f .. b) >= y
  <2>1. \E x \in f .. b : \A y \in f .. b : x >= y
    BY b \in f .. b
  <2> QED BY <2>1 DEF Max
<1>2. Min(f .. b) \in f .. b /\ \A y \in f .. b : Min(f .. b) <= y
  <2>1. \E x \in f .. b : \A y \in f .. b : x <= y
    BY f \in f .. b
  <2> QED BY <2>1 DEF Min
<1>3. b \in f .. b /\ f \in f .. b
  OBVIOUS
<1> QED BY <1>1, <1>2, <1>3

\* The bounds of a log that a store shows.
LEMMA ShowsBounds ==
  ASSUME NEW p, IsStore(p), NEW b, NEW X, Shows(p, b, X)
  PROVE  /\ b \in Int /\ b >= -1 /\ p.lastSnapshotIndex \in Int /\ p.lastSnapshotIndex >= -1
         /\ p.lastSnapshotIndex <= b
         /\ DOMAIN X = 0 .. b /\ IsFull(X)
<1>1. b \in Index /\ X \in [0 .. b -> Entry] /\ p.lastSnapshotIndex \in Index
  BY DEF Shows, IsStore, IsSnapshot
<1>2. b \in Int /\ b >= -1 /\ p.lastSnapshotIndex \in Int /\ p.lastSnapshotIndex >= -1
  BY <1>1 DEF Index
<1>3. DOMAIN X = 0 .. b /\ IsFull(X)
  BY <1>1 DEF IsFull
<1> QED BY <1>2, <1>3 DEF Shows

\* The log of a store, its last index and term, and its first row.
LEMMA ShownLog ==
  ASSUME NEW p, IsStore(p), NEW b, NEW X, Shows(p, b, X)
  PROVE  /\ lastIndex(p) = b /\ StoreLog(p) = X
         /\ lastTerm(p) = IF b = -1 THEN -1 ELSE X[b].term
         /\ Rows(p) = firstIndex(p) .. b
         /\ firstIndex(p) \in 0 .. p.lastSnapshotIndex + 1
<1>0. /\ b \in Int /\ b >= -1 /\ p.lastSnapshotIndex \in Int /\ p.lastSnapshotIndex >= -1
      /\ p.lastSnapshotIndex <= b /\ DOMAIN X = 0 .. b
  BY ShowsBounds
<1>1. PICK f \in 0 .. p.lastSnapshotIndex + 1 : Rows(p) = f .. b
  BY DEF Shows
<1>4. /\ lastIndex(p) = b /\ Rows(p) = firstIndex(p) .. b
      /\ firstIndex(p) \in 0 .. p.lastSnapshotIndex + 1
      /\ lastTerm(p) = IF b = -1 THEN -1 ELSE X[b].term
  <2>2. CASE f <= b
    <3>1. Rows(p) # {}
      BY <1>0, <1>1, <2>2
    <3>2. Max(Rows(p)) = b /\ Min(Rows(p)) = f
      BY <1>0, <1>1, <2>2, RangeMax
    <3>3. lastIndex(p) = b /\ firstIndex(p) = f
      BY <3>1, <3>2 DEF lastIndex, firstIndex
    <3>4. b \in Rows(p)
      BY <1>0, <1>1, <2>2
    <3>5. lastTerm(p) = X[b].term /\ b # -1
      BY <1>1, <2>2, <3>1, <3>2, <3>4 DEF lastTerm, Shows
    <3> QED BY <1>0, <1>1, <3>3, <3>5
  <2>3. CASE f > b
    <3>1. Rows(p) = {} /\ f = p.lastSnapshotIndex + 1 /\ b = p.lastSnapshotIndex
      BY <1>0, <1>1, <2>3
    <3>2. lastIndex(p) = b /\ firstIndex(p) = f /\ lastTerm(p) = p.lastSnapshotTerm
      BY <3>1 DEF lastIndex, firstIndex, lastTerm
    <3>3. lastTerm(p) = IF b = -1 THEN -1 ELSE X[b].term
      BY <1>0, <3>1, <3>2 DEF Shows
    <3> QED BY <1>1, <3>2, <3>3
  <2> QED BY <1>0, <1>1, <2>2, <2>3
<1>5. StoreLog(p) = X
  <2>1. ASSUME NEW n \in 0 .. b PROVE EntryAt(p, n) = X[n]
    <3>1. CASE n \in Rows(p)
      BY <3>1 DEF EntryAt, Shows
    <3>2. CASE n \notin Rows(p)
      <4>1. n \in 0 .. p.lastSnapshotIndex
        BY <1>0, <1>1, <3>2
      <4> QED BY <3>2, <4>1 DEF EntryAt, Shows
    <3> QED BY <3>1, <3>2
  <2>2. X = [n \in 0 .. b |-> X[n]]
    BY <1>0 DEF Shows
  <2>3. StoreLog(p) = [n \in 0 .. b |-> EntryAt(p, n)]
    BY <1>4 DEF StoreLog
  <2> QED BY <2>1, <2>2, <2>3
<1> QED BY <1>4, <1>5

\* What the store knows of an index is what the log has.
LEMMA ShownEntries ==
  ASSUME NEW p, IsStore(p), NEW b, NEW X, Shows(p, b, X), NEW n \in 0 .. b
  PROVE  Knows(p, n) /\ EntryAt(p, n) = X[n] /\ n \in DOMAIN X
<1>1. /\ lastIndex(p) = b /\ StoreLog(p) = X
      /\ Rows(p) = firstIndex(p) .. b /\ firstIndex(p) \in 0 .. p.lastSnapshotIndex + 1
  BY ShownLog
<1>2. /\ b \in Int /\ b >= -1 /\ p.lastSnapshotIndex \in Int /\ p.lastSnapshotIndex >= -1
      /\ p.lastSnapshotIndex <= b /\ DOMAIN X = 0 .. b
  BY ShowsBounds
<1>3. n \in Rows(p) \/ n \in 0 .. p.lastSnapshotIndex
  BY <1>1, <1>2
<1> QED BY <1>1, <1>2, <1>3 DEF Knows, StoreLog

\* The term, the vote and the fields that are not shown.
LEMMA SaveTermShows ==
  ASSUME NEW p, NEW b, NEW X, Shows(p, b, X), NEW q,
         q.log = p.log, q.lastSnapshotIndex = p.lastSnapshotIndex,
         q.lastSnapshotTerm = p.lastSnapshotTerm, q.snapshot = p.snapshot
  PROVE  Shows(q, b, X)
BY DEF Shows, Rows

\* The beginning of a log is a log.
LEMMA UptoIsLog ==
  ASSUME NEW k \in Index, NEW Y, \A n \in 0 .. k : Y[n] \in Entry
  PROVE  Upto(Y, k) \in [0 .. k -> Entry] /\ \A n \in 0 .. k : Upto(Y, k)[n] = Y[n]
BY DEF Upto

\* _appendLocal.
LEMMA AppendLocalShows ==
  ASSUME NEW p, IsStore(p), NEW b, NEW X, Shows(p, b, X),
         NEW t \in Nat, NEW op \in Stroke \cup {Noop}
  PROVE  Shows(appendLocal(p, t, op), b + 1, Longer(X, b, [term |-> t, op |-> op]))
<1> DEFINE e == [term |-> t, op |-> op]
           q == appendLocal(p, t, op)
           Y == Longer(X, b, e)
<1>1. /\ lastIndex(p) = b /\ Rows(p) = firstIndex(p) .. b
      /\ firstIndex(p) \in 0 .. p.lastSnapshotIndex + 1
  BY ShownLog
<1>2. /\ b \in Int /\ b >= -1 /\ p.lastSnapshotIndex \in Int /\ p.lastSnapshotIndex >= -1
      /\ p.lastSnapshotIndex <= b
  BY ShowsBounds
<1>3. e \in Entry /\ X \in [0 .. b -> Entry] /\ b \in Index
  BY DEF Entry, Shows
<1>4. /\ Rows(q) = Rows(p) \cup {b + 1}
      /\ \A n \in Rows(p) : q.log[n] = p.log[n]
      /\ q.log[b + 1] = e
      /\ q.snapshot = p.snapshot
  BY <1>1, AppendLocalGrows DEF Grown
<1>5. q.lastSnapshotIndex = p.lastSnapshotIndex /\ q.lastSnapshotTerm = p.lastSnapshotTerm
  BY DEF appendLocal, appendEntries
<1>6. /\ b + 1 \in Nat /\ Y[b + 1] = e /\ DOMAIN Y = 0 .. b + 1
      /\ \A n \in 0 .. b : Y[n] = X[n]
  BY <1>3, LongerIsFull
<1>7. Y \in [0 .. b + 1 -> Entry] /\ b + 1 \in Index
  <2>1. \A n \in 0 .. b + 1 : n \in 0 .. b \/ n = b + 1
    BY <1>2
  <2>2. \A n \in 0 .. b + 1 : Y[n] \in Entry
    BY <1>3, <1>6, <2>1
  <2> QED BY <1>6, <2>2 DEF Index, Longer
<1> HIDE DEF e, q, Y
<1>8. Rows(q) = firstIndex(p) .. b + 1
  BY <1>1, <1>2, <1>4
<1>9. \A n \in Rows(q) : q.log[n] = Y[n]
  <2>1. \A n \in Rows(p) : n \in 0 .. b
    BY <1>1, <1>2
  <2> QED BY <1>4, <1>6, <2>1 DEF Shows
<1>10. \A n \in 0 .. p.lastSnapshotIndex : n \in 0 .. b
  BY <1>2
<1>11. p.lastSnapshotIndex >= 0 => p.lastSnapshotIndex \in 0 .. p.lastSnapshotIndex
  BY <1>2
<1>12. Shows(q, b + 1, Y)
  BY <1>1, <1>2, <1>4, <1>5, <1>6, <1>7, <1>8, <1>9, <1>10, <1>11 DEF Shows
<1> QED BY <1>12 DEF e, q, Y

\* _maybeSnapshot and a crash in it: the snapshot is of what the log has.
LEMMA SnapshotShows ==
  ASSUME NEW p, IsStore(p), NEW b, NEW X, Shows(p, b, X),
         NEW app \in Seq(Entry), Len(app) - 1 >= p.lastSnapshotIndex,
         \A n \in 1 .. Len(app) : app[n] = X[n - 1]
  PROVE  Shows(Snapshotted(p, app), b, X) /\ Shows(maybeSnapshot(p, app), b, X)
<1>1. CASE ~SnapshotDue(p, app)
  BY <1>1 DEF maybeSnapshot, Snapshotted
<1>2. CASE SnapshotDue(p, app)
  <2> DEFINE last == Len(app) - 1
             q == saveSnapshot(p, last, p.log[last].term, app)
             r == truncateUpTo(q, last)
  <2>1. /\ b \in Int /\ b >= -1 /\ p.lastSnapshotIndex \in Int /\ p.lastSnapshotIndex >= -1
        /\ p.lastSnapshotIndex <= b
    BY ShowsBounds
  <2>2. /\ Rows(p) = firstIndex(p) .. b
        /\ firstIndex(p) \in 0 .. p.lastSnapshotIndex + 1
    BY ShownLog
  <2>3. last \in Rows(p) /\ last \in Nat /\ last <= b /\ last >= p.lastSnapshotIndex
    <3>1. last \in Rows(p) /\ last \in Int /\ last >= p.lastSnapshotIndex
      BY <1>2 DEF SnapshotDue
    <3> QED BY <2>1, <2>2, <3>1
  <2>4. p.log[last].term = X[last].term
    BY <2>3 DEF Shows
  <2>5. /\ q.log = p.log /\ q.lastSnapshotIndex = last
        /\ q.lastSnapshotTerm = X[last].term /\ q.snapshot = app
    BY <2>4 DEF saveSnapshot, IsStore
  <2>6. /\ r.log = Select(q, {n \in Rows(q) : n > last}) /\ r.lastSnapshotIndex = last
        /\ r.lastSnapshotTerm = X[last].term /\ r.snapshot = app
    BY <2>5 DEF truncateUpTo, saveSnapshot, IsStore
  <2>7. Snapshotted(p, app) = q /\ maybeSnapshot(p, app) = r
    BY <1>2 DEF Snapshotted, maybeSnapshot
  <2> HIDE DEF q, r
  <2>8. \A n \in 0 .. last : app[n + 1] = X[n]
    <3>1. \A n \in 0 .. last : n + 1 \in 1 .. Len(app) /\ (n + 1) - 1 = n
      BY <2>3
    <3> QED BY <3>1
  <2> HIDE DEF last
  <2>9. Rows(q) = firstIndex(p) .. b /\ \A n \in Rows(q) : q.log[n] = X[n]
    BY <2>2, <2>5 DEF Rows, Shows
  <2>10. Rows(r) = last + 1 .. b /\ \A n \in Rows(r) : r.log[n] = X[n]
    <3>1. Rows(r) = {n \in Rows(q) : n > last} /\ \A n \in Rows(r) : r.log[n] = q.log[n]
      BY <2>6 DEF Select, Rows
    <3>2. {n \in Rows(q) : n > last} = last + 1 .. b
      BY <2>1, <2>2, <2>3, <2>9
    <3> QED BY <2>9, <3>1, <3>2
  <2>11. firstIndex(p) \in 0 .. last + 1 /\ last + 1 \in 0 .. last + 1 /\ last # -1
    BY <2>1, <2>2, <2>3
  <2>12. b \in Index /\ X \in [0 .. b -> Entry]
    BY DEF Shows
  <2>13. Shows(q, b, X)
    BY <2>3, <2>5, <2>8, <2>9, <2>11, <2>12 DEF Shows
  <2>14. Shows(r, b, X)
    BY <2>3, <2>6, <2>8, <2>10, <2>11, <2>12 DEF Shows
  <2> QED BY <2>7, <2>13, <2>14
<1> QED BY <1>1, <1>2

\* truncateFrom above the snapshot.
LEMMA TruncateShows ==
  ASSUME NEW p, IsStore(p), NEW b, NEW X, Shows(p, b, X),
         NEW w \in p.lastSnapshotIndex + 1 .. b + 1
  PROVE  Shows(truncateFrom(p, w), w - 1, Upto(X, w - 1))
<1> DEFINE q == truncateFrom(p, w)
           Y == Upto(X, w - 1)
<1>1. /\ b \in Int /\ b >= -1 /\ p.lastSnapshotIndex \in Int /\ p.lastSnapshotIndex >= -1
      /\ p.lastSnapshotIndex <= b /\ w \in Nat
      /\ p.lastSnapshotIndex < w /\ w <= b + 1
  BY ShowsBounds
<1>2. /\ Rows(p) = firstIndex(p) .. b
      /\ firstIndex(p) \in 0 .. p.lastSnapshotIndex + 1
  BY ShownLog
<1>3. w - 1 \in Index /\ \A n \in 0 .. w - 1 : n \in 0 .. b /\ X[n] \in Entry
  <2>1. w - 1 \in Index /\ \A n \in 0 .. w - 1 : n \in 0 .. b
    BY <1>1 DEF Index
  <2> QED BY <2>1 DEF Shows
<1>4. Y \in [0 .. w - 1 -> Entry] /\ \A n \in 0 .. w - 1 : Y[n] = X[n]
  BY <1>3, UptoIsLog
<1>5. /\ q.log = Select(p, {n \in Rows(p) : n < w}) /\ q.snapshot = p.snapshot
      /\ q.lastSnapshotIndex = p.lastSnapshotIndex /\ q.lastSnapshotTerm = p.lastSnapshotTerm
  BY DEF truncateFrom, IsStore
<1> HIDE DEF q, Y
<1>6. Rows(q) = firstIndex(p) .. w - 1 /\ \A n \in Rows(q) : q.log[n] = X[n]
  <2>1. Rows(q) = {n \in Rows(p) : n < w} /\ \A n \in Rows(q) : q.log[n] = p.log[n]
    BY <1>5 DEF Select, Rows
  <2>2. {n \in Rows(p) : n < w} = firstIndex(p) .. w - 1
    BY <1>1, <1>2
  <2>3. \A n \in Rows(q) : p.log[n] = X[n]
    BY <2>1 DEF Shows
  <2> QED BY <2>1, <2>2, <2>3
<1>7. \A n \in Rows(q) : n \in 0 .. w - 1
  BY <1>1, <1>2, <1>6
<1>8. \A n \in 0 .. p.lastSnapshotIndex : n \in 0 .. w - 1
  BY <1>1
<1>9. p.lastSnapshotIndex >= 0 => p.lastSnapshotIndex \in 0 .. w - 1
  BY <1>1
<1>10. p.lastSnapshotIndex <= w - 1
  BY <1>1
<1>11. Shows(q, w - 1, Y)
  BY <1>2, <1>3, <1>4, <1>5, <1>6, <1>7, <1>8, <1>9, <1>10 DEF Shows
<1> QED BY <1>11 DEF q, Y

\* truncateFrom and appendEntries of the entries of Y from w to k, above the
\* snapshot or not, when Y begins as X does.
LEMMA RewriteShows ==
  ASSUME NEW p, IsStore(p), NEW b, NEW X, Shows(p, b, X),
         NEW w \in 0 .. b + 1, NEW k \in Nat, w <= k, p.lastSnapshotIndex <= k,
         NEW Y, \A n \in 0 .. k : Y[n] \in Entry,
         \A n \in 0 .. w - 1 : Y[n] = X[n],
         \A n \in 0 .. p.lastSnapshotIndex : Y[n] = X[n],
         NEW e, DOMAIN e = w .. k, \A n \in w .. k : e[n] = Y[n]
  PROVE  Shows(appendEntries(truncateFrom(p, w), e), k, Upto(Y, k))
<1> DEFINE q == truncateFrom(p, w)
           r == appendEntries(q, e)
           Z == Upto(Y, k)
           f == firstIndex(p)
<1>1. /\ b \in Int /\ b >= -1 /\ p.lastSnapshotIndex \in Int /\ p.lastSnapshotIndex >= -1
      /\ p.lastSnapshotIndex <= b /\ w \in Nat /\ w <= b + 1 /\ k \in Index
  BY ShowsBounds DEF Index
<1>2. /\ Rows(p) = f .. b
      /\ f \in 0 .. p.lastSnapshotIndex + 1
  BY ShownLog
<1>3. Z \in [0 .. k -> Entry] /\ \A n \in 0 .. k : Z[n] = Y[n]
  BY <1>1, UptoIsLog
<1>4. /\ q.log = Select(p, {n \in Rows(p) : n < w}) /\ q.snapshot = p.snapshot
      /\ q.lastSnapshotIndex = p.lastSnapshotIndex /\ q.lastSnapshotTerm = p.lastSnapshotTerm
      /\ "log" \in DOMAIN q
  BY DEF truncateFrom, IsStore
<1> HIDE DEF q, Z, f
<1>5. /\ r.log = [n \in Rows(q) \cup DOMAIN e |-> IF n \in DOMAIN e THEN e[n] ELSE q.log[n]]
      /\ r.snapshot = p.snapshot
      /\ r.lastSnapshotIndex = p.lastSnapshotIndex /\ r.lastSnapshotTerm = p.lastSnapshotTerm
  BY <1>4 DEF appendEntries
<1> HIDE DEF r
<1>6. Rows(q) = {n \in Rows(p) : n < w} /\ \A n \in Rows(q) : q.log[n] = p.log[n]
  BY <1>4 DEF Select, Rows
<1>7. /\ Rows(r) = Rows(q) \cup (w .. k)
      /\ \A n \in w .. k : r.log[n] = Y[n]
      /\ \A n \in Rows(q) : n \notin w .. k => r.log[n] = p.log[n]
  BY <1>5, <1>6 DEF Rows
<1>8. \E g \in 0 .. p.lastSnapshotIndex + 1 : Rows(r) = g .. k
  <2>1. CASE f < w
    <3>1. Rows(q) = f .. w - 1
      BY <1>1, <1>2, <1>6, <2>1
    <3>2. Rows(r) = f .. k
      BY <1>1, <1>2, <1>7, <2>1, <3>1
    <3> QED BY <1>2, <3>2
  <2>2. CASE w <= f
    <3>1. Rows(q) = {}
      BY <1>1, <1>2, <1>6, <2>2
    <3>2. Rows(r) = w .. k /\ w \in 0 .. p.lastSnapshotIndex + 1
      BY <1>1, <1>2, <1>7, <2>2, <3>1
    <3> QED BY <3>2
  <2> QED BY <1>1, <1>2, <2>1, <2>2
<1>9. \A n \in Rows(r) : r.log[n] = Z[n]
  <2> SUFFICES ASSUME NEW n \in Rows(r) PROVE r.log[n] = Z[n]
    OBVIOUS
  <2>1. CASE n \in w .. k
    <3>1. n \in 0 .. k
      BY <1>1, <2>1
    <3> QED BY <1>3, <1>7, <2>1, <3>1
  <2>2. CASE n \notin w .. k
    <3>1. n \in Rows(q) /\ n \in Rows(p) /\ n < w
      BY <1>6, <1>7, <2>2
    <3>2. n \in 0 .. w - 1 /\ n \in 0 .. k
      BY <1>1, <1>2, <3>1
    <3>3. r.log[n] = p.log[n] /\ p.log[n] = X[n]
      BY <1>7, <2>2, <3>1 DEF Shows
    <3>4. Y[n] = X[n] /\ Z[n] = Y[n]
      BY <1>3, <3>2
    <3> QED BY <3>3, <3>4
  <2> QED BY <2>1, <2>2
<1>10. \A n \in 0 .. p.lastSnapshotIndex : n \in 0 .. k /\ p.snapshot[n + 1] = Z[n]
  <2>1. \A n \in 0 .. p.lastSnapshotIndex : n \in 0 .. k
    BY <1>1
  <2>2. \A n \in 0 .. p.lastSnapshotIndex : p.snapshot[n + 1] = X[n]
    BY DEF Shows
  <2> QED BY <1>3, <2>1, <2>2
<1>11. p.lastSnapshotIndex >= 0 => p.lastSnapshotTerm = Z[p.lastSnapshotIndex].term
  <2> SUFFICES ASSUME p.lastSnapshotIndex >= 0
               PROVE  p.lastSnapshotTerm = Z[p.lastSnapshotIndex].term
    OBVIOUS
  <2>1. p.lastSnapshotIndex \in 0 .. p.lastSnapshotIndex /\ p.lastSnapshotIndex \in 0 .. k
    BY <1>1
  <2>2. Z[p.lastSnapshotIndex] = X[p.lastSnapshotIndex]
    BY <1>3, <2>1
  <2> QED BY <2>2 DEF Shows
<1>12. p.lastSnapshotIndex = -1 => p.lastSnapshotTerm = -1
  BY DEF Shows
<1>13. Shows(r, k, Z)
  BY <1>1, <1>3, <1>5, <1>8, <1>9, <1>10, <1>11, <1>12 DEF Shows
<1> QED BY <1>13 DEF r, Z, q

\* handleInstallSnapshot: the log below the snapshot is kept when it has the
\* snapshot's last entry, else the snapshot takes the place of the log.
LEMMA InstallShows ==
  ASSUME NEW p, IsStore(p), NEW b, NEW X, Shows(p, b, X),
         NEW m, m.lastIncludedIndex \in Nat, m.lastIncludedIndex > p.lastSnapshotIndex,
         NEW Y, \A n \in 0 .. m.lastIncludedIndex : Y[n] \in Entry /\ m.data[n + 1] = Y[n],
         m.lastIncludedTerm = Y[m.lastIncludedIndex].term,
         NEW q, q = saveSnapshot(Wiped(p, m), m.lastIncludedIndex, m.lastIncludedTerm, m.data)
  PROVE  \/ /\ m.lastIncludedIndex \in DOMAIN X
            /\ X[m.lastIncludedIndex].term = m.lastIncludedTerm
            /\ (\A n \in 0 .. m.lastIncludedIndex : X[n] = Y[n]) => Shows(q, b, X)
         \/ /\ ~ /\ m.lastIncludedIndex \in DOMAIN X
                 /\ X[m.lastIncludedIndex].term = m.lastIncludedTerm
            /\ Shows(q, m.lastIncludedIndex, Upto(Y, m.lastIncludedIndex))
<1> DEFINE c == m.lastIncludedIndex
<1>1. /\ b \in Int /\ b >= -1 /\ p.lastSnapshotIndex \in Int /\ p.lastSnapshotIndex >= -1
      /\ p.lastSnapshotIndex <= b /\ c \in Nat /\ c > p.lastSnapshotIndex /\ DOMAIN X = 0 .. b
  BY ShowsBounds
<1>2. /\ Rows(p) = firstIndex(p) .. b
      /\ firstIndex(p) \in 0 .. p.lastSnapshotIndex + 1
  BY ShownLog
<1>3. c \in DOMAIN X <=> c \in Rows(p)
  BY <1>1, <1>2
<1>4. c \in Rows(p) => p.log[c].term = X[c].term
  BY DEF Shows
<1>5. CASE c \in Rows(p) /\ p.log[c].term = m.lastIncludedTerm
  <2>1. Wiped(p, m) = truncateUpTo(p, c)
    BY <1>5 DEF Wiped
  <2>2. /\ q.log = Select(p, {n \in Rows(p) : n > c}) /\ q.lastSnapshotIndex = c
        /\ q.lastSnapshotTerm = m.lastIncludedTerm /\ q.snapshot = m.data
    BY <2>1 DEF truncateUpTo, saveSnapshot, IsStore
  <2>3. Rows(q) = {n \in Rows(p) : n > c} /\ \A n \in Rows(q) : q.log[n] = p.log[n]
    BY <2>2 DEF Select, Rows
  <2>4. {n \in Rows(p) : n > c} = c + 1 .. b /\ c <= b
    BY <1>1, <1>2, <1>5
  <2>5. \A n \in Rows(q) : q.log[n] = X[n]
    BY <2>3 DEF Shows
  <2>6. ASSUME \A n \in 0 .. c : X[n] = Y[n] PROVE Shows(q, b, X)
    <3>1. c + 1 \in 0 .. c + 1 /\ c # -1 /\ c \in 0 .. c
      BY <1>1
    <3>2. Rows(q) = c + 1 .. b
      BY <2>3, <2>4
    <3>3. m.lastIncludedTerm = X[c].term
      BY <1>4, <1>5
    <3>4. b \in Index /\ X \in [0 .. b -> Entry]
      BY DEF Shows
    <3> QED BY <2>2, <2>4, <2>5, <2>6, <3>1, <3>2, <3>3, <3>4 DEF Shows
  <2> QED BY <1>3, <1>4, <1>5, <2>6
<1>6. CASE ~(c \in Rows(p) /\ p.log[c].term = m.lastIncludedTerm)
  <2>1. Wiped(p, m) = truncateAll(p)
    BY <1>6 DEF Wiped
  <2>2. /\ q.log = Select(p, {}) /\ q.lastSnapshotIndex = c
        /\ q.lastSnapshotTerm = m.lastIncludedTerm /\ q.snapshot = m.data
    BY <2>1 DEF truncateAll, saveSnapshot, IsStore
  <2>3. Rows(q) = {}
    BY <2>2 DEF Select, Rows
  <2>4. Upto(Y, c) \in [0 .. c -> Entry] /\ \A n \in 0 .. c : Upto(Y, c)[n] = Y[n]
    BY <1>1, UptoIsLog DEF Index
  <2>5. c + 1 \in 0 .. c + 1 /\ c # -1 /\ c \in 0 .. c /\ c + 1 .. c = {} /\ c \in Index /\ c <= c
    BY <1>1 DEF Index
  <2> HIDE DEF c
  <2>6. Shows(q, c, Upto(Y, c))
    BY <2>2, <2>3, <2>4, <2>5 DEF Shows, c
  <2> QED BY <1>3, <1>4, <1>6, <2>6 DEF c
<1> QED BY <1>5, <1>6

\* _applyCommitted goes along the log, up to the commit index at most.
LEMMA AppliedGoesAlong ==
  ASSUME NEW p, IsStore(p), NEW b, NEW X, Shows(p, b, X),
         NEW app \in Seq(Entry), NEW commit \in Index, Len(app) - 1 <= commit,
         Len(app) - 1 >= p.lastSnapshotIndex,
         \A n \in 1 .. Len(app) : app[n] = X[n - 1],
         NEW h, h = applyCommitted(p, app, commit)
  PROVE  /\ h \in Seq(Entry) /\ Len(app) <= Len(h) /\ Len(h) - 1 <= commit
         /\ Len(h) - 1 >= p.lastSnapshotIndex
         /\ \A n \in 1 .. Len(h) : h[n] = X[n - 1]
<1> DEFINE reach == {n \in Len(app) .. commit : Len(app) .. n \subseteq Rows(p)}
           last == Max(reach \cup {Len(app) - 1})
           more == [k \in 1 .. last + 1 - Len(app) |-> p.log[Len(app) + k - 1]]
<1>0. h \in Seq(Entry)
  BY AppliedIsHistory
<1>1. Len(app) \in Nat /\ commit \in Int
  BY DEF Index
<1>2. last \in reach \cup {Len(app) - 1}
  <2>1. \A n \in reach \cup {Len(app) - 1} : n \in Int /\ n <= commit
    BY <1>1
  <2> HIDE DEF reach
  <2> QED BY <1>1, <2>1, MaxOfBounded
<1>3. /\ last \in Int /\ last >= Len(app) - 1 /\ last <= commit
      /\ \A n \in Len(app) .. last : n \in Rows(p)
  <2>1. CASE last \in reach
    <3> HIDE DEF last
    <3> QED BY <1>1, <2>1
  <2>2. CASE last = Len(app) - 1
    <3> HIDE DEF last, reach
    <3> QED BY <1>1, <2>2
  <2> QED BY <1>2, <2>1, <2>2
<1>4. h = app \o more
  BY DEF applyCommitted
<1> HIDE DEF last
<1>5. last + 1 - Len(app) \in Nat /\ \A k \in 1 .. last + 1 - Len(app) :
        Len(app) + k - 1 \in Rows(p) /\ p.log[Len(app) + k - 1] \in Entry
  <2>1. \A k \in 1 .. last + 1 - Len(app) : Len(app) + k - 1 \in Len(app) .. last
    BY <1>1, <1>3
  <2>2. \A n \in Rows(p) : p.log[n] \in Entry
    BY DEF IsStore, IsLog, Rows
  <2> QED BY <1>1, <1>3, <2>1, <2>2
<1>6. more \in Seq(Entry) /\ Len(more) = last + 1 - Len(app)
  <2> DEFINE z == last + 1 - Len(app)
  <2>1. z \in Nat /\ \A k \in 1 .. z : p.log[Len(app) + k - 1] \in Entry
    BY <1>5
  <2>2. more = [k \in 1 .. z |-> p.log[Len(app) + k - 1]]
    OBVIOUS
  <2> HIDE DEF z, more
  <2>3. more \in [1 .. z -> Entry]
    BY <2>1, <2>2
  <2>4. more \in Seq(Entry) /\ Len(more) = z
    BY <2>1, <2>2, <2>3
  <2> QED BY <2>4 DEF z
<1>7. \A k \in 1 .. last + 1 - Len(app) : more[k] = X[Len(app) + k - 1]
  BY <1>5 DEF Shows
<1> HIDE DEF more
<1>8. Len(h) = last + 1
  BY <1>1, <1>3, <1>4, <1>6
<1>9. ASSUME NEW n \in 1 .. Len(h) PROVE h[n] = X[n - 1]
  <2>1. CASE n <= Len(app)
    <3>1. n \in 1 .. Len(app)
      BY <1>1, <1>3, <1>8, <2>1
    <3> QED BY <1>4, <1>6, <3>1
  <2>2. CASE n > Len(app)
    <3>1. n - Len(app) \in 1 .. last + 1 - Len(app)
      BY <1>1, <1>3, <1>8, <2>2
    <3>2. h[n] = more[n - Len(app)]
      BY <1>1, <1>3, <1>4, <1>6, <1>8, <2>2
    <3>3. Len(app) + (n - Len(app)) - 1 = n - 1
      BY <1>1, <1>3, <1>8
    <3> QED BY <1>7, <3>1, <3>2, <3>3
  <2> QED BY <1>1, <1>3, <1>8, <2>1, <2>2
<1>10. p.lastSnapshotIndex \in Int
  BY ShowsBounds
<1> QED BY <1>0, <1>1, <1>3, <1>8, <1>9, <1>10

\* What _sendAppendEntriesTo takes from the log.
LEMMA SentShows ==
  ASSUME NEW p, IsStore(p), NEW b, NEW X, Shows(p, b, X),
         NEW next \in Nat, next >= firstIndex(p)
  PROVE  /\ DOMAIN getRange(p, next, lastIndex(p)) = next .. b
         /\ \A n \in next .. b : getRange(p, next, lastIndex(p))[n] = X[n]
         /\ \/ prevLogTerm(p, next - 1) = -1
            \/ Has(X, next - 1, prevLogTerm(p, next - 1))
<1>1. /\ b \in Int /\ b >= -1 /\ p.lastSnapshotIndex \in Int /\ p.lastSnapshotIndex >= -1
      /\ p.lastSnapshotIndex <= b /\ DOMAIN X = 0 .. b
  BY ShowsBounds
<1>2. /\ Rows(p) = firstIndex(p) .. b /\ lastIndex(p) = b
      /\ firstIndex(p) \in 0 .. p.lastSnapshotIndex + 1
  BY ShownLog
<1>3. Rows(p) \cap (next .. b) = next .. b
  BY <1>1, <1>2
<1>4. /\ DOMAIN getRange(p, next, b) = next .. b
      /\ \A n \in next .. b : getRange(p, next, b)[n] = p.log[n]
  BY <1>3 DEF getRange, Select
<1>5. \A n \in next .. b : p.log[n] = X[n]
  BY <1>1, <1>2 DEF Shows
<1>6. \/ prevLogTerm(p, next - 1) = -1
      \/ Has(X, next - 1, prevLogTerm(p, next - 1))
  <2>1. CASE next - 1 >= 0 /\ next - 1 = p.lastSnapshotIndex
    <3>1. prevLogTerm(p, next - 1) = X[next - 1].term
      BY <2>1 DEF prevLogTerm, Shows
    <3>2. next - 1 \in 0 .. b
      BY <1>1, <2>1
    <3> QED BY <1>1, <3>1, <3>2 DEF Has
  <2>2. CASE ~(next - 1 >= 0 /\ next - 1 = p.lastSnapshotIndex) /\ next - 1 \in Rows(p)
    <3>1. prevLogTerm(p, next - 1) = X[next - 1].term
      BY <2>2 DEF prevLogTerm, Shows
    <3>2. next - 1 \in 0 .. b
      BY <1>1, <1>2, <2>2
    <3> QED BY <1>1, <3>1, <3>2 DEF Has
  <2>3. CASE ~(next - 1 >= 0 /\ next - 1 = p.lastSnapshotIndex) /\ next - 1 \notin Rows(p)
    BY <2>3 DEF prevLogTerm
  <2> QED BY <2>1, <2>2, <2>3
<1> QED BY <1>2, <1>4, <1>5, <1>6

-----------------------------------------------------------------------------
(***************************************************************************)
(* What a follower makes of a request: the log it has afterwards keeps all *)
(* it shared with the leader's, and ends with what the request carries.    *)
(***************************************************************************)

\* The request carries a piece of the log of its term's leader.
AppendGood(G, K, m) ==
  LET U == m.term
      k == newMatch(m)
  IN  /\ Led(G, U) /\ k \in Index /\ m.prevLogIndex <= k
      /\ DOMAIN m.entries = m.prevLogIndex + 1 .. k
      /\ \A n \in m.prevLogIndex + 1 .. k : n \in DOMAIN G[U] /\ m.entries[n] = G[U][n]
      /\ m.prevLogIndex < k => Has(G[U], k, U)
      /\ m.prevLogTerm = -1 \/ Has(G[U], m.prevLogIndex, m.prevLogTerm)
      /\ m.leaderCommit <= k
      /\ m.leaderCommit >= 0 => Fixed(G, K, G[U], m.leaderCommit, U)

\* The snapshot of the request is a prefix of its term's leader's log, and fixed.
InstallGood(G, K, m) ==
  LET U == m.term
      c == m.lastIncludedIndex
  IN  /\ Led(G, U) /\ c \in DOMAIN G[U] /\ m.lastIncludedTerm = G[U][c].term
      /\ \A n \in 0 .. c : m.data[n + 1] = G[U][n]
      /\ Fixed(G, K, G[U], c, U)

\* Z keeps of X what X shares with the leader of U.
Follows(X, Z, G, U) ==
  /\ IsFull(Z) /\ From(Z, G, U)
  /\ \A k \in Nat : Agrees(X, G[U], k) => Agrees(Z, G[U], k)

\* The beginning of a log is copied from leaders as the log is.
LEMMA UptoFollows ==
  ASSUME NEW G, NEW U, NEW X, IsFull(X), From(X, G, U), NEW k \in Index, k >= 0 => k \in DOMAIN X
  PROVE  /\ IsFull(Upto(X, k)) /\ From(Upto(X, k), G, U)
         /\ \A n \in 0 .. k : n \in DOMAIN X /\ n \in DOMAIN Upto(X, k) /\ Upto(X, k)[n] = X[n]
         /\ DOMAIN Upto(X, k) = 0 .. k
<1> DEFINE Z == Upto(X, k)
<1>1. \A n \in 0 .. k : n \in DOMAIN X /\ X[n] \in Entry
  <2> SUFFICES ASSUME NEW n \in 0 .. k PROVE n \in DOMAIN X
    BY FullBelow
  <2>1. k \in DOMAIN X
    BY DEF Index
  <2> QED BY <2>1, FullBelow
<1>2. /\ Z \in [0 .. k -> Entry] /\ \A n \in 0 .. k : Z[n] = X[n]
      /\ DOMAIN Z = 0 .. k
  BY <1>1, UptoIsLog
<1> HIDE DEF Z
<1>3. IsFull(Z)
  BY <1>2 DEF IsFull
<1>4. From(Z, G, U)
  <2> SUFFICES ASSUME NEW n \in DOMAIN Z
               PROVE  Z[n].term \in 0 .. U /\ Agrees(Z, G[Z[n].term], n)
    BY DEF From
  <2>1. n \in DOMAIN X /\ Z[n] = X[n]
    BY <1>1, <1>2
  <2>2. X[n].term \in 0 .. U /\ Agrees(X, G[X[n].term], n)
    BY <2>1 DEF From
  <2>3. \A l \in 0 .. n : l \in 0 .. k /\ Z[l] = X[l]
    <3>1. n \in 0 .. k /\ k \in Int
      BY <1>2 DEF Index
    <3> QED BY <1>2, <3>1
  <2> QED BY <2>1, <2>2, <2>3 DEF Agrees
<1> QED BY <1>1, <1>2, <1>3, <1>4 DEF Z

\* The log shares with the leader's what the previous entry stands for.
LEMMA MatchedAgrees ==
  ASSUME NEW G, NEW K, NEW T, NEW L, Core(G, K, T, L),
         NEW p, IsStore(p), NEW b, NEW X, Shows(p, b, X),
         NEW V \in Nat, From(X, G, V), NEW U \in Nat, V <= U, Led(G, U),
         p.lastSnapshotIndex >= 0 => Fixed(G, K, X, p.lastSnapshotIndex, V),
         NEW prev \in Nat, NEW prevTerm, prevTerm = -1 \/ Has(G[U], prev, prevTerm),
         matched(p, prev, prevTerm)
  PROVE  Agrees(X, G[U], prev)
<1>1. /\ b \in Int /\ b >= -1 /\ p.lastSnapshotIndex \in Int /\ p.lastSnapshotIndex >= -1
      /\ p.lastSnapshotIndex <= b /\ DOMAIN X = 0 .. b /\ IsFull(X)
  BY ShowsBounds
<1>2. IsFull(G[U]) /\ From(G[U], G, U)
  BY DEF Core
<1>3. CASE prev <= p.lastSnapshotIndex
  <2>1. p.lastSnapshotIndex \in Nat /\ prev \in 0 .. p.lastSnapshotIndex
    BY <1>1, <1>3
  <2>2. Agrees(X, G[U], p.lastSnapshotIndex)
    BY <1>1, <2>1, FixedIsLeaders
  <2> QED BY <1>1, <1>2, <2>1, <2>2, AgreesUp
<1>4. CASE prev > p.lastSnapshotIndex
  <2>1. prev \in Rows(p) /\ p.log[prev].term = prevTerm
    BY <1>1, <1>4 DEF matched
  <2>2. Has(X, prev, prevTerm)
    <3>1. Rows(p) \subseteq 0 .. b
      BY <1>1, ShownLog
    <3> QED BY <1>1, <2>1, <3>1 DEF Shows, Has
  <2>3. prevTerm # -1
    <3>1. X[prev].term \in Nat
      BY <1>1, <2>2, FullBelow DEF Has
    <3> QED BY <2>2, <3>1 DEF Has
  <2> QED BY <1>2, <2>2, <2>3, SameTermAgrees
<1> QED BY <1>1, <1>3, <1>4

\* The first conflict, w: the log shares with the leader's all below it and,
\* when the snapshot does not reach it, nothing from it on.
LEMMA ConflictPoint ==
  ASSUME NEW G, NEW K, NEW T, NEW L, Core(G, K, T, L),
         NEW p, IsStore(p), NEW b, NEW X, Shows(p, b, X),
         NEW V \in Nat, From(X, G, V), NEW U \in Nat, V <= U,
         p.lastSnapshotIndex >= 0 => Fixed(G, K, X, p.lastSnapshotIndex, V),
         NEW m, m.term = U, AppendGood(G, K, m), m.prevLogIndex \in Index,
         matched(p, m.prevLogIndex, m.prevLogTerm),
         Conflicts(p, m.entries) # {},
         NEW w, w = Min(Conflicts(p, m.entries))
  PROVE  /\ w \in m.prevLogIndex + 1 .. newMatch(m) /\ w \in 0 .. b + 1
         /\ w >= 1 => Agrees(X, G[U], w - 1)
         /\ w > p.lastSnapshotIndex => \A k \in Nat : Agrees(X, G[U], k) => k < w
<1> DEFINE prev == m.prevLogIndex
           k == newMatch(m)
           C == Conflicts(p, m.entries)
<1>1. /\ b \in Int /\ b >= -1 /\ p.lastSnapshotIndex \in Int /\ p.lastSnapshotIndex >= -1
      /\ p.lastSnapshotIndex <= b /\ DOMAIN X = 0 .. b /\ IsFull(X)
  BY ShowsBounds
<1>2. IsFull(G[U]) /\ From(G[U], G, U) /\ From(X, G, U)
  BY DEF Core, From
<1>3. /\ Led(G, U) /\ k \in Int /\ prev \in Int /\ prev >= -1
      /\ DOMAIN m.entries = prev + 1 .. k
      /\ \A n \in prev + 1 .. k : n \in DOMAIN G[U] /\ m.entries[n] = G[U][n]
      /\ m.prevLogTerm = -1 \/ Has(G[U], prev, m.prevLogTerm)
  BY DEF AppendGood, Index
<1>4. /\ Rows(p) = firstIndex(p) .. b
      /\ firstIndex(p) \in 0 .. p.lastSnapshotIndex + 1
      /\ \A n \in Rows(p) : p.log[n] = X[n]
  <2>1. \A n \in Rows(p) : p.log[n] = X[n]
    BY DEF Shows
  <2> QED BY <2>1, ShownLog
<1>5. C \subseteq prev + 1 .. k /\ C # {}
  BY <1>3 DEF Conflicts
<1>6. w \in C /\ \A n \in C : w <= n
  <2> HIDE DEF C, prev, k
  <2>1. C \subseteq Nat
    BY <1>3, <1>5
  <2>2. \E x \in C : \A y \in C : x <= y
    BY <1>5, <2>1, LeastNatural
  <2> QED BY <2>2 DEF Min, C
<1>7. w \in prev + 1 .. k /\ w \in Nat
  BY <1>3, <1>5, <1>6
<1>8. w >= 1 => Agrees(X, G[U], w - 1)
  <2> SUFFICES ASSUME w >= 1 PROVE Agrees(X, G[U], w - 1)
    OBVIOUS
  <2>1. CASE w = prev + 1
    <3>1. prev \in Nat /\ w - 1 = prev
      BY <1>3, <1>7, <2>1
    <3> QED BY <1>3, <3>1, MatchedAgrees
  <2>2. CASE w # prev + 1
    <3>1. w - 1 \in prev + 1 .. k /\ w - 1 \notin C
      BY <1>3, <1>6, <1>7, <2>2
    <3>2. w - 1 \in Rows(p) /\ p.log[w - 1].term = m.entries[w - 1].term
      BY <1>3, <3>1 DEF Conflicts
    <3>3. w - 1 \in DOMAIN X /\ X[w - 1].term = G[U][w - 1].term /\ w - 1 \in DOMAIN G[U]
      BY <1>1, <1>3, <1>4, <3>1, <3>2
    <3>4. Has(X, w - 1, G[U][w - 1].term) /\ Has(G[U], w - 1, G[U][w - 1].term)
      BY <3>3 DEF Has
    <3> QED BY <1>2, <3>4, SameTermAgrees
  <2> QED BY <2>1, <2>2
<1>9. w \in 0 .. b + 1
  <2>1. w >= 1 => w - 1 \in 0 .. b
    BY <1>1, <1>8 DEF Agrees
  <2> QED BY <1>1, <1>7, <2>1
<1>10. ASSUME w > p.lastSnapshotIndex, NEW l \in Nat, Agrees(X, G[U], l) PROVE l < w
  <2> SUFFICES ASSUME w <= l PROVE FALSE
    BY <1>7
  <2>1. l \in 0 .. b
    BY <1>1, <1>10 DEF Agrees
  <2>2. w \in Rows(p)
    BY <1>1, <1>4, <1>7, <1>10, <2>1
  <2>3. p.log[w].term # m.entries[w].term
    BY <1>6, <2>2 DEF Conflicts
  <2>4. X[w] = G[U][w]
    BY <1>7, <1>10 DEF Agrees
  <2> QED BY <1>3, <1>4, <1>7, <2>2, <2>3, <2>4
<1> QED BY <1>7, <1>8, <1>9, <1>10

\* The request does not overwrite rows below the snapshot and lose those after.
NotOvertaking(p, V, m) ==
  \/ V < m.term
  \/ m.prevLogIndex >= p.lastSnapshotIndex
  \/ Conflicts(p, m.entries) = {}
  \/ newMatch(m) >= lastIndex(p)

\* The store after handleAppendEntries and, when the snapshot does not reach
\* the first conflict, between its two writes.
LEMMA StoredFollows ==
  ASSUME NEW G, NEW K, NEW T, NEW L, Core(G, K, T, L),
         NEW p, IsStore(p), NEW b, NEW X, Shows(p, b, X),
         NEW V \in Nat, From(X, G, V), NEW U \in Nat, V <= U,
         p.lastSnapshotIndex >= 0 => Fixed(G, K, X, p.lastSnapshotIndex, V),
         NEW m, m.term = U, AppendGood(G, K, m), m.prevLogIndex \in Index,
         matched(p, m.prevLogIndex, m.prevLogTerm),
         NotOvertaking(p, V, m)
  PROVE  \E c, Z : /\ Shows(Stored(p, m.entries), c, Z) /\ Follows(X, Z, G, U)
                   /\ newMatch(m) >= 0 => Agrees(Z, G[U], newMatch(m))
<1> DEFINE prev == m.prevLogIndex
           k == newMatch(m)
           C == Conflicts(p, m.entries)
           s == p.lastSnapshotIndex
<1>1. /\ b \in Int /\ b >= -1 /\ s \in Int /\ s >= -1
      /\ s <= b /\ DOMAIN X = 0 .. b /\ IsFull(X)
  BY ShowsBounds
<1>2. IsFull(G[U]) /\ From(G[U], G, U) /\ From(X, G, U)
  BY DEF Core, From
<1>3. /\ Led(G, U) /\ k \in Int /\ prev \in Int /\ prev >= -1 /\ prev <= k /\ k >= -1 /\ k \in Index
      /\ DOMAIN m.entries = prev + 1 .. k
      /\ \A n \in prev + 1 .. k : n \in DOMAIN G[U] /\ m.entries[n] = G[U][n]
      /\ m.prevLogTerm = -1 \/ Has(G[U], prev, m.prevLogTerm)
      /\ prev < k => Has(G[U], k, U)
  BY DEF AppendGood, Index
<1>4. lastIndex(p) = b /\ Rows(p) \subseteq 0 .. b /\ \A n \in Rows(p) : p.log[n] = X[n]
  <2>1. /\ lastIndex(p) = b /\ Rows(p) = firstIndex(p) .. b
        /\ firstIndex(p) \in 0 .. p.lastSnapshotIndex + 1
    BY ShownLog
  <2> QED BY <1>1, <2>1 DEF Shows
<1>5. CASE C = {}
  <2>1. Stored(p, m.entries) = p
    BY <1>5 DEF Stored
  <2>2. Follows(X, X, G, U)
    BY <1>1, <1>2 DEF Follows
  <2>3. ASSUME k >= 0 PROVE Agrees(X, G[U], k)
    <3>1. CASE k = prev
      <4>1. prev \in Nat
        BY <1>3, <2>3, <3>1
      <4> QED BY <1>3, <3>1, <4>1, MatchedAgrees
    <3>2. CASE k # prev
      <4>1. k \in prev + 1 .. k
        BY <1>3, <3>2
      <4>2. k \in Rows(p) /\ p.log[k].term = m.entries[k].term
        BY <1>3, <1>5, <4>1 DEF Conflicts
      <4>3. Has(X, k, G[U][k].term) /\ Has(G[U], k, G[U][k].term)
        BY <1>1, <1>3, <1>4, <4>1, <4>2 DEF Has
      <4> QED BY <1>2, <4>3, SameTermAgrees
    <3> QED BY <3>1, <3>2
  <2> QED BY <2>1, <2>2, <2>3
<1>6. CASE C # {}
  <2> DEFINE w == Min(C)
             e == [n \in {l \in DOMAIN m.entries : l >= w} |-> m.entries[n]]
             Z == Upto(G[U], k)
  <2>1. /\ w \in prev + 1 .. k /\ w \in 0 .. b + 1
        /\ w >= 1 => Agrees(X, G[U], w - 1)
        /\ w > s => \A l \in Nat : Agrees(X, G[U], l) => l < w
    BY <1>6, ConflictPoint
  <2>2. Stored(p, m.entries) = appendEntries(truncateFrom(p, w), e)
    BY <1>6 DEF Stored, Truncated
  <2> HIDE DEF w, C, prev, k
  <2>3. w \in Nat /\ w <= k /\ k \in Nat /\ prev < k /\ prev < w
    BY <1>3, <2>1
  <2>4. Has(G[U], k, U) /\ k \in DOMAIN G[U]
    BY <1>3, <2>3 DEF Has
  <2>5. DOMAIN e = w .. k /\ \A n \in w .. k : e[n] = G[U][n]
    <3>1. {l \in prev + 1 .. k : l >= w} = w .. k
      BY <1>3, <2>3
    <3>2. \A n \in w .. k : n \in prev + 1 .. k
      BY <1>3, <2>3
    <3> QED BY <1>3, <3>1, <3>2
  <2> HIDE DEF e
  <2>6. s <= k /\ (w <= s => k >= b \/ V < U)
    <3>1. CASE w > s
      BY <1>1, <2>3, <3>1
    <3>2. CASE w <= s
      <4>1. V < U \/ k >= b
        BY <1>1, <1>3, <1>4, <1>6, <2>3, <3>2 DEF NotOvertaking, prev, k, C
      <4>2. CASE k >= b
        BY <1>1, <1>3, <4>2
      <4>3. CASE V < U
        <5>1. s \in Nat
          BY <1>1, <2>3, <3>2
        <5>2. s < k
          BY <1>1, <1>3, <2>3, <2>4, <4>3, <5>1, FixedIsLeaders
        <5> QED BY <1>1, <1>3, <4>3, <5>2
      <4> QED BY <4>1, <4>2, <4>3
    <3> QED BY <1>1, <2>3, <3>1, <3>2
  <2>7. \A n \in 0 .. k : n \in DOMAIN G[U] /\ G[U][n] \in Entry
    BY <1>2, <2>4, FullBelow
  <2>8. \A n \in 0 .. w - 1 : G[U][n] = X[n]
    <3> SUFFICES ASSUME NEW n \in 0 .. w - 1 PROVE G[U][n] = X[n]
      OBVIOUS
    <3>1. w >= 1 /\ w - 1 \in Nat
      BY <2>3
    <3> QED BY <2>1, <3>1 DEF Agrees
  <2>9. \A n \in 0 .. s : G[U][n] = X[n]
    <3> SUFFICES ASSUME NEW n \in 0 .. s PROVE G[U][n] = X[n]
      OBVIOUS
    <3>1. s \in Nat
      BY <1>1
    <3>2. Agrees(X, G[U], s)
      BY <1>1, <1>3, <3>1, FixedIsLeaders
    <3> QED BY <3>2 DEF Agrees
  <2> HIDE DEF s
  <2>10. Shows(Stored(p, m.entries), k, Z)
    BY <2>1, <2>2, <2>3, <2>5, <2>6, <2>7, <2>8, <2>9, RewriteShows DEF s
  <2>11. /\ IsFull(Z) /\ From(Z, G, U) /\ DOMAIN Z = 0 .. k
         /\ \A n \in 0 .. k : n \in DOMAIN G[U] /\ n \in DOMAIN Z /\ Z[n] = G[U][n]
    BY <1>2, <1>3, <2>4, UptoFollows
  <2> HIDE DEF Z
  <2>12. ASSUME NEW l \in Nat, Agrees(X, G[U], l) PROVE l <= k
    <3>1. CASE w > s
      BY <2>1, <2>3, <2>12, <3>1
    <3>2. CASE w <= s /\ k >= b
      BY <1>1, <2>3, <2>12, <3>2 DEF Agrees
    <3>3. CASE V < U
      <4> SUFFICES ASSUME k < l PROVE FALSE
        BY <2>3
      <4>1. k \in 0 .. l
        BY <2>3
      <4>2. X[k] = G[U][k] /\ k \in DOMAIN X
        BY <1>1, <2>12, <4>1, FullBelow DEF Agrees
      <4>3. X[k].term \in 0 .. V /\ X[k].term = U
        BY <2>4, <4>2 DEF From, Has
      <4> QED BY <3>3, <4>3
    <3> QED BY <1>1, <2>3, <2>6, <3>1, <3>2, <3>3
  <2>13. ASSUME NEW l \in Nat, l <= k PROVE Agrees(Z, G[U], l)
    <3>1. l \in 0 .. k /\ \A n \in 0 .. l : n \in 0 .. k
      BY <2>3, <2>13
    <3> QED BY <2>11, <3>1 DEF Agrees
  <2>14. Follows(X, Z, G, U)
    BY <2>11, <2>12, <2>13 DEF Follows
  <2>15. Agrees(Z, G[U], k)
    BY <2>3, <2>13
  <2> QED BY <2>10, <2>14, <2>15 DEF k
<1> QED BY <1>5, <1>6

\* The store between truncateFrom and appendEntries of handleAppendEntries, when
\* the first conflict is above the snapshot.
LEMMA TruncatedFollows ==
  ASSUME NEW G, NEW K, NEW T, NEW L, Core(G, K, T, L),
         NEW p, IsStore(p), NEW b, NEW X, Shows(p, b, X),
         NEW V \in Nat, From(X, G, V), NEW U \in Nat, V <= U,
         p.lastSnapshotIndex >= 0 => Fixed(G, K, X, p.lastSnapshotIndex, V),
         NEW m, m.term = U, AppendGood(G, K, m), m.prevLogIndex \in Index,
         matched(p, m.prevLogIndex, m.prevLogTerm),
         Conflicts(p, m.entries) # {} => Min(Conflicts(p, m.entries)) > p.lastSnapshotIndex
  PROVE  \E c, Z : Shows(Truncated(p, m.entries), c, Z) /\ Follows(X, Z, G, U)
<1> DEFINE C == Conflicts(p, m.entries)
           w == Min(C)
<1>1. /\ b \in Int /\ b >= -1 /\ p.lastSnapshotIndex \in Int /\ p.lastSnapshotIndex >= -1
      /\ p.lastSnapshotIndex <= b /\ DOMAIN X = 0 .. b /\ IsFull(X)
  BY ShowsBounds
<1>2. IsFull(X) /\ From(X, G, U)
  BY <1>1 DEF From
<1>3. CASE C = {}
  <2>1. Truncated(p, m.entries) = p
    BY <1>3 DEF Truncated
  <2>2. Follows(X, X, G, U)
    BY <1>2 DEF Follows
  <2> QED BY <2>1, <2>2
<1>4. CASE C # {}
  <2>1. /\ w \in 0 .. b + 1 /\ w > p.lastSnapshotIndex
        /\ \A l \in Nat : Agrees(X, G[U], l) => l < w
    BY <1>4, ConflictPoint
  <2>2. Truncated(p, m.entries) = truncateFrom(p, w)
    BY <1>4 DEF Truncated
  <2> HIDE DEF w, C
  <2>3. /\ w \in p.lastSnapshotIndex + 1 .. b + 1 /\ w \in Nat
        /\ w - 1 \in Index
        /\ w - 1 >= 0 => w - 1 \in DOMAIN X
    BY <1>1, <2>1 DEF Index
  <2> DEFINE Z == Upto(X, w - 1)
  <2>4. Shows(truncateFrom(p, w), w - 1, Z)
    BY <2>3, TruncateShows
  <2>5. /\ IsFull(Z) /\ From(Z, G, U) /\ DOMAIN Z = 0 .. w - 1
        /\ \A n \in 0 .. w - 1 : n \in DOMAIN X /\ n \in DOMAIN Z /\ Z[n] = X[n]
    BY <1>2, <2>3, UptoFollows
  <2> HIDE DEF Z
  <2>6. ASSUME NEW l \in Nat, Agrees(X, G[U], l) PROVE Agrees(Z, G[U], l)
    <3>1. l < w
      BY <2>1, <2>6
    <3>2. l \in 0 .. w - 1 /\ \A n \in 0 .. l : n \in 0 .. w - 1
      BY <2>3, <3>1
    <3> QED BY <2>5, <2>6, <3>2 DEF Agrees
  <2>7. Follows(X, Z, G, U)
    BY <2>5, <2>6 DEF Follows
  <2> QED BY <2>2, <2>4, <2>7
<1> QED BY <1>3, <1>4

\* The store after handleInstallSnapshot.
LEMMA InstalledFollows ==
  ASSUME NEW G, NEW K, NEW T, NEW L, Core(G, K, T, L),
         NEW p, IsStore(p), NEW b, NEW X, Shows(p, b, X),
         NEW V \in Nat, From(X, G, V), NEW U \in Nat, V <= U,
         NEW m, m.term = U, InstallGood(G, K, m),
         m.lastIncludedIndex \in Nat, m.lastIncludedIndex > p.lastSnapshotIndex,
         NEW q, q = saveSnapshot(Wiped(p, m), m.lastIncludedIndex, m.lastIncludedTerm, m.data)
  PROVE  \E c, Z : /\ Shows(q, c, Z) /\ Follows(X, Z, G, U)
                   /\ Agrees(Z, G[U], m.lastIncludedIndex)
<1> DEFINE c == m.lastIncludedIndex
           Y == G[U]
           Z == Upto(Y, c)
<1>1. /\ b \in Int /\ b >= -1 /\ DOMAIN X = 0 .. b /\ IsFull(X)
  BY ShowsBounds
<1>2. IsFull(Y) /\ From(Y, G, U) /\ From(X, G, U)
  BY DEF Core, From
<1>3. /\ c \in DOMAIN Y /\ m.lastIncludedTerm = Y[c].term
      /\ \A n \in 0 .. c : Y[n] \in Entry /\ m.data[n + 1] = Y[n]
  <2>1. c \in DOMAIN Y /\ m.lastIncludedTerm = Y[c].term /\ \A n \in 0 .. c : m.data[n + 1] = Y[n]
    BY DEF InstallGood
  <2>2. \A n \in 0 .. c : n \in DOMAIN Y
    BY <1>2, <2>1, FullBelow
  <2> QED BY <1>2, <2>1, <2>2, FullBelow
<1> HIDE DEF Y
<1>4. CASE c \in DOMAIN X /\ X[c].term = m.lastIncludedTerm
  <2>1. Has(X, c, X[c].term) /\ Has(Y, c, X[c].term)
    BY <1>3, <1>4 DEF Has
  <2>2. Agrees(X, Y, c)
    BY <1>2, <2>1, SameTermAgrees
  <2>3. \A n \in 0 .. c : X[n] = Y[n]
    BY <2>2 DEF Agrees
  <2>4. Shows(q, b, X)
    BY <1>3, <1>4, <2>3, InstallShows
  <2>5. Follows(X, X, G, U)
    BY <1>1, <1>2 DEF Follows
  <2> QED BY <2>2, <2>4, <2>5 DEF Y
<1>5. CASE ~(c \in DOMAIN X /\ X[c].term = m.lastIncludedTerm)
  <2>1. Shows(q, c, Z)
    BY <1>3, <1>5, InstallShows
  <2>2. c \in Index
    BY DEF Index
  <2>3. /\ IsFull(Z) /\ From(Z, G, U) /\ DOMAIN Z = 0 .. c
        /\ \A n \in 0 .. c : n \in DOMAIN Y /\ n \in DOMAIN Z /\ Z[n] = Y[n]
    BY <1>2, <1>3, <2>2, UptoFollows
  <2> HIDE DEF Z
  <2>4. ASSUME NEW l \in Nat, Agrees(X, Y, l) PROVE l < c
    <3> SUFFICES ASSUME c <= l PROVE FALSE
      OBVIOUS
    <3>1. c \in 0 .. l
      OBVIOUS
    <3>2. c \in DOMAIN X /\ X[c] = Y[c]
      BY <1>1, <2>4, <3>1, FullBelow DEF Agrees
    <3> QED BY <1>3, <1>5, <3>2
  <2>5. ASSUME NEW l \in Nat, l <= c PROVE Agrees(Z, Y, l)
    <3>1. l \in 0 .. c /\ \A n \in 0 .. l : n \in 0 .. c
      BY <2>5
    <3> QED BY <2>3, <3>1 DEF Agrees
  <2>6. Follows(X, Z, G, U)
    BY <2>3, <2>4, <2>5 DEF Follows, Y
  <2>7. Agrees(Z, G[U], c)
    BY <2>5 DEF Y
  <2> QED BY <2>1, <2>6, <2>7
<1> QED BY <1>4, <1>5

-----------------------------------------------------------------------------
(***************************************************************************)
(* The inductive invariant, and the frame of the lemmas on steps.          *)
(***************************************************************************)

\* The logs of the replicas with the stores D.
Logs(D) == [i \in Server |-> StoreLog(D[i])]

\* A replica in term t with the store p, the commit index c and the history
\* app: the store shows a log, which a quorum has up to c.
Sound(G, K, t, p, c, app) ==
  /\ \E b, X : Shows(p, b, X)
  /\ c >= 0 => Fixed(G, K, StoreLog(p), c, t)
  /\ Len(app) - 1 <= c /\ p.lastSnapshotIndex <= Len(app) - 1
  /\ \A n \in 1 .. Len(app) : app[n] = StoreLog(p)[n - 1]

\* A leader of term t with the log X.
Leads(G, K, t, X, match) ==
  /\ X = G[t] /\ \E b \in Nat : DOMAIN X = 0 .. b /\ Has(X, b, t)
  /\ \A j \in DOMAIN match :
       /\ match[j] \in DOMAIN X \cup {-1}
       /\ \A n \in 0 .. match[j] : Has(X, n, t) => Acked(K, j, n, t)

\* The snapshot a peer answered for was fixed in the log of some leader, up to
\* the request's term, and acknowledged if it was that term's.
ReplyGood(G, K, r) ==
  /\ r.lastIncludedIndex \in Nat
  /\ \E V \in 0 .. r.term :
       /\ Fixed(G, K, G[V], r.lastIncludedIndex, V)
       /\ V < r.term \/ <<r.peer, r.lastIncludedIndex, r.term>> \in K

\* A request or a reply under way tells what was so when it was sent.
CallGood(G, K, c) ==
  /\ c.type = "AppendEntries" => AppendGood(G, K, c)
  /\ c.type = "InstallSnapshot" => InstallGood(G, K, c)
  /\ (c.type = "AppendReply" /\ c.success /\ c.newMatch >= 0) => <<c.peer, c.newMatch, c.term>> \in K
  /\ c.type = "SnapshotReply" => ReplyGood(G, K, c)

\* A request of a replica that is in term t, has the role r and the store p.
AskGood(m, t, r, p) ==
  /\ m.term <= t
  /\ (r = Candidate /\ t = m.term) =>
       m.lastLogIndex = lastIndex(p) /\ m.lastLogTerm = lastTerm(p)

\* A reply to a replica that is in term t, has the role r and the log X.
GrantGood(G, K, v, t, r, X) ==
  /\ v.ballot <= t
  /\ (v.granted /\ r = Candidate /\ t = v.ballot /\ ~Led(G, t)) => Cover(G, K, v.src, t, X)

\* The invariant with the ghosts G and K: the core, and each replica, leader,
\* call, vote request, vote reply and applied entry as the operators above say;
\* a log belongs to an elected leader.
GInv(G, K) ==
  /\ DOMAIN G = Nat
  /\ Core(G, K, currentTerm, Logs(disk))
  /\ \A i \in Server : Sound(G, K, currentTerm[i], disk[i], commitIndex[i], applied[i])
  /\ \A i \in Server : role[i] = Leader =>
       Leads(G, K, currentTerm[i], StoreLog(disk[i]), matchIndex[i])
  /\ \A c \in calls : CallGood(G, K, c)
  /\ \A m \in voteRequests : AskGood(m, currentTerm[m.src], role[m.src], disk[m.src])
  /\ \A v \in voteReplies :
       GrantGood(G, K, v, currentTerm[v.dst], role[v.dst], StoreLog(disk[v.dst]))
  /\ \A d \in decided : Settled(G, K, d)
  /\ \A t \in Nat : Led(G, t) => \E l \in Server : Owner(l, t)

\* The leaders' logs have no holes.
LEMMA LogsAreFull ==
  ASSUME NEW G, NEW K, NEW T, NEW L, Core(G, K, T, L)
  PROVE  \A t \in Nat : IsFull(G[t])
BY DEF Core

\* A term that had a leader has had one ever after.
LEMMA LedKept ==
  ASSUME NEW G, NEW H, LogsGrow(G, H), NEW t \in Nat, Led(G, t)
  PROVE  Led(H, t)
BY DEF LogsGrow, Led

\* What a leader had of its log it still has.
LEMMA GrownAgrees ==
  ASSUME NEW G, NEW H, LogsGrow(G, H), NEW t \in Nat, IsFull(G[t]), NEW c \in DOMAIN G[t]
  PROVE  /\ Agrees(H[t], G[t], c) /\ c \in Nat
         /\ \A n \in 0 .. c : n \in DOMAIN G[t] /\ n \in DOMAIN H[t] /\ H[t][n] = G[t][n]
<1>1. c \in Nat /\ 0 .. c \subseteq DOMAIN G[t]
  BY FullBelow
<1>2. \A n \in 0 .. c : n \in DOMAIN G[t] /\ n \in DOMAIN H[t] /\ H[t][n] = G[t][n]
  BY <1>1 DEF LogsGrow
<1> QED BY <1>1, <1>2 DEF Agrees

\* What is fixed in a leader's log stays fixed in it.
LEMMA FixedInLeaders ==
  ASSUME NEW G, NEW K, NEW H, LogsGrow(G, H), NEW J, K \subseteq J, \A t \in Nat : IsFull(G[t]),
         NEW U \in Nat, NEW c \in Nat, Fixed(G, K, G[U], c, U)
  PROVE  Fixed(H, J, H[U], c, U) /\ c \in DOMAIN G[U]
<1>1. c \in DOMAIN G[U]
  BY DEF Fixed, Agrees
<1>2. Agrees(H[U], G[U], c)
  BY <1>1, GrownAgrees
<1> QED BY <1>1, <1>2, FixedKept

\* An AppendEntries under way stays true while the ghosts grow.
LEMMA AppendGoodKept ==
  ASSUME NEW G, NEW K, NEW H, LogsGrow(G, H), NEW J, K \subseteq J, \A t \in Nat : IsFull(G[t]),
         NEW m, m.term \in Nat, m.leaderCommit \in Index, AppendGood(G, K, m)
  PROVE  AppendGood(H, J, m)
<1> DEFINE U == m.term
           k == newMatch(m)
<1>1. /\ Led(G, U) /\ k \in Index /\ m.prevLogIndex <= k
      /\ DOMAIN m.entries = m.prevLogIndex + 1 .. k
      /\ \A n \in m.prevLogIndex + 1 .. k : n \in DOMAIN G[U] /\ m.entries[n] = G[U][n]
      /\ m.prevLogIndex < k => Has(G[U], k, U)
      /\ m.prevLogTerm = -1 \/ Has(G[U], m.prevLogIndex, m.prevLogTerm)
      /\ m.leaderCommit <= k
      /\ m.leaderCommit >= 0 => Fixed(G, K, G[U], m.leaderCommit, U)
  BY DEF AppendGood
<1>2. U \in Nat
  OBVIOUS
<1> HIDE DEF U, k
<1>3. \A n \in DOMAIN G[U] : n \in DOMAIN H[U] /\ H[U][n] = G[U][n]
  BY <1>2 DEF LogsGrow
<1>4. m.leaderCommit >= 0 => Fixed(H, J, H[U], m.leaderCommit, U)
  <2> SUFFICES ASSUME m.leaderCommit >= 0 PROVE Fixed(H, J, H[U], m.leaderCommit, U)
    OBVIOUS
  <2>1. m.leaderCommit \in Nat
    BY DEF Index
  <2> QED BY <1>1, <1>2, <2>1, FixedInLeaders
<1>5. Led(H, U)
  BY <1>1, <1>2, LedKept
<1>6. /\ \A n \in m.prevLogIndex + 1 .. k : n \in DOMAIN H[U] /\ m.entries[n] = H[U][n]
      /\ m.prevLogIndex < k => Has(H[U], k, U)
      /\ m.prevLogTerm = -1 \/ Has(H[U], m.prevLogIndex, m.prevLogTerm)
  BY <1>1, <1>3 DEF Has
<1> QED BY <1>1, <1>4, <1>5, <1>6 DEF AppendGood, U, k

\* An InstallSnapshot under way stays true while the ghosts grow.
LEMMA InstallGoodKept ==
  ASSUME NEW G, NEW K, NEW H, LogsGrow(G, H), NEW J, K \subseteq J, \A t \in Nat : IsFull(G[t]),
         NEW m, m.term \in Nat, InstallGood(G, K, m)
  PROVE  InstallGood(H, J, m)
<1> DEFINE U == m.term
           c == m.lastIncludedIndex
<1>1. /\ Led(G, U) /\ c \in DOMAIN G[U] /\ m.lastIncludedTerm = G[U][c].term
      /\ \A n \in 0 .. c : m.data[n + 1] = G[U][n]
      /\ Fixed(G, K, G[U], c, U)
  BY DEF InstallGood
<1>2. U \in Nat
  OBVIOUS
<1> HIDE DEF U, c
<1>3. /\ c \in Nat
      /\ \A n \in 0 .. c : n \in DOMAIN H[U] /\ H[U][n] = G[U][n]
  BY <1>1, <1>2, GrownAgrees
<1>4. Fixed(H, J, H[U], c, U)
  BY <1>1, <1>2, <1>3, FixedInLeaders
<1>5. Led(H, U)
  BY <1>1, <1>2, LedKept
<1>6. c \in 0 .. c
  BY <1>3
<1>7. /\ c \in DOMAIN H[U] /\ m.lastIncludedTerm = H[U][c].term
      /\ \A n \in 0 .. c : m.data[n + 1] = H[U][n]
  BY <1>1, <1>3, <1>6
<1> QED BY <1>4, <1>5, <1>7 DEF InstallGood, U, c

\* The answer to an InstallSnapshot stays true while the ghosts grow.
LEMMA ReplyGoodKept ==
  ASSUME NEW G, NEW K, NEW H, LogsGrow(G, H), NEW J, K \subseteq J, \A t \in Nat : IsFull(G[t]),
         NEW r, r.term \in Nat, ReplyGood(G, K, r)
  PROVE  ReplyGood(H, J, r)
<1>1. PICK V \in 0 .. r.term :
        /\ Fixed(G, K, G[V], r.lastIncludedIndex, V)
        /\ V < r.term \/ <<r.peer, r.lastIncludedIndex, r.term>> \in K
  BY DEF ReplyGood
<1>2. r.lastIncludedIndex \in Nat /\ V \in Nat
  BY DEF ReplyGood
<1>3. Fixed(H, J, H[V], r.lastIncludedIndex, V)
  BY <1>1, <1>2, FixedInLeaders
<1> QED BY <1>1, <1>2, <1>3 DEF ReplyGood

\* The calls under way stay good.
LEMMA CallGoodKept ==
  ASSUME NEW G, NEW K, NEW H, LogsGrow(G, H), NEW J, K \subseteq J, \A t \in Nat : IsFull(G[t]),
         NEW c, c.term \in Nat, CallOK(c), CallGood(G, K, c)
  PROVE  CallGood(H, J, c)
<1>1. c.type = "AppendEntries" => AppendGood(H, J, c)
  BY AppendGoodKept DEF CallGood, CallOK
<1>2. c.type = "InstallSnapshot" => InstallGood(H, J, c)
  BY InstallGoodKept DEF CallGood
<1>3. c.type = "SnapshotReply" => ReplyGood(H, J, c)
  BY ReplyGoodKept DEF CallGood
<1>4. (c.type = "AppendReply" /\ c.success /\ c.newMatch >= 0) => <<c.peer, c.newMatch, c.term>> \in J
  BY DEF CallGood
<1> QED BY <1>1, <1>2, <1>3, <1>4 DEF CallGood

\* A replica that does not move stays sound while the ghosts grow.
LEMMA SoundKept ==
  ASSUME NEW G, NEW K, NEW H, LogsGrow(G, H), NEW J, K \subseteq J, \A t \in Nat : IsFull(G[t]),
         NEW t \in Nat, NEW u \in Nat, t <= u, NEW p, NEW c \in Index, NEW app,
         Sound(G, K, t, p, c, app)
  PROVE  Sound(H, J, u, p, c, app)
<1>1. ASSUME c >= 0 PROVE Fixed(H, J, StoreLog(p), c, u)
  <2>1. c \in Nat
    BY <1>1 DEF Index
  <2>2. Fixed(G, K, StoreLog(p), c, t)
    BY <1>1 DEF Sound
  <2>3. Agrees(StoreLog(p), StoreLog(p), c)
    BY <2>2 DEF Fixed, Agrees
  <2> QED BY <2>1, <2>2, <2>3, FixedKept
<1> QED BY <1>1 DEF Sound

\* A leader whose log does not grow goes on leading.
LEMMA LeadsKept ==
  ASSUME NEW G, NEW K, NEW H, LogsGrow(G, H), NEW J, K \subseteq J,
         NEW t \in Nat, H[t] = G[t], NEW X, NEW match, Leads(G, K, t, X, match)
  PROVE  Leads(H, J, t, X, match)
<1>2. \A j, n : Acked(K, j, n, t) => Acked(J, j, n, t)
  BY DEF Acked
<1> QED BY <1>2 DEF Leads

-----------------------------------------------------------------------------
(***************************************************************************)
(* A step changes one replica, sends calls and lets the ghosts grow.       *)
(***************************************************************************)

\* The votes stay good when the candidate goes on with its log.
Goes(t, r, p, u, s, q) ==
  s = Candidate => \/ u > t
                   \/ /\ u = t /\ r = Candidate
                      /\ lastIndex(q) = lastIndex(p) /\ lastTerm(q) = lastTerm(p)
                      /\ StoreLog(q) = StoreLog(p)

\* A vote request stays true while its sender goes on or leaves its term.
LEMMA AskGoodKept ==
  ASSUME NEW m, m.term \in Nat, NEW t \in Nat, NEW r, NEW p, AskGood(m, t, r, p),
         NEW u \in Nat, u >= t, NEW s, NEW q, Goes(t, r, p, u, s, q)
  PROVE  AskGood(m, u, s, q)
BY DEF AskGood, Goes

\* A grant goes on covering the candidate's log while the candidate waits.
LEMMA GrantGoodKept ==
  ASSUME NEW G, NEW K, NEW T, NEW L, AcksOK(G, K, T, L),
         NEW H, LogsGrow(G, H), \A t \in Nat : IsFull(G[t]),
         NEW J, MoreAcks(K, J, T),
         NEW v, v.src \in Server, v.ballot \in Nat, T[v.src] \in Nat,
         v.granted => T[v.src] >= v.ballot,
         NEW t \in Nat, NEW r, NEW p, GrantGood(G, K, v, t, r, StoreLog(p)),
         NEW u \in Nat, u >= t, NEW s, NEW q, Goes(t, r, p, u, s, q)
  PROVE  GrantGood(H, J, v, u, s, StoreLog(q))
<1>1. v.ballot <= u
  BY DEF GrantGood
<1>2. ASSUME v.granted, s = Candidate, u = v.ballot, ~Led(H, u)
      PROVE  Cover(H, J, v.src, u, StoreLog(q))
  <2>1. t = u /\ r = Candidate /\ StoreLog(q) = StoreLog(p)
    BY <1>2 DEF GrantGood, Goes
  <2>2. ~Led(G, u)
    BY <1>2, LedKept
  <2>3. Cover(G, K, v.src, u, StoreLog(p))
    BY <1>2, <2>1, <2>2 DEF GrantGood
  <2> QED BY <1>2, <2>1, <2>3, CoverKept
<1> QED BY <1>1, <1>2 DEF GrantGood

\* What a replica applied is settled.
LEMMA AppliedSettled ==
  ASSUME NEW G, NEW K, \A t \in Nat : IsFull(G[t]), NEW t \in Nat, NEW p, IsStore(p),
         NEW c \in Index, NEW app \in Seq(Entry), Sound(G, K, t, p, c, app),
         NEW d \in Record(app)
  PROVE  Settled(G, K, d)
<1>1. PICK n \in 1 .. Len(app) : d = <<n - 1, app[n]>>
  BY DEF Record
<1>2. Len(app) \in Nat /\ n \in Nat /\ n >= 1 /\ n <= Len(app) /\ c \in Int
  BY DEF Index
<1>3. c \in Nat /\ n - 1 \in 0 .. c
  BY <1>2 DEF Sound
<1>4. Fixed(G, K, StoreLog(p), c, t) /\ app[n] = StoreLog(p)[n - 1]
  BY <1>3 DEF Sound
<1>5. PICK b, X : Shows(p, b, X)
  BY DEF Sound
<1>6. IsFull(StoreLog(p))
  BY <1>5, ShownLog, ShowsBounds
<1>7. Settled(G, K, <<n - 1, StoreLog(p)[n - 1]>>)
  BY <1>3, <1>4, <1>6, FixedBelow
<1> QED BY <1>1, <1>4, <1>7

\* A step does not concern replica k.
Unmoved(k) ==
  /\ role'[k] = role[k] /\ currentTerm'[k] = currentTerm[k] /\ disk'[k] = disk[k]
  /\ matchIndex'[k] = matchIndex[k] /\ commitIndex'[k] = commitIndex[k]
  /\ applied'[k] = applied[k]

\* The frame of all the lemmas on steps: one replica j moves, and the ghosts,
\* the replica and the messages afterwards are as the invariant wants them.
LEMMA StepKeeps ==
  ASSUME LogInv, DataInv', VoteStep, NEW G, NEW K, GInv(G, K),
         NEW j \in Server, \A k \in Server \ {j} : Unmoved(k),
         NEW H, DOMAIN H = Nat, LogsGrow(G, H), NEW J, MoreAcks(K, J, currentTerm),
         \A k \in Server \ {j} : role[k] = Leader => H[currentTerm[k]] = G[currentTerm[k]],
         Core(H, J, currentTerm', Logs(disk')),
         Sound(H, J, currentTerm'[j], disk'[j], commitIndex'[j], applied'[j]),
         role'[j] = Leader => Leads(H, J, currentTerm'[j], StoreLog(disk'[j]), matchIndex'[j]),
         Goes(currentTerm[j], role[j], disk[j], currentTerm'[j], role'[j], disk'[j]),
         \A c \in calls' : CallGood(H, J, c),
         \A m \in voteRequests' : \/ m \in voteRequests
                                  \/ AskGood(m, currentTerm'[m.src], role'[m.src], disk'[m.src]),
         \A v \in voteReplies' :
           \/ v \in voteReplies
           \/ GrantGood(H, J, v, currentTerm'[v.dst], role'[v.dst], StoreLog(disk'[v.dst])),
         decided' \subseteq decided \cup Record(applied'[j]),
         \A t \in Nat : Led(H, t) => Led(G, t) \/ \E l \in Server : Owner(l, t)'
  PROVE  GInv(H, J)'
<1> USE DEF DataInv
<1>1. /\ DataInv /\ ElectionInv /\ K \subseteq J
      /\ \A t \in Nat : IsFull(G[t])
      /\ \A t \in Nat : IsFull(H[t])
      /\ AcksOK(G, K, currentTerm, Logs(disk))
  BY LogsAreFull DEF LogInv, GInv, MoreAcks, Core
<1>2. /\ \A k \in Server : currentTerm[k] \in Nat /\ currentTerm'[k] \in Nat
                           /\ currentTerm'[k] >= currentTerm[k]
      /\ \A k \in Server : commitIndex[k] \in Index /\ commitIndex'[k] \in Index
      /\ \A k \in Server : applied'[k] \in Seq(Entry) /\ IsStore(disk'[k])
  BY <1>1 DEF ElectionInv, TypesOK, TermsOK, VoteStep, GoodStep, DataOK, MachinesOK, StoresOK
<1>3. \A k \in Server : Sound(H, J, currentTerm'[k], disk'[k], commitIndex'[k], applied'[k])
  <2> SUFFICES ASSUME NEW k \in Server, k # j
               PROVE  Sound(H, J, currentTerm'[k], disk'[k], commitIndex'[k], applied'[k])
    OBVIOUS
  <2>1. Unmoved(k)
    OBVIOUS
  <2>2. Sound(G, K, currentTerm[k], disk[k], commitIndex[k], applied[k])
    BY DEF GInv
  <2>3. Sound(H, J, currentTerm[k], disk[k], commitIndex[k], applied[k])
    BY <1>1, <1>2, <2>2, SoundKept
  <2> QED BY <2>1, <2>3 DEF Unmoved
<1>4. \A k \in Server : role'[k] = Leader =>
        Leads(H, J, currentTerm'[k], StoreLog(disk'[k]), matchIndex'[k])
  <2> SUFFICES ASSUME NEW k \in Server, k # j, role'[k] = Leader
               PROVE  Leads(H, J, currentTerm'[k], StoreLog(disk'[k]), matchIndex'[k])
    OBVIOUS
  <2>1. Unmoved(k)
    OBVIOUS
  <2>2. role[k] = Leader /\ H[currentTerm[k]] = G[currentTerm[k]]
    BY <2>1 DEF Unmoved
  <2>3. Leads(G, K, currentTerm[k], StoreLog(disk[k]), matchIndex[k])
    BY <2>2 DEF GInv
  <2>4. Leads(H, J, currentTerm[k], StoreLog(disk[k]), matchIndex[k])
    BY <1>1, <1>2, <2>2, <2>3, LeadsKept
  <2> QED BY <2>1, <2>4 DEF Unmoved
<1>5. \A k \in Server : Goes(currentTerm[k], role[k], disk[k], currentTerm'[k], role'[k], disk'[k])
  <2> SUFFICES ASSUME NEW k \in Server, k # j
               PROVE  Goes(currentTerm[k], role[k], disk[k], currentTerm'[k], role'[k], disk'[k])
    OBVIOUS
  <2> QED BY DEF Unmoved, Goes
<1>6. \A m \in voteRequests' : AskGood(m, currentTerm'[m.src], role'[m.src], disk'[m.src])
  <2> SUFFICES ASSUME NEW m \in voteRequests
               PROVE  AskGood(m, currentTerm'[m.src], role'[m.src], disk'[m.src])
    OBVIOUS
  <2>1. m.src \in Server /\ m.term \in Nat
    BY <1>1 DEF ElectionInv, TypesOK, MessagesOK
  <2>2. AskGood(m, currentTerm[m.src], role[m.src], disk[m.src])
    BY DEF GInv
  <2> QED BY <1>2, <1>5, <2>1, <2>2, AskGoodKept
<1>7. \A v \in voteReplies' :
        GrantGood(H, J, v, currentTerm'[v.dst], role'[v.dst], StoreLog(disk'[v.dst]))
  <2> SUFFICES ASSUME NEW v \in voteReplies
               PROVE  GrantGood(H, J, v, currentTerm'[v.dst], role'[v.dst], StoreLog(disk'[v.dst]))
    OBVIOUS
  <2>1. v.src \in Server /\ v.dst \in Server /\ v.ballot \in Nat
    BY <1>1 DEF ElectionInv, TypesOK, MessagesOK
  <2>2. v.granted => currentTerm[v.src] >= v.ballot
    BY <1>1, <1>2, <2>1 DEF ElectionInv, GrantsOK
  <2>3. GrantGood(G, K, v, currentTerm[v.dst], role[v.dst], StoreLog(disk[v.dst]))
    BY DEF GInv
  <2>4. currentTerm[v.src] \in Nat /\ currentTerm[v.dst] \in Nat /\ currentTerm'[v.dst] \in Nat
        /\ currentTerm'[v.dst] >= currentTerm[v.dst]
    BY <1>2, <2>1
  <2>5. Goes(currentTerm[v.dst], role[v.dst], disk[v.dst],
             currentTerm'[v.dst], role'[v.dst], disk'[v.dst])
    BY <1>5, <2>1
  <2> QED BY <1>1, <2>1, <2>2, <2>3, <2>4, <2>5, GrantGoodKept
<1>8. \A d \in decided' : Settled(H, J, d)
  <2>1. ASSUME NEW d \in decided PROVE Settled(H, J, d)
    <3>1. d \in Entries
      BY DEF Entries
    <3>2. d[1] \in Nat
      BY <3>1 DEF LogInv, EntriesTyped
    <3>3. Settled(G, K, d)
      BY DEF GInv
    <3> QED BY <1>1, <3>2, <3>3, SettledKept
  <2>2. ASSUME NEW d \in Record(applied'[j]) PROVE Settled(H, J, d)
    BY <1>1, <1>2, <1>3, <2>2, AppliedSettled
  <2> QED BY <2>1, <2>2
<1>9. \A t \in Nat : Led(H, t) => \E l \in Server : Owner(l, t)'
  <2> SUFFICES ASSUME NEW t \in Nat, Led(G, t) PROVE \E l \in Server : Owner(l, t)'
    OBVIOUS
  <2>1. PICK l \in Server : Owner(l, t)
    BY DEF GInv
  <2>2. role'[l] = Candidate => role[l] = Candidate \/ currentTerm'[l] > currentTerm[l]
    BY <1>5 DEF Goes
  <2>3. Owner(l, t)'
    BY <1>1, <2>1, <2>2, OwnerKept
  <2> QED BY <2>3
<1> QED BY <1>3, <1>4, <1>6, <1>7, <1>8, <1>9 DEF GInv

-----------------------------------------------------------------------------
(***************************************************************************)
(* What the parts of a step do to one replica and to the calls.            *)
(***************************************************************************)

\* The logs after one store was written.
LEMMA LogsWritten ==
  ASSUME NEW D, NEW j \in Server, NEW q, DOMAIN D = Server
  PROVE  /\ Logs([D EXCEPT ![j] = q]) = [Logs(D) EXCEPT ![j] = StoreLog(q)]
         /\ DOMAIN Logs(D) = Server /\ \A k \in Server : Logs(D)[k] = StoreLog(D[k])
BY DEF Logs

\* The logs depend on nothing of the stores but the log each shows.
LEMMA LogsSame ==
  ASSUME NEW D, NEW E, \A k \in Server : StoreLog(E[k]) = StoreLog(D[k])
  PROVE  Logs(E) = Logs(D)
BY DEF Logs

\* A write of the term and the vote leaves the log alone.
LEMMA VoteWritten ==
  ASSUME NEW p, IsStore(p), NEW u, NEW v, NEW q, q = saveTermAndVote(p, u, v)
  PROVE  /\ q.log = p.log /\ q.lastSnapshotIndex = p.lastSnapshotIndex
         /\ q.lastSnapshotTerm = p.lastSnapshotTerm /\ q.snapshot = p.snapshot
         /\ StoreLog(q) = StoreLog(p) /\ lastIndex(q) = lastIndex(p) /\ lastTerm(q) = lastTerm(p)
         /\ IsStore(q)
<1>1. /\ q.log = p.log /\ q.lastSnapshotIndex = p.lastSnapshotIndex
      /\ q.lastSnapshotTerm = p.lastSnapshotTerm /\ q.snapshot = p.snapshot
  BY DEF saveTermAndVote, IsStore
<1>2. lastIndex(q) = lastIndex(p) /\ lastTerm(q) = lastTerm(p) /\ Rows(q) = Rows(p)
  BY <1>1 DEF lastIndex, lastTerm, Rows
<1>3. \A n : EntryAt(q, n) = EntryAt(p, n)
  BY <1>1, <1>2 DEF EntryAt
<1>4. StoreLog(q) = StoreLog(p)
  BY <1>2, <1>3 DEF StoreLog
<1> QED BY <1>1, <1>2, <1>4, WritesKeepStore

\* saveTermAndVote leaves a replica sound.
LEMMA VoteWriteSound ==
  ASSUME NEW G, NEW K, NEW t, NEW p, NEW c, NEW app, Sound(G, K, t, p, c, app),
         NEW q, q.log = p.log, q.lastSnapshotIndex = p.lastSnapshotIndex,
         q.lastSnapshotTerm = p.lastSnapshotTerm, q.snapshot = p.snapshot,
         StoreLog(q) = StoreLog(p)
  PROVE  Sound(G, K, t, q, c, app)
<1>1. PICK b, X : Shows(p, b, X)
  BY DEF Sound
<1>2. Shows(q, b, X)
  BY <1>1, SaveTermShows
<1> QED BY <1>2 DEF Sound

\* A commit index is an index of the log.
LEMMA CommitInLog ==
  ASSUME NEW G, NEW K, \A t \in Nat : IsFull(G[t]), NEW t, NEW p, IsStore(p), NEW c \in Index,
         NEW app, Sound(G, K, t, p, c, app), NEW b, NEW X, Shows(p, b, X)
  PROVE  c <= b
<1>1. CASE c >= 0
  <2>1. c \in DOMAIN StoreLog(p)
    BY <1>1 DEF Sound, Fixed, Agrees
  <2>2. StoreLog(p) = X /\ DOMAIN X = 0 .. b
    BY ShownLog, ShowsBounds
  <2> QED BY <2>1, <2>2
<1>2. CASE ~(c >= 0)
  <2>1. c = -1 /\ b >= -1 /\ b \in Int
    BY <1>2, ShowsBounds DEF Index
  <2> QED BY <2>1
<1> QED BY <1>1, <1>2

\* Once the history of the store p is h, committed to d: with the snapshot
\* that is due, and with it but its rows not deleted, the store is sound and
\* shows the log it showed.
SettledWell(G, K, t, p, d, h) ==
  /\ Sound(G, K, t, maybeSnapshot(p, h), d, h) /\ StoreLog(maybeSnapshot(p, h)) = StoreLog(p)
  /\ Sound(G, K, t, Snapshotted(p, h), d, h) /\ StoreLog(Snapshotted(p, h)) = StoreLog(p)

\* _applyCommitted and _maybeSnapshot, on leader and follower.
LEMMA SettleSound ==
  ASSUME NEW G, NEW K, \A t \in Nat : IsFull(G[t]), NEW t, NEW p, IsStore(p), NEW c \in Index,
         NEW app \in Seq(Entry), Sound(G, K, t, p, c, app),
         NEW d \in Index, d >= c, d >= 0 => Fixed(G, K, StoreLog(p), d, t),
         NEW h, h = applyCommitted(p, app, d)
  PROVE  SettledWell(G, K, t, p, d, h)
<1>1. PICK b, X : Shows(p, b, X)
  BY DEF Sound
<1>2. StoreLog(p) = X
  BY <1>1, ShownLog
<1>3. /\ Len(app) - 1 <= c /\ p.lastSnapshotIndex <= Len(app) - 1
      /\ \A n \in 1 .. Len(app) : app[n] = X[n - 1]
  BY <1>2 DEF Sound
<1>4. Len(app) \in Nat /\ c \in Int /\ d \in Int /\ p.lastSnapshotIndex \in Int
  BY DEF Index, IsStore, IsSnapshot
<1>5. Len(app) - 1 <= d /\ Len(app) - 1 >= p.lastSnapshotIndex
  BY <1>3, <1>4
<1>6. /\ h \in Seq(Entry) /\ Len(h) - 1 <= d
      /\ Len(h) - 1 >= p.lastSnapshotIndex
      /\ \A n \in 1 .. Len(h) : h[n] = X[n - 1]
  BY <1>1, <1>3, <1>5, AppliedGoesAlong
<1>7. Shows(Snapshotted(p, h), b, X) /\ Shows(maybeSnapshot(p, h), b, X)
  BY <1>1, <1>6, SnapshotShows
<1>8. IsStore(Snapshotted(p, h)) /\ IsStore(maybeSnapshot(p, h))
  BY <1>6, SnapshottedIsStore
<1>9. StoreLog(Snapshotted(p, h)) = X /\ StoreLog(maybeSnapshot(p, h)) = X
  BY <1>7, <1>8, ShownLog
<1>10. /\ Snapshotted(p, h).lastSnapshotIndex <= Len(h) - 1
       /\ maybeSnapshot(p, h).lastSnapshotIndex <= Len(h) - 1
  <2>1. CASE ~SnapshotDue(p, h)
    BY <1>6, <2>1 DEF Snapshotted, maybeSnapshot
  <2>2. CASE SnapshotDue(p, h)
    <3>1. Snapshotted(p, h).lastSnapshotIndex = Len(h) - 1
      BY <2>2 DEF Snapshotted, saveSnapshot, IsStore
    <3>2. maybeSnapshot(p, h).lastSnapshotIndex = Len(h) - 1
      BY <2>2 DEF Snapshotted, maybeSnapshot, saveSnapshot, truncateUpTo, IsStore
    <3>3. Len(h) - 1 <= Len(h) - 1
      BY <1>6
    <3> QED BY <3>1, <3>2, <3>3
  <2> QED BY <2>1, <2>2
<1> QED BY <1>2, <1>6, <1>7, <1>9, <1>10 DEF Sound, SettledWell

\* start() after a crash.
LEMMA CrashSound ==
  ASSUME NEW G, NEW K, \A t \in Nat : IsFull(G[t]), NEW t \in Nat, NEW p, IsStore(p),
         NEW c \in Index, NEW app \in Seq(Entry), Sound(G, K, t, p, c, app)
  PROVE  Sound(G, K, t, p, p.lastSnapshotIndex, p.snapshot)
<1> DEFINE s == p.lastSnapshotIndex
<1>1. PICK b, X : Shows(p, b, X)
  BY DEF Sound
<1>2. StoreLog(p) = X /\ IsFull(X)
  BY <1>1, ShownLog, ShowsBounds
<1>3. /\ s \in Index /\ s \in Int /\ s >= -1 /\ Len(p.snapshot) = s + 1 /\ c \in Int
      /\ Len(app) \in Nat
  BY DEF IsStore, IsSnapshot, Index
<1>4. \A n \in 0 .. s : p.snapshot[n + 1] = X[n]
  BY <1>1 DEF Shows
<1>5. \A n \in 1 .. Len(p.snapshot) : p.snapshot[n] = X[n - 1]
  <2> SUFFICES ASSUME NEW n \in 1 .. Len(p.snapshot) PROVE p.snapshot[n] = X[n - 1]
    OBVIOUS
  <2>1. n - 1 \in 0 .. s /\ (n - 1) + 1 = n
    BY <1>3
  <2> QED BY <1>4, <2>1
<1>6. ASSUME s >= 0 PROVE Fixed(G, K, X, s, t)
  <2>1. s <= c
    BY <1>3 DEF Sound
  <2>2. c \in Nat /\ s \in 0 .. c
    BY <1>3, <1>6, <2>1
  <2>3. Fixed(G, K, X, c, t)
    BY <1>2, <2>2 DEF Sound
  <2> QED BY <1>2, <2>2, <2>3, FixedBelow
<1> QED BY <1>1, <1>2, <1>3, <1>5, <1>6 DEF Sound

\* The log follows the leader of a term that is not older.
LEMMA FollowSound ==
  ASSUME NEW G, NEW K, NEW T, NEW L, Core(G, K, T, L), NEW V \in Nat, NEW U \in Nat, V <= U,
         Led(G, U), NEW p, IsStore(p), NEW c \in Index, NEW app \in Seq(Entry),
         Sound(G, K, V, p, c, app), NEW q, IsStore(q),
         q.lastSnapshotIndex = p.lastSnapshotIndex,
         NEW b, NEW Z, Shows(q, b, Z), Follows(StoreLog(p), Z, G, U)
  PROVE  Sound(G, K, U, q, c, app)
<1> DEFINE X == StoreLog(p)
<1>0. IsFull(X) /\ StoreLog(q) = Z
  <2>1. PICK a, Y : Shows(p, a, Y)
    BY DEF Sound
  <2> QED BY <2>1, ShownLog, ShowsBounds
<1>1. ASSUME c >= 0
      PROVE  Fixed(G, K, Z, c, U) /\ \A n \in 0 .. c : Z[n] = X[n]
  <2>1. c \in Nat /\ Fixed(G, K, X, c, V)
    BY <1>1 DEF Index, Sound
  <2>2. Agrees(X, G[U], c)
    BY <1>0, <2>1, FixedIsLeaders
  <2>3. Agrees(Z, G[U], c)
    BY <2>1, <2>2 DEF Follows
  <2>4. \A n \in 0 .. c : Z[n] = X[n]
    BY <2>2, <2>3 DEF Agrees
  <2>5. Agrees(Z, X, c)
    BY <2>2, <2>3, <2>4 DEF Agrees
  <2>6. LogsGrow(G, G) /\ \A t \in Nat : IsFull(G[t])
    BY LogsGrowRefl DEF Core
  <2> QED BY <2>1, <2>4, <2>5, <2>6, FixedKept
<1>2. \A n \in 1 .. Len(app) : app[n] = Z[n - 1]
  <2> SUFFICES ASSUME NEW n \in 1 .. Len(app) PROVE app[n] = Z[n - 1]
    OBVIOUS
  <2>1. Len(app) - 1 <= c /\ Len(app) \in Nat /\ c \in Int
    BY DEF Sound, Index
  <2>2. c >= 0 /\ n - 1 \in 0 .. c
    BY <2>1
  <2>3. Z[n - 1] = X[n - 1]
    BY <1>1, <2>2
  <2> QED BY <2>3 DEF Sound
<1>3. Len(app) - 1 <= c /\ q.lastSnapshotIndex <= Len(app) - 1
  BY DEF Sound
<1> QED BY <1>0, <1>1, <1>2, <1>3 DEF Sound

\* A snapshot of the leader of a term that is not older is installed.
LEMMA InstallSound ==
  ASSUME NEW G, NEW K, NEW T, NEW L, Core(G, K, T, L), NEW V \in Nat, NEW U \in Nat, V <= U,
         NEW p, IsStore(p), NEW c \in Index, NEW app, Sound(G, K, V, p, c, app),
         NEW m, m.term = U, InstallGood(G, K, m), m.lastIncludedIndex \in Nat,
         m.data \in Seq(Entry), Len(m.data) = m.lastIncludedIndex + 1,
         NEW q, IsStore(q), q.lastSnapshotIndex = m.lastIncludedIndex,
         NEW b, NEW Z, Shows(q, b, Z), Follows(StoreLog(p), Z, G, U),
         Agrees(Z, G[U], m.lastIncludedIndex)
  PROVE  Sound(G, K, U, q, Greater(c, m.lastIncludedIndex), m.data)
<1> DEFINE X == StoreLog(p)
           s == m.lastIncludedIndex
           d == Greater(c, s)
<1>0. IsFull(X) /\ StoreLog(q) = Z /\ IsFull(Z) /\ IsFull(G[U])
  <2>1. PICK a, Y : Shows(p, a, Y)
    BY DEF Sound
  <2> QED BY <2>1, ShownLog, ShowsBounds DEF Core
<1>1. Led(G, U) /\ Fixed(G, K, G[U], s, U) /\ \A n \in 0 .. s : m.data[n + 1] = G[U][n]
  BY DEF InstallGood
<1>2. LogsGrow(G, G) /\ \A t \in Nat : IsFull(G[t])
  BY LogsGrowRefl DEF Core
<1>3. ASSUME c > s PROVE Fixed(G, K, Z, c, U)
  <2>1. c \in Nat /\ Fixed(G, K, X, c, V)
    BY <1>3 DEF Index, Sound
  <2>2. Agrees(X, G[U], c)
    BY <1>0, <1>1, <2>1, FixedIsLeaders
  <2>3. Agrees(Z, G[U], c)
    BY <2>1, <2>2 DEF Follows
  <2>4. Agrees(Z, X, c)
    BY <2>2, <2>3 DEF Agrees
  <2> QED BY <1>2, <2>1, <2>4, FixedKept
<1>4. Fixed(G, K, Z, s, U)
  BY <1>1, <1>2, FixedKept
<1>5. d \in Int /\ d >= s /\ ((d = c /\ c > s) \/ d = s)
  BY DEF Greater, Index
<1>6. Fixed(G, K, Z, d, U)
  BY <1>3, <1>4, <1>5
<1>7. \A n \in 1 .. Len(m.data) : m.data[n] = Z[n - 1]
  <2> SUFFICES ASSUME NEW n \in 1 .. s + 1 PROVE m.data[n] = Z[n - 1]
    OBVIOUS
  <2>1. n - 1 \in 0 .. s /\ (n - 1) + 1 = n
    OBVIOUS
  <2>2. Z[n - 1] = G[U][n - 1]
    BY <2>1 DEF Agrees
  <2> QED BY <1>1, <2>1, <2>2
<1> HIDE DEF d
<1>8. Len(m.data) - 1 <= d /\ q.lastSnapshotIndex <= Len(m.data) - 1
  BY <1>5
<1> QED BY <1>0, <1>6, <1>7, <1>8 DEF Sound, d

-----------------------------------------------------------------------------
(***************************************************************************)
(* The calls a leader makes, the responses of its peers, a crash.          *)
(***************************************************************************)

\* A term that has a leader is led.
LEMMA LeadsIsLed ==
  ASSUME NEW G, NEW K, NEW t, NEW X, NEW match, Leads(G, K, t, X, match)
  PROVE  Led(G, t)
<1>1. PICK b \in Nat : DOMAIN X = 0 .. b /\ Has(X, b, t)
  BY DEF Leads
<1>2. b \in DOMAIN G[t]
  BY <1>1 DEF Leads, Has
<1> QED BY <1>2 DEF Led

\* The AppendEntries of _sendAppendEntriesTo tells of the leader's log.
LEMMA SentAppendGood ==
  ASSUME NEW G, NEW K, \A t \in Nat : IsFull(G[t]), NEW U \in Nat, NEW p, IsStore(p),
         NEW match, Leads(G, K, U, StoreLog(p), match),
         NEW c \in Index, NEW app \in Seq(Entry), Sound(G, K, U, p, c, app),
         NEW next \in Nat, next >= firstIndex(p),
         NEW m, m.term = U, m.prevLogIndex = next - 1, m.prevLogTerm = prevLogTerm(p, next - 1),
         m.entries = getRange(p, next, lastIndex(p)), m.leaderCommit = c
  PROVE  AppendGood(G, K, m)
<1> DEFINE X == StoreLog(p)
           k == newMatch(m)
<1>1. PICK b : Shows(p, b, X)
  <2>1. PICK b, Y : Shows(p, b, Y)
    BY DEF Sound
  <2>2. X = Y
    BY <2>1, ShownLog
  <2> QED BY <2>1, <2>2
<1>2. DOMAIN X = 0 .. b /\ b \in Int /\ b >= -1
  BY <1>1, ShowsBounds
<1>3. X = G[U] /\ Led(G, U) /\ b \in Nat /\ Has(X, b, U)
  <2>1. PICK d \in Nat : DOMAIN X = 0 .. d /\ Has(X, d, U)
    BY DEF Leads
  <2>2. b = d
    BY <1>2, <2>1
  <2> QED BY <2>1, <2>2, LeadsIsLed DEF Leads
<1> HIDE DEF X
<1>4. /\ DOMAIN m.entries = next .. b
      /\ \A n \in next .. b : m.entries[n] = X[n]
      /\ m.prevLogTerm = -1 \/ Has(X, next - 1, m.prevLogTerm)
  BY <1>1, SentShows
<1>5. k = IF next <= b THEN b ELSE next - 1
  <2>1. CASE next <= b
    <3>1. next \in DOMAIN m.entries /\ Max(next .. b) = b
      BY <1>2, <1>4, <2>1, RangeMax
    <3> QED BY <1>4, <2>1, <3>1 DEF newMatch
  <2>2. CASE ~(next <= b)
    <3>1. DOMAIN m.entries = {}
      BY <1>2, <1>4, <2>2
    <3> QED BY <2>2, <3>1 DEF newMatch
  <2> QED BY <2>1, <2>2
<1> HIDE DEF k
<1>6. k \in Int /\ k >= -1 /\ next - 1 <= k /\ b <= k /\ next .. b = next .. k
      /\ (next - 1 < k => k = b)
  BY <1>2, <1>5
<1>7. k \in Index
  BY <1>6 DEF Index
<1>8. \A n \in next .. k : n \in DOMAIN G[U] /\ m.entries[n] = G[U][n]
  BY <1>2, <1>3, <1>4, <1>6
<1>9. c <= b
  BY <1>1, CommitInLog
<1>10. c <= k
  BY <1>2, <1>6, <1>9 DEF Index
<1>11. c >= 0 => Fixed(G, K, G[U], c, U)
  BY <1>3 DEF Sound, X
<1>12. (next - 1) + 1 = next
  OBVIOUS
<1>13. /\ m.prevLogIndex < k => Has(G[U], k, U)
       /\ m.prevLogTerm = -1 \/ Has(G[U], m.prevLogIndex, m.prevLogTerm)
  BY <1>3, <1>4, <1>6
<1>14. DOMAIN m.entries = m.prevLogIndex + 1 .. k
  BY <1>4, <1>6, <1>12
<1>15. \A n \in m.prevLogIndex + 1 .. k : n \in DOMAIN G[U] /\ m.entries[n] = G[U][n]
  BY <1>8, <1>12
<1>16. m.prevLogIndex <= k /\ m.leaderCommit <= k /\ (m.leaderCommit >= 0 => Fixed(G, K, G[U], m.leaderCommit, U))
  BY <1>6, <1>10, <1>11
<1> QED BY <1>3, <1>7, <1>13, <1>14, <1>15, <1>16 DEF AppendGood, k

\* The InstallSnapshot of _sendAppendEntriesTo tells of the leader's log.
LEMMA SentInstallGood ==
  ASSUME NEW G, NEW K, \A t \in Nat : IsFull(G[t]), NEW U \in Nat, NEW p, IsStore(p),
         NEW match, Leads(G, K, U, StoreLog(p), match),
         NEW c \in Index, NEW app \in Seq(Entry), Sound(G, K, U, p, c, app),
         p.lastSnapshotIndex # -1,
         NEW m, m.term = U, m.lastIncludedIndex = p.lastSnapshotIndex,
         m.lastIncludedTerm = p.lastSnapshotTerm, m.data = p.snapshot
  PROVE  InstallGood(G, K, m)
<1> DEFINE X == StoreLog(p)
           s == p.lastSnapshotIndex
<1>1. PICK b : Shows(p, b, X)
  <2>1. PICK b, Y : Shows(p, b, Y)
    BY DEF Sound
  <2>2. X = Y
    BY <2>1, ShownLog
  <2> QED BY <2>1, <2>2
<1>2. X = G[U] /\ Led(G, U)
  BY LeadsIsLed DEF Leads
<1>3. /\ s \in Nat /\ s \in DOMAIN X /\ p.lastSnapshotTerm = X[s].term
      /\ \A n \in 0 .. s : p.snapshot[n + 1] = X[n]
  <2>1. /\ s <= b /\ s >= -1 /\ s \in Int /\ b \in Int /\ DOMAIN X = 0 .. b
    BY <1>1, ShowsBounds
  <2> QED BY <1>1, <2>1 DEF Shows
<1>4. Sound(G, K, U, p, s, p.snapshot)
  BY CrashSound
<1>5. Fixed(G, K, X, s, U)
  BY <1>3, <1>4 DEF Sound
<1> QED BY <1>2, <1>3, <1>5 DEF InstallGood

\* Every request of _sendAppendEntriesToAll tells of the leader's log.
LEMMA SentGood ==
  ASSUME NEW G, NEW K, \A t \in Nat : IsFull(G[t]), NEW i \in Server, currentTerm[i] \in Nat,
         NEW p, IsStore(p), NEW match, Leads(G, K, currentTerm[i], StoreLog(p), match),
         commitIndex[i] \in Index, NEW app \in Seq(Entry),
         Sound(G, K, currentTerm[i], p, commitIndex[i], app),
         NEW next, \A j \in Peers(i) : next[j] \in Nat, sendAppendEntriesToAll(i, p, next)
  PROVE  \A c \in calls' : c \in calls \/ CallGood(G, K, c)
<1> SUFFICES ASSUME NEW c \in calls', c \notin calls PROVE CallGood(G, K, c)
  OBVIOUS
<1>1. PICK j \in Peers(i) : c \in sendAppendEntriesTo(i, j, p, next[j])
  BY DEF sendAppendEntriesToAll
<1>2. next[j] \in Nat /\ firstIndex(p) \in Int
  <2>1. PICK b, X : Shows(p, b, X)
    BY DEF Sound
  <2>2. firstIndex(p) \in 0 .. p.lastSnapshotIndex + 1
    BY <2>1, ShownLog
  <2> QED BY <2>2
<1>3. CASE next[j] < firstIndex(p)
  <2>1. c \in sendInstallSnapshotTo(i, j, p)
    BY <1>1, <1>3 DEF sendAppendEntriesTo
  <2>2. /\ c.type = "InstallSnapshot" /\ c.term = currentTerm[i] /\ p.lastSnapshotIndex # -1
        /\ c.lastIncludedIndex = p.lastSnapshotIndex /\ c.lastIncludedTerm = p.lastSnapshotTerm
        /\ c.data = p.snapshot
    BY <2>1 DEF sendInstallSnapshotTo
  <2>3. InstallGood(G, K, c)
    BY <2>2, SentInstallGood
  <2> QED BY <2>2, <2>3 DEF CallGood
<1>4. CASE ~(next[j] < firstIndex(p))
  <2>1. /\ c.type = "AppendEntries" /\ c.term = currentTerm[i]
        /\ c.prevLogIndex = next[j] - 1 /\ c.prevLogTerm = prevLogTerm(p, next[j] - 1)
        /\ c.entries = getRange(p, next[j], lastIndex(p)) /\ c.leaderCommit = commitIndex[i]
    BY <1>1, <1>4 DEF sendAppendEntriesTo
  <2>2. next[j] >= firstIndex(p)
    BY <1>2, <1>4
  <2>3. AppendGood(G, K, c)
    BY <1>2, <2>1, <2>2, SentAppendGood
  <2> QED BY <2>1, <2>3 DEF CallGood
<1> QED BY <1>3, <1>4

\* A handler that answers a call leaves the other calls alone.
LEMMA RespondedGood ==
  ASSUME NEW G, NEW K, \A c \in calls : CallGood(G, K, c),
         NEW m, NEW r, CallGood(G, K, r), Respond(m, r)
  PROVE  \A c \in calls' : CallGood(G, K, c)
BY DEF Respond

\* A request does not change when the process that made the call dies.
LEMMA AwaitedGood ==
  ASSUME NEW G, NEW K, NEW c, CallOK(c), "term" \in DOMAIN c, IsRequest(c), CallGood(G, K, c)
  PROVE  CallGood(G, K, [c EXCEPT !.awaited = FALSE])
<1> DEFINE d == [c EXCEPT !.awaited = FALSE]
<1>1. d.type = c.type /\ d.term = c.term /\ DOMAIN d = DOMAIN c
  BY DEF CallOK
<1>2. CASE c.type = "AppendEntries"
  <2>1. /\ d.prevLogIndex = c.prevLogIndex /\ d.prevLogTerm = c.prevLogTerm
        /\ d.entries = c.entries /\ d.leaderCommit = c.leaderCommit
    BY <1>2 DEF CallOK
  <2> HIDE DEF d
  <2>2. newMatch(d) = newMatch(c)
    BY <2>1 DEF newMatch
  <2>3. AppendGood(G, K, c)
    BY <1>2 DEF CallGood
  <2>4. AppendGood(G, K, d)
    BY <1>1, <2>1, <2>2, <2>3 DEF AppendGood
  <2> QED BY <1>1, <1>2, <2>4 DEF CallGood, d
<1>3. CASE c.type = "InstallSnapshot"
  <2>1. /\ d.lastIncludedIndex = c.lastIncludedIndex /\ d.lastIncludedTerm = c.lastIncludedTerm
        /\ d.data = c.data
    BY <1>3 DEF CallOK
  <2> HIDE DEF d
  <2>2. InstallGood(G, K, c)
    BY <1>3 DEF CallGood
  <2>3. InstallGood(G, K, d)
    BY <1>1, <2>1, <2>2 DEF InstallGood
  <2> QED BY <1>1, <1>3, <2>3 DEF CallGood, d
<1> QED BY <1>2, <1>3 DEF IsRequest
=============================================================================
