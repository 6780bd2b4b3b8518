--------------------------- MODULE DocumentProofs ---------------------------
(***************************************************************************)
(* The shared document: whatever batches are executed, and however late,   *)
(* it is a document that reads well, and a command executed between two    *)
(* documents that read well leaves every junction with what its flow       *)
(* reaches.  The rules of the model go in rounds, as many as there can be  *)
(* groups or junctions; what they compute is characterised here, by        *)
(* induction on the rounds, as the least set closed under one more.        *)
(***************************************************************************)
EXTENDS SharedDocument, TLAPS, FiniteSetTheorems, WellFoundedInduction

-----------------------------------------------------------------------------
(* Induction, from the order of the natural numbers being well founded *)

LEMMA Smallest ==
  ASSUME NEW S \in SUBSET Nat, S # {}
  PROVE  \E n \in S : \A m \in S : n <= m
  <1>1. PICK x \in S : \A y \in S : ~ (<<y, x>> \in OpToRel(<, Nat))
    BY NatLessThanWellFounded, WFMin
  <1>2. \A y \in Nat : y < x => <<y, x>> \in OpToRel(<, Nat)
    BY DEF OpToRel
  <1>3. \A y \in S : ~(y < x) /\ y \in Nat /\ x \in Nat
    BY <1>1, <1>2
  <1>4. \A y \in S : x <= y
    BY <1>3
  <1>. QED
    BY <1>4

LEMMA Induction ==
  ASSUME NEW S, 0 \in S, \A n \in Nat : n \in S => n + 1 \in S
  PROVE  \A n \in Nat : n \in S
  <1>. DEFINE Out == Nat \ S
  <1>. SUFFICES ASSUME Out # {} PROVE FALSE
    OBVIOUS
  <1>. HIDE DEF Out
  <1>1. Out \in SUBSET Nat
    BY DEF Out
  <1>2. PICK k \in Out : \A m \in Out : k <= m
    BY <1>1, Smallest
  <1>3. k \in Nat /\ k \notin S /\ k # 0
    BY <1>2 DEF Out
  <1>4. (k - 1) \in Nat /\ k - 1 + 1 = k /\ ~(k <= k - 1)
    BY <1>3
  <1>5. (k - 1) \in S
    BY <1>2, <1>4 DEF Out
  <1>. QED
    BY <1>3, <1>4, <1>5

\* Rounds of a function.
IsRounds(g, N, S, a, F) ==
  g \in [0 .. N -> S] /\ g[0] = a /\ \A n \in 1 .. N : g[n] = F[g[n - 1]]

LEMMA Rounds ==
  ASSUME NEW N \in Nat, NEW S, NEW a \in S, NEW F \in [S -> S]
  PROVE  \E g : IsRounds(g, N, S, a, F)
  <1>. DEFINE P(n) == \E g \in [0 .. n -> S] : g[0] = a /\ \A m \in 1 .. n : g[m] = F[g[m - 1]]
              In == {n \in Nat : P(n)}
  <1>1. P(0)
    <2>1. /\ [n \in 0 .. 0 |-> a] \in [0 .. 0 -> S] /\ [n \in 0 .. 0 |-> a][0] = a
          /\ \A m \in 1 .. 0 : FALSE
      OBVIOUS
    <2>. QED
      BY <2>1
  <1>2. ASSUME NEW n \in Nat, P(n) PROVE P(n + 1)
    <2>1. PICK g \in [0 .. n -> S] : g[0] = a /\ \A m \in 1 .. n : g[m] = F[g[m - 1]]
      BY <1>2
    <2>. DEFINE h == [m \in 0 .. n + 1 |-> IF m = n + 1 THEN F[g[n]] ELSE g[m]]
    <2>2. /\ \A m \in 0 .. n : h[m] = g[m] /\ g[m] \in S
          /\ h[n + 1] = F[g[n]] /\ F[g[n]] \in S
      BY <2>1
    <2>3. h \in [0 .. n + 1 -> S]
      BY <2>2
    <2>4. ASSUME NEW m \in 1 .. n + 1 PROVE h[m] = F[h[m - 1]]
      <3>1. CASE m = n + 1
        BY <3>1, <2>2
      <3>2. CASE m # n + 1
        BY <3>2, <2>1, <2>2
      <3>. QED
        BY <3>1, <3>2
    <2>. QED
      BY <2>1, <2>2, <2>3, <2>4
  <1>. HIDE DEF P
  <1>3. 0 \in In /\ \A n \in Nat : n \in In => n + 1 \in In
    BY <1>1, <1>2
  <1>. HIDE DEF In
  <1>4. N \in In
    BY <1>3, Induction
  <1>5. P(N)
    BY <1>4 DEF In
  <1>. QED
    BY <1>5 DEF P, IsRounds

\* What holds of the first round and from each to the next holds of all.
LEMMA RoundsStay ==
  ASSUME NEW N \in Nat, NEW S, NEW f, f[0] \in S,
         \A n \in 1 .. N : f[n - 1] \in S => f[n] \in S
  PROVE  \A n \in 0 .. N : f[n] \in S
  <1>. DEFINE In == {n \in Nat : n <= N => f[n] \in S}
  <1>1. 0 \in In
    OBVIOUS
  <1>2. ASSUME NEW n \in Nat, n \in In PROVE n + 1 \in In
    <2>. SUFFICES ASSUME n + 1 <= N PROVE f[n + 1] \in S
      OBVIOUS
    <2>. DEFINE k == n + 1
    <2>1. k \in 1 .. N /\ k - 1 = n /\ n <= N
      OBVIOUS
    <2>2. f[k - 1] \in S
      BY <1>2, <2>1
    <2>. QED
      BY <2>1, <2>2
  <1>. HIDE DEF In
  <1>3. \A n \in Nat : n \in In
    BY <1>1, <1>2, Induction
  <1>. QED
    BY <1>3 DEF In

\* The least set that holds a and what G adds to what it has of J.
LeastClosed(C, a, G, J) ==
  /\ a \subseteq C /\ G[C \cap J] \subseteq C
  /\ \A T : a \subseteq T /\ G[T \cap J] \subseteq T => C \subseteq T
Monotone(G, J, U) ==
  G \in [SUBSET J -> SUBSET U] /\ G[{}] = {} /\ \A s, t \in SUBSET J : s \subseteq t => G[s] \subseteq G[t]
Grows(up, N, U, a, G, J) ==
  /\ up \in [0 .. N -> SUBSET U] /\ up[0] = a
  /\ \A n \in 1 .. N : up[n] = up[n - 1] \cup G[up[n - 1] \cap J]

\* Rounds that only depend on what they have of a finite set J saturate within as many
\* as it has elements: they end in the least set closed under one more.
LEMMA Saturation ==
  ASSUME NEW U, NEW J, IsFiniteSet(J), NEW N, N = Cardinality(J), NEW a,
         NEW G, Monotone(G, J, U), NEW up, Grows(up, N, U, a, G, J)
  PROVE  up[N] \in SUBSET U /\ LeastClosed(up[N], a, G, J)
  <1>. USE DEF Monotone, Grows
  <1>. DEFINE Closed(s) == G[s \cap J] \subseteq s
  <1>1. N \in Nat
    BY FS_CardinalityType
  <1>2. /\ \A n \in 0 .. N : up[n] \in SUBSET U
        /\ \A n \in Nat : n + 1 <= N =>
             up[n] \in SUBSET U /\ up[n + 1] = up[n] \cup G[up[n] \cap J]
        /\ N \in 0 .. N /\ 0 \in 0 .. N
    <2>1. ASSUME NEW n \in Nat, n + 1 <= N
          PROVE  up[n] \in SUBSET U /\ up[n + 1] = up[n] \cup G[up[n] \cap J]
      <3>. DEFINE k == n + 1
      <3>1. n \in 0 .. N /\ k \in 1 .. N /\ k - 1 = n
        BY <1>1, <2>1
      <3>2. up[k] = up[k - 1] \cup G[up[k - 1] \cap J]
        BY <3>1
      <3>. QED
        BY <3>1, <3>2
    <2>2. N \in 0 .. N /\ 0 \in 0 .. N
      BY <1>1
    <2>. QED
      BY <2>1, <2>2
  <1>3. \A T : a \subseteq T /\ G[T \cap J] \subseteq T => up[N] \subseteq T
    <2>1. SUFFICES ASSUME NEW T, a \subseteq T, G[T \cap J] \subseteq T PROVE up[N] \subseteq T
      OBVIOUS
    <2>. DEFINE In == {n \in Nat : n <= N => up[n] \subseteq T}
    <2>2. 0 \in In
      BY <2>1
    <2>3. ASSUME NEW n \in Nat, n \in In PROVE n + 1 \in In
      <3>. SUFFICES ASSUME n + 1 <= N PROVE up[n + 1] \subseteq T
        OBVIOUS
      <3>1. up[n] \subseteq T /\ up[n + 1] = up[n] \cup G[up[n] \cap J]
        BY <2>3, <1>1, <1>2
      <3>2. up[n] \cap J \subseteq T \cap J /\ up[n] \cap J \in SUBSET J /\ T \cap J \in SUBSET J
        BY <3>1
      <3>3. G[up[n] \cap J] \subseteq T
        BY <2>1, <3>2
      <3>. QED
        BY <3>1, <3>3
    <2>. HIDE DEF In
    <2>4. N \in In
      BY <1>1, <2>2, <2>3, Induction
    <2>5. N <= N
      BY <1>1
    <2>. QED
      BY <2>4, <2>5 DEF In
  <1>4. a \subseteq up[N]
    <2>. DEFINE In == {n \in Nat : n <= N => a \subseteq up[n]}
    <2>2. 0 \in In
      OBVIOUS
    <2>3. ASSUME NEW n \in Nat, n \in In PROVE n + 1 \in In
      <3>. SUFFICES ASSUME n + 1 <= N PROVE a \subseteq up[n + 1]
        OBVIOUS
      <3>1. a \subseteq up[n]
        BY <2>3, <1>1
      <3>2. up[n + 1] = up[n] \cup G[up[n] \cap J]
        BY <1>2
      <3>. QED
        BY <3>1, <3>2
    <2>. HIDE DEF In
    <2>4. N \in In
      BY <1>1, <2>2, <2>3, Induction
    <2>5. N <= N
      BY <1>1
    <2>. QED
      BY <2>4, <2>5 DEF In
  <1>5. ASSUME NEW n \in Nat, n <= N, Closed(up[n]) PROVE Closed(up[N])
    <2>. DEFINE In == {k \in Nat : n <= k /\ k <= N => up[k] = up[n]}
    <2>1. 0 \in In
      OBVIOUS
    <2>2. ASSUME NEW k \in Nat, k \in In PROVE k + 1 \in In
      <3>. SUFFICES ASSUME n <= k + 1, k + 1 <= N PROVE up[k + 1] = up[n]
        OBVIOUS
      <3>1. CASE n = k + 1
        BY <3>1
      <3>2. CASE n # k + 1
        <4>1. up[k] = up[n]
          BY <2>2, <3>2, <1>1, <1>5
        <4>2. up[k + 1] = up[k] \cup G[up[k] \cap J]
          BY <1>2
        <4>. QED
          BY <4>1, <4>2, <1>5
      <3>. QED
        BY <3>1, <3>2
    <2>. HIDE DEF In
    <2>3. N \in In
      BY <1>1, <2>1, <2>2, Induction
    <2>4. up[N] = up[n]
      BY <1>1, <1>5, <2>3 DEF In
    <2>. QED
      BY <1>5, <2>4
  <1>6. Closed(up[N])
    <2>. SUFFICES ASSUME ~Closed(up[N]) PROVE FALSE
      OBVIOUS
    <2>1. \A n \in Nat : n <= N => ~Closed(up[n])
      BY <1>5
    <2>. DEFINE size(n) == Cardinality(up[n] \cap J)
                In == {n \in Nat : n <= N => size(n) >= n + 1}
    <2>. HIDE DEF Closed
    <2>2. \A n : /\ IsFiniteSet(up[n] \cap J) /\ size(n) \in Nat /\ size(n) <= N
                 /\ size(n) = 0 <=> up[n] \cap J = {}
      <3>1. \A n : up[n] \cap J \subseteq J
        OBVIOUS
      <3>. QED
        BY <3>1, FS_Subset, FS_CardinalityType, FS_EmptySet
    <2>3. \A n, m : up[n] \cap J \subseteq up[m] \cap J /\ up[n] \cap J # up[m] \cap J
                    => size(n) < size(m)
      <3>1. SUFFICES ASSUME NEW n, NEW m, up[n] \cap J \subseteq up[m] \cap J,
                            up[n] \cap J # up[m] \cap J
                     PROVE  size(n) < size(m)
        OBVIOUS
      <3>2. size(n) <= size(m) /\ (size(m) = size(n) => up[m] \cap J = up[n] \cap J)
        <4>1. IsFiniteSet(up[m] \cap J) /\ up[n] \cap J \in SUBSET (up[m] \cap J)
          BY <2>2, <3>1
        <4>. QED
          BY <4>1, FS_Subset
      <3>3. size(n) \in Nat /\ size(m) \in Nat
        BY <2>2
      <3>. HIDE DEF size
      <3>. QED
        BY <3>1, <3>2, <3>3
    <2>. HIDE DEF size
    <2>4. 0 \in In
      <3>1. up[0] \cap J # {}
        BY <1>1, <2>1 DEF Closed
      <3>2. size(0) # 0 /\ size(0) \in Nat
        BY <2>2, <3>1
      <3>. QED
        BY <3>2
    <2>5. ASSUME NEW n \in Nat, n \in In PROVE n + 1 \in In
      <3>. SUFFICES ASSUME n + 1 <= N PROVE size(n + 1) >= n + 1 + 1
        OBVIOUS
      <3>1. up[n + 1] = up[n] \cup G[up[n] \cap J] /\ ~Closed(up[n + 1])
        <4>. HIDE DEF Monotone, Grows
        <4>1. n + 1 \in Nat
          OBVIOUS
        <4>. QED
          BY <1>2, <2>1, <4>1
      <3>2. up[n] \cap J \subseteq up[n + 1] \cap J
        <4>. HIDE DEF Monotone, Grows
        <4>1. up[n] \subseteq up[n + 1]
          BY <3>1
        <4>. QED
          BY <4>1
      <3>3. up[n] \cap J # up[n + 1] \cap J
        BY <3>1 DEF Closed
      <3>4. size(n) < size(n + 1) /\ size(n) \in Nat /\ size(n + 1) \in Nat
        BY <2>2, <2>3, <3>2, <3>3
      <3>5. size(n) >= n + 1
        BY <2>5, <1>1
      <3>. QED
        BY <3>4, <3>5
    <2>. HIDE DEF In
    <2>6. N \in In
      BY <1>1, <2>4, <2>5, Induction
    <2>7. N <= N
      BY <1>1
    <2>8. size(N) >= N + 1 /\ size(N) <= N /\ size(N) \in Nat
      BY <2>2, <2>6, <2>7 DEF In
    <2>. QED
      BY <1>1, <2>8
  <1>. QED
    BY <1>2, <1>3, <1>4, <1>6 DEF LeastClosed
-----------------------------------------------------------------------------
(* Containment: what the rounds of ContainerChain end in *)

LEMMA FiniteIdentifiers ==
  /\ IsFiniteSet(Groups) /\ IsFiniteSet(Junctions) /\ IsFiniteSet(Endpoints)
  /\ Cardinality(Groups) \in Nat /\ Cardinality(Junctions) \in Nat
  /\ Groups \subseteq Endpoints /\ Junctions \subseteq Endpoints
  <1>1. IsFiniteSet(Nodes \cup Groups) /\ IsFiniteSet(Nodes \cup Groups \cup Junctions)
    BY DocumentAssumption, FS_Union
  <1>. QED
    BY <1>1, DocumentAssumption, FS_CardinalityType DEF Endpoints

\* A document whose containers are groups, or the root: all that is asked of places.
Contained(d) == \A e \in Present(d) : d.within[e] \in Groups \cup {Root}

LEMMA ChainIsLeast ==
  ASSUME NEW d, Contained(d), NEW c \in Groups \cup {Root}
  PROVE  /\ ContainerChain(d, c) \subseteq Groups
         /\ {c} \ {Root} \subseteq ContainerChain(d, c)
         /\ Above(d, ContainerChain(d, c)) \subseteq ContainerChain(d, c)
         /\ \A T : {c} \ {Root} \subseteq T /\ Above(d, T \cap Groups) \subseteq T
                     => ContainerChain(d, c) \subseteq T
  <1>. DEFINE N == Cardinality(Groups)
              a == {c} \ {Root}
              G == [s \in SUBSET Groups |-> Above(d, s)]
              F == [s \in SUBSET Groups |-> s \cup Above(d, s)]
              P(f) == f = [n \in 0 .. N |-> IF n = 0 THEN {c} \ {Root}
                                            ELSE f[n - 1] \cup Above(d, f[n - 1])]
              up == CHOOSE f : P(f)
  <1>1. \A s \in SUBSET Groups : Above(d, s) \in SUBSET Groups
    BY DEF Above, Contained
  <1>2. /\ a \in SUBSET Groups /\ G \in [SUBSET Groups -> SUBSET Groups]
        /\ F \in [SUBSET Groups -> SUBSET Groups] /\ G[{}] = {}
        /\ \A s, t \in SUBSET Groups : s \subseteq t => G[s] \subseteq G[t]
    BY <1>1 DEF Above
  <1>3. PICK f \in [0 .. N -> SUBSET Groups] : f[0] = a /\ \A n \in 1 .. N : f[n] = F[f[n - 1]]
    <2>. DEFINE S == SUBSET Groups
    <2>1. N \in Nat /\ a \in S /\ F \in [S -> S]
      BY <1>2, FiniteIdentifiers
    <2>. HIDE DEF F, a, N, S
    <2>2. \E f : IsRounds(f, N, S, a, F)
      BY <2>1, Rounds
    <2>. QED
      BY <2>2 DEF S, IsRounds
  <1>4. P(f)
    <2>1. ASSUME NEW n \in 1 .. N PROVE f[n] = f[n - 1] \cup Above(d, f[n - 1])
      <3>1. n - 1 \in 0 .. N
        BY FiniteIdentifiers
      <3>2. f[n - 1] \in SUBSET Groups
        BY <3>1
      <3>. QED
        BY <1>3, <3>2
    <2>2. \A n \in 0 .. N : n = 0 \/ n \in 1 .. N
      BY FiniteIdentifiers
    <2>3. f = [n \in 0 .. N |-> f[n]]
      OBVIOUS
    <2>4. \A n \in 0 .. N : f[n] = IF n = 0 THEN {c} \ {Root} ELSE f[n - 1] \cup Above(d, f[n - 1])
      BY <1>3, <2>1, <2>2
    <2>. QED
      BY <2>3, <2>4
  <1>5. P(up)
    <2>. HIDE DEF P
    <2>. QED
      BY <1>4
  <1>6. ContainerChain(d, c) = up[N]
    BY DEF ContainerChain
  <1>. HIDE DEF up
  <1>7. N \in Nat
    BY FiniteIdentifiers
  <1>8. up[0] = a /\ \A n \in 1 .. N : up[n] = up[n - 1] \cup Above(d, up[n - 1])
    <2>1. \A n \in 1 .. N : n \in 0 .. N /\ n # 0
      BY <1>7
    <2>2. 0 \in 0 .. N
      BY <1>7
    <2>. QED
      BY <1>5, <2>1, <2>2
  <1>9. \A n \in 0 .. N : up[n] \in SUBSET Groups
    <2>. DEFINE S == SUBSET Groups
    <2>1. up[0] \in S /\ \A n \in 1 .. N : up[n - 1] \in S => up[n] \in S
      BY <1>1, <1>2, <1>8
    <2>. HIDE DEF S, N
    <2>2. \A n \in 0 .. N : up[n] \in S
      BY <1>7, <2>1, RoundsStay
    <2>. QED
      BY <2>2 DEF S
  <1>10. /\ up \in [0 .. N -> SUBSET Groups]
         /\ \A n \in 1 .. N : up[n] = up[n - 1] \cup G[up[n - 1] \cap Groups]
    <2>1. \A n \in 1 .. N : n - 1 \in 0 .. N
      BY <1>7
    <2>3. up = [n \in 0 .. N |-> up[n]]
      BY <1>5
    <2>4. \A n \in 1 .. N : up[n - 1] \cap Groups = up[n - 1] /\ up[n - 1] \in SUBSET Groups
      BY <1>9, <2>1
    <2>. QED
      BY <1>8, <1>9, <2>3, <2>4
  <1>11. up[N] \in SUBSET Groups /\ LeastClosed(up[N], a, G, Groups)
    <2>1. N = Cardinality(Groups) /\ IsFiniteSet(Groups)
      BY FiniteIdentifiers
    <2>3. Monotone(G, Groups, Groups)
      BY <1>2 DEF Monotone
    <2>. HIDE DEF G, a, N
    <2>4. Grows(up, N, Groups, a, G, Groups)
      BY <1>8, <1>10 DEF Grows
    <2>. QED
      BY <2>1, <2>3, <2>4, Saturation
  <1>12. \A s : G[s \cap Groups] = Above(d, s \cap Groups)
    BY <1>2
  <1>13. up[N] \cap Groups = up[N]
    BY <1>11
  <1>. HIDE DEF G, N
  <1>. QED
    <2>1. up[N] \subseteq Groups /\ {c} \ {Root} \subseteq up[N]
      BY <1>11 DEF LeastClosed
    <2>2. Above(d, up[N]) \subseteq up[N]
      <3>1. G[up[N] \cap Groups] \subseteq up[N]
        BY <1>11 DEF LeastClosed
      <3>2. G[up[N] \cap Groups] = Above(d, up[N])
        BY <1>12, <1>13
      <3>. QED
        BY <3>1, <3>2
    <2>3. \A T : a \subseteq T /\ G[T \cap Groups] \subseteq T => up[N] \subseteq T
      BY <1>11 DEF LeastClosed
    <2>4. ASSUME NEW T, {c} \ {Root} \subseteq T, Above(d, T \cap Groups) \subseteq T
          PROVE  up[N] \subseteq T
      <3>1. G[T \cap Groups] = Above(d, T \cap Groups)
        BY <1>12
      <3>. HIDE DEF N
      <3>. QED
        BY <2>3, <2>4, <3>1
    <2>. QED
      BY <1>6, <2>1, <2>2, <2>4

\* A container, then what is above the one it is in.
LEMMA ChainUnfolds ==
  ASSUME NEW d, Contained(d), NEW c \in Groups \cup {Root}
  PROVE  ContainerChain(d, c) =
           ({c} \ {Root}) \cup (IF c \in Groups \cap Present(d)
                                THEN ContainerChain(d, d.within[c]) ELSE {})
  <1>. DEFINE more == IF c \in Groups \cap Present(d)
                      THEN ContainerChain(d, d.within[c]) ELSE {}
              T == ({c} \ {Root}) \cup more
              C == ContainerChain(d, c)
  <1>1. /\ C \subseteq Groups /\ {c} \ {Root} \subseteq C /\ Above(d, C) \subseteq C
        /\ \A S : {c} \ {Root} \subseteq S /\ Above(d, S \cap Groups) \subseteq S => C \subseteq S
    BY ChainIsLeast
  <1>2. CASE c \in Groups \cap Present(d)
    <2>. DEFINE up == d.within[c]
                D == ContainerChain(d, up)
    <2>1. up \in Groups \cup {Root}
      BY <1>2 DEF Contained
    <2>2. /\ D \subseteq Groups /\ {up} \ {Root} \subseteq D /\ Above(d, D) \subseteq D
          /\ \A S : {up} \ {Root} \subseteq S /\ Above(d, S \cap Groups) \subseteq S => D \subseteq S
      BY <2>1, ChainIsLeast
    <2>3. T = ({c} \ {Root}) \cup D
      BY <1>2
    <2>. HIDE DEF C, D, T
    <2>4. Above(d, T \cap Groups) \subseteq T
      <3>1. \A g \in T \cap Groups : g = c \/ g \in D
        BY <2>3
      <3>. QED
        BY <2>2, <2>3, <3>1 DEF Above
    <2>5. C \subseteq T
      BY <1>1, <2>3, <2>4
    <2>6. {up} \ {Root} \subseteq C
      <3>1. c \in C
        BY <1>1, <1>2, DocumentAssumption
      <3>. QED
        BY <1>1, <1>2, <3>1 DEF Above
    <2>7. D \subseteq C
      <3>1. C \cap Groups = C
        BY <1>1
      <3>. QED
        BY <1>1, <2>2, <2>6, <3>1
    <2>8. C = T
      BY <1>1, <2>3, <2>5, <2>7
    <2>. QED
      BY <2>8 DEF C, T
  <1>3. CASE c \notin Groups \cap Present(d)
    <2>1. T = {c} \ {Root}
      BY <1>3
    <2>2. Above(d, T \cap Groups) \subseteq T
      BY <1>3, <2>1 DEF Above
    <2>. HIDE DEF C, T
    <2>3. C = T
      BY <1>1, <2>1, <2>2
    <2>. QED
      BY <2>3 DEF C, T
  <1>. QED
    BY <1>2, <1>3

\* What is above a group of the chain is in the chain.
LEMMA ChainUpward ==
  ASSUME NEW d, Contained(d), NEW c \in Groups \cup {Root}, NEW g \in ContainerChain(d, c)
  PROVE  g \in Groups /\ ContainerChain(d, g) \subseteq ContainerChain(d, c)
  <1>. DEFINE C == ContainerChain(d, c)
  <1>1. C \subseteq Groups /\ Above(d, C) \subseteq C /\ g \in Groups
    BY ChainIsLeast
  <1>2. C \cap Groups = C /\ {g} \ {Root} \subseteq C
    BY <1>1
  <1>. HIDE DEF C
  <1>3. Above(d, C \cap Groups) \subseteq C
    BY <1>1, <1>2
  <1>4. ContainerChain(d, g) \subseteq C
    BY <1>1, <1>2, <1>3, ChainIsLeast
  <1>. QED
    BY <1>1, <1>4 DEF C

\* Of two groups in one chain, one is above the other.
LEMMA ChainIsLinear ==
  ASSUME NEW d, Contained(d), NEW c \in Groups \cup {Root},
         NEW g \in ContainerChain(d, c), NEW h \in ContainerChain(d, c)
  PROVE  g \in ContainerChain(d, h) \/ h \in ContainerChain(d, g)
  <1>. DEFINE C == ContainerChain(d, c)
              T == {x \in C : \A y \in C : y \in ContainerChain(d, x) \/ x \in ContainerChain(d, y)}
  <1>1. /\ C \subseteq Groups /\ {c} \ {Root} \subseteq C /\ Above(d, C) \subseteq C
        /\ \A S : {c} \ {Root} \subseteq S /\ Above(d, S \cap Groups) \subseteq S => C \subseteq S
    BY ChainIsLeast
  <1>2. {c} \ {Root} \subseteq T
    BY <1>1
  <1>3. ASSUME NEW x \in T, x \in Present(d), d.within[x] # Root PROVE d.within[x] \in T
    <2>. DEFINE p == d.within[x]
    <2>1. x \in C /\ x \in Groups /\ p \in Groups \cup {Root} /\ p \in C
      BY <1>1, <1>3 DEF Above, Contained
    <2>2. ContainerChain(d, x) = ({x} \ {Root}) \cup ContainerChain(d, p)
      BY <1>3, <2>1, ChainUnfolds
    <2>3. ASSUME NEW y \in C PROVE y \in ContainerChain(d, p) \/ p \in ContainerChain(d, y)
      <3>1. y \in Groups
        BY <1>1
      <3>2. p \in ContainerChain(d, x)
        <4>1. p \in {p} \ {Root} /\ p \in Groups
          BY <1>3, <2>1
        <4>2. {p} \ {Root} \subseteq ContainerChain(d, p)
          BY <2>1, ChainIsLeast
        <4>. QED
          BY <2>2, <4>1, <4>2
      <3>3. CASE y \in ContainerChain(d, x)
        <4>1. y = x \/ y \in ContainerChain(d, p)
          BY <2>2, <3>3
        <4>. QED
          BY <3>2, <4>1
      <3>4. CASE x \in ContainerChain(d, y)
        <4>1. ContainerChain(d, x) \subseteq ContainerChain(d, y)
          BY <3>1, <3>4, ChainUpward
        <4>. QED
          BY <3>2, <4>1
      <3>. QED
        BY <1>3, <3>3, <3>4
    <2>. QED
      BY <2>1, <2>3
  <1>. HIDE DEF T
  <1>4. Above(d, T \cap Groups) \subseteq T
    BY <1>3 DEF Above
  <1>. HIDE DEF C
  <1>5. C \subseteq T
    BY <1>1, <1>2, <1>4
  <1>6. g \in T /\ h \in C
    BY <1>5 DEF C
  <1>. QED
    BY <1>6 DEF T

\* Containers that are there.
WellPlaced(d) == \A e \in Present(d) : d.within[e] \in (Present(d) \cap Groups) \cup {Root}

LEMMA ChainIsPresent ==
  ASSUME NEW d, WellPlaced(d), NEW c \in (Present(d) \cap Groups) \cup {Root}
  PROVE  Contained(d) /\ c \in Groups \cup {Root} /\ ContainerChain(d, c) \subseteq Present(d)
  <1>. DEFINE T == Present(d) \cap Groups
  <1>1. Contained(d) /\ c \in Groups \cup {Root}
    BY DEF Contained, WellPlaced
  <1>2. {c} \ {Root} \subseteq T /\ Above(d, T \cap Groups) \subseteq T
    BY DEF Above, WellPlaced
  <1>. HIDE DEF T
  <1>3. ContainerChain(d, c) \subseteq T
    BY <1>1, <1>2, ChainIsLeast
  <1>. QED
    BY <1>1, <1>3 DEF T

\* Containers above one container are above one another: the deepest has them all above it.
LEMMA DeepestExists ==
  ASSUME NEW d, Contained(d), NEW c \in Groups \cup {Root},
         NEW shared, shared \subseteq ContainerChain(d, c), shared # {}
  PROVE  \E g \in shared : shared \subseteq ContainerChain(d, g)
  <1>. DEFINE depth(g) == Cardinality(ContainerChain(d, g))
              N == Cardinality(Groups)
              heights == {N - depth(g) : g \in shared}
  <1>1. \A g \in shared : g \in Groups
    BY ChainIsLeast
  <1>2. \A g \in shared : /\ IsFiniteSet(ContainerChain(d, g)) /\ depth(g) \in Nat
                          /\ depth(g) <= N /\ N \in Nat
    <2>1. \A g \in shared : ContainerChain(d, g) \in SUBSET Groups
      BY <1>1, ChainIsLeast
    <2>. QED
      BY <2>1, FiniteIdentifiers, FS_Subset, FS_CardinalityType
  <1>3. heights \in SUBSET Nat /\ heights # {}
    <2>. HIDE DEF depth, N
    <2>1. \A g \in shared : N - depth(g) \in Nat
      BY <1>2
    <2>. QED
      BY <2>1
  <1>4. PICK g \in shared : \A h \in shared : N - depth(g) <= N - depth(h)
    <2>. HIDE DEF depth, N
    <2>1. PICK k \in heights : \A m \in heights : k <= m
      <3>. HIDE DEF heights
      <3>. QED
        BY <1>3, Smallest
    <2>2. PICK g \in shared : k = N - depth(g)
      BY <2>1
    <2>3. \A h \in shared : N - depth(h) \in heights
      OBVIOUS
    <2>. QED
      BY <2>1, <2>2, <2>3
  <1>5. ASSUME NEW h \in shared PROVE h \in ContainerChain(d, g)
    <2>1. depth(h) <= depth(g)
      <3>. HIDE DEF depth, N
      <3>. QED
        BY <1>2, <1>4
    <2>2. CASE g \in ContainerChain(d, h)
      <3>1. ContainerChain(d, g) \in SUBSET ContainerChain(d, h)
        BY <1>1, <2>2, ChainUpward
      <3>2. depth(g) <= depth(h)
            /\ (depth(h) = depth(g) => ContainerChain(d, h) = ContainerChain(d, g))
        BY <1>2, <3>1, FS_Subset
      <3>3. depth(h) = depth(g)
        <4>1. depth(h) \in Nat /\ depth(g) \in Nat
          BY <1>2
        <4>. HIDE DEF depth
        <4>. QED
          BY <2>1, <3>2, <4>1
      <3>4. h \in ContainerChain(d, h)
        <4>1. {h} \ {Root} \subseteq ContainerChain(d, h) /\ h \in Groups
          BY <1>1, ChainIsLeast
        <4>. QED
          BY <4>1, DocumentAssumption
      <3>. QED
        BY <3>2, <3>3, <3>4
    <2>3. g \in ContainerChain(d, h) \/ h \in ContainerChain(d, g)
      BY ChainIsLinear
    <2>. QED
      BY <2>2, <2>3
  <1>. QED
    BY <1>5

\* The common container of some is the deepest there is: it has above it, itself
\* included, the groups that each of them has above it.
LEMMA CommonContainerIs ==
  ASSUME NEW d, WellPlaced(d), NEW cs, cs \subseteq (Present(d) \cap Groups) \cup {Root}, cs # {}
  PROVE  /\ CommonContainer(d, cs) \in (Present(d) \cap Groups) \cup {Root}
         /\ ContainerChain(d, CommonContainer(d, cs))
              = {g \in Groups : \A c \in cs : g \in ContainerChain(d, c)}
  <1>. DEFINE shared == {g \in Groups \cap Present(d) : \A c \in cs : g \in ContainerChain(d, c)}
              deepest == CHOOSE g \in shared : shared \subseteq ContainerChain(d, g)
  <1>1. PICK c \in cs : TRUE
    OBVIOUS
  <1>2. /\ Contained(d)
        /\ \A x \in cs : x \in Groups \cup {Root} /\ ContainerChain(d, x) \subseteq Present(d)
    BY ChainIsPresent DEF Contained, WellPlaced
  <1>3. shared = {g \in Groups : \A x \in cs : g \in ContainerChain(d, x)}
    BY <1>1, <1>2
  <1>4. CommonContainer(d, cs) = IF shared = {} THEN Root ELSE deepest
    BY DEF CommonContainer
  <1>5. CASE shared = {}
    <2>1. ContainerChain(d, Root) = {}
      <3>1. Root \notin Groups /\ Root \in Groups \cup {Root}
        BY DocumentAssumption
      <3>. QED
        BY <1>2, <3>1, ChainUnfolds
    <2>. HIDE DEF shared
    <2>. QED
      BY <1>3, <1>4, <1>5, <2>1
  <1>6. CASE shared # {}
    <2>1. \E g \in shared : shared \subseteq ContainerChain(d, g)
      <3>1. shared \subseteq ContainerChain(d, c)
        OBVIOUS
      <3>. HIDE DEF shared
      <3>. QED
        BY <1>1, <1>2, <1>6, <3>1, DeepestExists
    <2>2. deepest \in shared /\ shared \subseteq ContainerChain(d, deepest)
      <3>. HIDE DEF shared
      <3>. QED
        BY <2>1
    <2>. HIDE DEF deepest
    <2>3. deepest \in Groups \cap Present(d)
      BY <2>2
    <2>4. ContainerChain(d, deepest) \subseteq shared
      <3>1. \A x \in cs : ContainerChain(d, deepest) \subseteq ContainerChain(d, x)
        BY <1>2, <2>2, ChainUpward
      <3>2. ContainerChain(d, deepest) \subseteq Groups \cap Present(d)
        BY <1>2, <2>3, ChainIsPresent, ChainIsLeast
      <3>. QED
        BY <3>1, <3>2
    <2>5. CommonContainer(d, cs) = deepest
      BY <1>4, <1>6
    <2>6. ContainerChain(d, deepest) = shared
      BY <2>2, <2>4
    <2>. HIDE DEF shared
    <2>. QED
      BY <1>3, <2>3, <2>5, <2>6
  <1>. QED
    BY <1>5, <1>6

\* What is above a container depends on the containers of the groups only.
LEMMA ChainDependsOnGroups ==
  ASSUME NEW d, NEW e, Contained(d), Contained(e), NEW c \in Groups \cup {Root},
         Present(d) \cap Groups = Present(e) \cap Groups,
         \A g \in Present(d) \cap Groups : d.within[g] = e.within[g]
  PROVE  ContainerChain(d, c) = ContainerChain(e, c)
  <1>1. \A S : Above(d, S \cap Groups) = Above(e, S \cap Groups)
    <2>1. \A S : (S \cap Groups) \cap Present(d) = (S \cap Groups) \cap Present(e)
      OBVIOUS
    <2>2. \A S : \A g \in (S \cap Groups) \cap Present(d) : d.within[g] = e.within[g]
      OBVIOUS
    <2>. QED
      BY <2>1, <2>2 DEF Above
  <1>. DEFINE C == ContainerChain(d, c)
              D == ContainerChain(e, c)
  <1>2. /\ C \subseteq Groups /\ {c} \ {Root} \subseteq C /\ Above(d, C) \subseteq C
        /\ \A T : {c} \ {Root} \subseteq T /\ Above(d, T \cap Groups) \subseteq T => C \subseteq T
    BY ChainIsLeast
  <1>3. /\ D \subseteq Groups /\ {c} \ {Root} \subseteq D /\ Above(e, D) \subseteq D
        /\ \A T : {c} \ {Root} \subseteq T /\ Above(e, T \cap Groups) \subseteq T => D \subseteq T
    BY ChainIsLeast
  <1>. HIDE DEF C, D
  <1>4. C \cap Groups = C /\ D \cap Groups = D
    BY <1>2, <1>3
  <1>5. C \subseteq D
    BY <1>1, <1>2, <1>3, <1>4
  <1>6. D \subseteq C
    BY <1>1, <1>2, <1>3, <1>4
  <1>7. C = D
    BY <1>5, <1>6
  <1>. QED
    BY <1>7 DEF C, D

-----------------------------------------------------------------------------
(* What a junction reaches: what the rounds of Reached end in *)

EndsKnown(d) == \A r \in Ids(d) : d.relations[r].from \in Endpoints /\ d.relations[r].to \in Endpoints

LEMMA BeyondIsLeast ==
  ASSUME NEW d, EndsKnown(d), NEW j
  PROVE  /\ Beyond(d, j) \subseteq Endpoints /\ Targets(d, j) \subseteq Beyond(d, j)
         /\ \A k \in Beyond(d, j) \cap Junctions : Targets(d, k) \subseteq Beyond(d, j)
         /\ \A T : Targets(d, j) \subseteq T /\ (\A k \in T \cap Junctions : Targets(d, k) \subseteq T)
                     => Beyond(d, j) \subseteq T
  <1>. DEFINE N == Cardinality(Junctions)
              a == Onward(d, Ids(d), {j})
              G == [s \in SUBSET Junctions |-> Onward(d, Ids(d), s)]
              F == [s \in SUBSET Endpoints |-> s \cup Onward(d, Ids(d), s \cap Junctions)]
              P(f) == f = [n \in 0 .. N |->
                             IF n = 0 THEN Onward(d, Ids(d), {j})
                             ELSE f[n - 1] \cup Onward(d, Ids(d), f[n - 1] \cap Junctions)]
              up == CHOOSE f : P(f)
  <1>1. \A s : Onward(d, Ids(d), s) \in SUBSET Endpoints
    BY DEF Onward, EndsKnown
  <1>2. a \in SUBSET Endpoints
    BY <1>1
  <1>3. Monotone(G, Junctions, Endpoints)
    BY <1>1 DEF Monotone, Onward
  <1>4. F \in [SUBSET Endpoints -> SUBSET Endpoints]
    BY <1>1
  <1>5. N \in Nat /\ IsFiniteSet(Junctions)
    BY FiniteIdentifiers
  <1>6. PICK f : IsRounds(f, N, SUBSET Endpoints, a, F)
    <2>. DEFINE S == SUBSET Endpoints
    <2>1. a \in S /\ F \in [S -> S]
      BY <1>2, <1>4
    <2>. HIDE DEF F, a, N, S
    <2>2. \E f : IsRounds(f, N, S, a, F)
      BY <1>5, <2>1, Rounds
    <2>. QED
      BY <2>2 DEF S
  <1>7. P(f)
    <2>1. ASSUME NEW n \in 1 .. N
          PROVE  f[n] = f[n - 1] \cup Onward(d, Ids(d), f[n - 1] \cap Junctions)
      <3>1. n - 1 \in 0 .. N
        BY <1>5
      <3>2. f[n - 1] \in SUBSET Endpoints /\ f[n] = F[f[n - 1]]
        BY <1>6, <3>1 DEF IsRounds
      <3>. QED
        BY <3>2
    <2>2. \A n \in 0 .. N : n = 0 \/ n \in 1 .. N
      BY <1>5
    <2>3. f = [n \in 0 .. N |-> f[n]] /\ f[0] = a
      BY <1>6 DEF IsRounds
    <2>4. \A n \in 0 .. N :
            f[n] = IF n = 0 THEN Onward(d, Ids(d), {j})
                   ELSE f[n - 1] \cup Onward(d, Ids(d), f[n - 1] \cap Junctions)
      BY <2>1, <2>2, <2>3
    <2>. QED
      BY <2>3, <2>4
  <1>8. P(up)
    <2>. HIDE DEF P
    <2>. QED
      BY <1>7
  <1>9. Beyond(d, j) = up[N]
    BY DEF Beyond, Reached
  <1>. HIDE DEF up
  <1>10. /\ up[0] = a /\ up = [n \in 0 .. N |-> up[n]]
         /\ \A n \in 1 .. N : up[n] = up[n - 1] \cup Onward(d, Ids(d), up[n - 1] \cap Junctions)
    <2>1. \A n \in 1 .. N : n \in 0 .. N /\ n # 0
      BY <1>5
    <2>2. 0 \in 0 .. N
      BY <1>5
    <2>. QED
      BY <1>8, <2>1, <2>2
  <1>11. \A n \in 0 .. N : up[n] \in SUBSET Endpoints
    <2>. DEFINE S == SUBSET Endpoints
    <2>1. up[0] \in S /\ \A n \in 1 .. N : up[n - 1] \in S => up[n] \in S
      BY <1>1, <1>2, <1>10
    <2>. HIDE DEF S, N
    <2>2. \A n \in 0 .. N : up[n] \in S
      BY <1>5, <2>1, RoundsStay
    <2>. QED
      BY <2>2 DEF S
  <1>12. Grows(up, N, Endpoints, a, G, Junctions)
    <2>2. up \in [0 .. N -> SUBSET Endpoints]
      BY <1>10, <1>11
    <2>3. \A s : G[s \cap Junctions] = Onward(d, Ids(d), s \cap Junctions)
      OBVIOUS
    <2>. HIDE DEF G, a, N
    <2>. QED
      BY <1>10, <2>2, <2>3 DEF Grows
  <1>13. up[N] \in SUBSET Endpoints /\ LeastClosed(up[N], a, G, Junctions)
    <2>1. N = Cardinality(Junctions)
      OBVIOUS
    <2>. HIDE DEF G, a, N
    <2>. QED
      BY <1>3, <1>5, <1>12, <2>1, Saturation
  <1>14. a = Targets(d, j)
    BY DEF Onward, Targets
  <1>15. \A s : G[s \cap Junctions] = Onward(d, Ids(d), s \cap Junctions)
    OBVIOUS
  <1>. HIDE DEF G, a, N
  <1>16. Beyond(d, j) \subseteq Endpoints /\ Targets(d, j) \subseteq Beyond(d, j)
    BY <1>9, <1>13, <1>14 DEF LeastClosed
  <1>17. \A k \in Beyond(d, j) \cap Junctions : Targets(d, k) \subseteq Beyond(d, j)
    <2>1. Onward(d, Ids(d), up[N] \cap Junctions) \subseteq up[N]
      BY <1>13, <1>15 DEF LeastClosed
    <2>. QED
      BY <1>9, <2>1 DEF Onward, Targets
  <1>18. ASSUME NEW T, Targets(d, j) \subseteq T,
                \A k \in T \cap Junctions : Targets(d, k) \subseteq T
         PROVE  Beyond(d, j) \subseteq T
    <2>1. Onward(d, Ids(d), T \cap Junctions) \subseteq T
      BY <1>18 DEF Onward, Targets
    <2>2. G[T \cap Junctions] \subseteq T /\ a \subseteq T
      BY <1>14, <1>15, <1>18, <2>1
    <2>. QED
      BY <1>9, <1>13, <2>2 DEF LeastClosed
  <1>. QED
    BY <1>16, <1>17, <1>18

LEMMA BeyondOnward ==
  ASSUME NEW d, EndsKnown(d), NEW j, NEW k \in Beyond(d, j) \cap Junctions
  PROVE  Targets(d, k) \subseteq Beyond(d, j) /\ Beyond(d, k) \subseteq Beyond(d, j)
  <1>. DEFINE T == Beyond(d, j)
  <1>1. Targets(d, k) \subseteq T /\ \A i \in T \cap Junctions : Targets(d, i) \subseteq T
    BY BeyondIsLeast
  <1>. HIDE DEF T
  <1>2. Beyond(d, k) \subseteq T
    BY <1>1, BeyondIsLeast
  <1>. QED
    BY <1>1, <1>2 DEF T

\* Its targets, then what the junctions among them reach.
LEMMA BeyondUnfolds ==
  ASSUME NEW d, EndsKnown(d), NEW j
  PROVE  Beyond(d, j) =
           Targets(d, j) \cup UNION {Beyond(d, k) : k \in Targets(d, j) \cap Junctions}
  <1>. DEFINE T == Targets(d, j) \cup UNION {Beyond(d, k) : k \in Targets(d, j) \cap Junctions}
  <1>1. Targets(d, j) \subseteq Beyond(d, j)
    BY BeyondIsLeast
  <1>2. T \subseteq Beyond(d, j)
    <2>1. \A k \in Targets(d, j) \cap Junctions : Beyond(d, k) \subseteq Beyond(d, j)
      BY <1>1, BeyondOnward
    <2>. QED
      BY <1>1, <2>1
  <1>3. ASSUME NEW i \in T \cap Junctions PROVE Targets(d, i) \subseteq T
    <2>1. CASE i \in Targets(d, j)
      <3>1. Targets(d, i) \subseteq Beyond(d, i)
        BY BeyondIsLeast
      <3>. QED
        BY <2>1, <3>1
    <2>2. ASSUME NEW k \in Targets(d, j) \cap Junctions, i \in Beyond(d, k)
          PROVE  Targets(d, i) \subseteq T
      <3>1. Targets(d, i) \subseteq Beyond(d, k)
        BY <2>2, BeyondOnward
      <3>. QED
        BY <3>1
    <2>. QED
      BY <2>1, <2>2
  <1>4. Targets(d, j) \subseteq T
    OBVIOUS
  <1>. HIDE DEF T
  <1>5. Beyond(d, j) \subseteq T
    BY <1>3, <1>4, BeyondIsLeast
  <1>6. Beyond(d, j) = T
    BY <1>2, <1>5
  <1>. QED
    BY <1>6 DEF T

\* It depends on the relations only.
LEMMA BeyondDependsOnRelations ==
  ASSUME NEW d, NEW e, EndsKnown(d), d.relations = e.relations
  PROVE  /\ Ids(e) = Ids(d) /\ EndsKnown(e)
         /\ \A j : Targets(e, j) = Targets(d, j) /\ Beyond(e, j) = Beyond(d, j)
  <1>1. /\ Ids(e) = Ids(d) /\ EndsKnown(e)
        /\ \A j : Targets(e, j) = Targets(d, j)
    BY DEF Ids, EndsKnown, Targets
  <1>2. ASSUME NEW j PROVE Beyond(e, j) = Beyond(d, j)
    <2>. DEFINE D == Beyond(d, j)
                E == Beyond(e, j)
    <2>1. /\ Targets(d, j) \subseteq D /\ \A k \in D \cap Junctions : Targets(d, k) \subseteq D
          /\ Targets(e, j) \subseteq E /\ \A k \in E \cap Junctions : Targets(e, k) \subseteq E
      BY <1>1, BeyondIsLeast
    <2>. HIDE DEF D, E
    <2>2. Beyond(d, j) \subseteq E
      BY <1>1, <2>1, BeyondIsLeast
    <2>3. Beyond(e, j) \subseteq D
      BY <1>1, <2>1, BeyondIsLeast
    <2>. QED
      BY <2>2, <2>3 DEF D, E
  <1>. QED
    BY <1>1, <1>2

\* A junction through which no cycle of junctions is reached.
Acyclic(d, j) == \A k \in (Beyond(d, j) \cap Junctions) \cup {j} : ~InCycle(d, k)
Inner(d, j) == Cardinality(Beyond(d, j) \cap Junctions)

\* The junctions it leads to reach fewer junctions than it does.
LEMMA InnerShrinks ==
  ASSUME NEW d, EndsKnown(d), NEW j \in Junctions, Acyclic(d, j)
  PROVE  /\ Inner(d, j) \in Nat /\ Inner(d, j) < Cardinality(Junctions)
         /\ \A k \in Targets(d, j) \cap Junctions :
              Acyclic(d, k) /\ Inner(d, k) \in Nat /\ Inner(d, k) < Inner(d, j)
  <1>1. \A S, T : IsFiniteSet(T) /\ S \subseteq T /\ S # T =>
          /\ Cardinality(S) \in Nat /\ Cardinality(T) \in Nat /\ Cardinality(S) < Cardinality(T)
    <2>1. SUFFICES ASSUME NEW S, NEW T, IsFiniteSet(T), S \subseteq T, S # T
                   PROVE  /\ Cardinality(S) \in Nat /\ Cardinality(T) \in Nat
                          /\ Cardinality(S) < Cardinality(T)
      OBVIOUS
    <2>2. S \in SUBSET T
      BY <2>1
    <2>3. IsFiniteSet(S) /\ Cardinality(S) <= Cardinality(T) /\ Cardinality(T) # Cardinality(S)
      BY <2>1, <2>2, FS_Subset
    <2>4. Cardinality(S) \in Nat /\ Cardinality(T) \in Nat
      BY <2>1, <2>3, FS_CardinalityType
    <2>. QED
      BY <2>3, <2>4
  <1>2. j \notin Beyond(d, j)
    BY DEF Acyclic, InCycle
  <1>3. Beyond(d, j) \cap Junctions # Junctions /\ IsFiniteSet(Junctions)
    BY <1>2, FiniteIdentifiers
  <1>4. ASSUME NEW k \in Targets(d, j) \cap Junctions
        PROVE  Acyclic(d, k) /\ Inner(d, k) \in Nat /\ Inner(d, k) < Inner(d, j)
    <2>1. k \in Beyond(d, j) \cap Junctions
      BY BeyondIsLeast
    <2>2. Beyond(d, k) \subseteq Beyond(d, j)
      BY <2>1, BeyondOnward
    <2>3. k \notin Beyond(d, k)
      BY <2>1 DEF Acyclic, InCycle
    <2>4. Acyclic(d, k)
      BY <2>1, <2>2 DEF Acyclic
    <2>5. IsFiniteSet(Beyond(d, j) \cap Junctions)
      <3>1. Beyond(d, j) \cap Junctions \in SUBSET Junctions
        OBVIOUS
      <3>. QED
        BY <1>3, <3>1, FS_Subset
    <2>6. /\ Beyond(d, k) \cap Junctions \subseteq Beyond(d, j) \cap Junctions
          /\ Beyond(d, k) \cap Junctions # Beyond(d, j) \cap Junctions
      BY <2>1, <2>2, <2>3
    <2>. QED
      BY <1>1, <2>4, <2>5, <2>6 DEF Inner
  <1>5. Inner(d, j) \in Nat /\ Inner(d, j) < Cardinality(Junctions)
    BY <1>1, <1>3 DEF Inner
  <1>. QED
    BY <1>4, <1>5

-----------------------------------------------------------------------------
(* Placing the junctions *)

\* A document in which nothing refers to what is not there.
Sound(d) ==
  /\ IsDocument(d) /\ WellPlaced(d)
  /\ \A r \in Ids(d) : d.relations[r].from \in Present(d) /\ d.relations[r].to \in Present(d)
Places(d) == [Present(d) -> (Present(d) \cap Groups) \cup {Root}]

LEMMA SoundFacts ==
  ASSUME NEW d, Sound(d)
  PROVE  /\ Contained(d) /\ EndsKnown(d) /\ d.within \in Places(d) /\ Present(d) \subseteq Endpoints
         /\ \A j : Targets(d, j) \subseteq Present(d)
  <1>1. Contained(d) /\ EndsKnown(d) /\ Present(d) \subseteq Endpoints
    BY DEF Sound, WellPlaced, Contained, EndsKnown, IsDocument
  <1>2. \A j : Targets(d, j) \subseteq Present(d)
    BY DEF Sound, Targets
  <1>3. d.within \in Places(d)
    BY DEF Sound, IsDocument, WellPlaced, Places
  <1>. QED
    BY <1>1, <1>2, <1>3

LEMMA ReadableIsSound ==
  ASSUME NEW d, IsDocument(d), Readable(d)
  PROVE  Sound(d)
  <1>1. Valid(d)
    BY DEF Readable
  <1>2. WellPlaced(d)
    BY <1>1 DEF Valid, WellPlaced
  <1>3. \A r \in Ids(d) : d.relations[r].from \in Present(d) /\ d.relations[r].to \in Present(d)
    BY <1>1 DEF Valid
  <1>. QED
    BY <1>2, <1>3 DEF Sound

LEMMA GatheredPlaces ==
  ASSUME NEW d, Sound(d), NEW places \in Places(d)
  PROVE  Gathered(d, places) \in Places(d)
  <1>1. ASSUME NEW e \in Present(d), Targets(d, e) # {}
        PROVE  CommonContainer(d, {places[t] : t \in Targets(d, e)})
                 \in (Present(d) \cap Groups) \cup {Root}
    <2>. DEFINE cs == {places[t] : t \in Targets(d, e)}
    <2>1. \A t \in Targets(d, e) : places[t] \in (Present(d) \cap Groups) \cup {Root}
      BY SoundFacts DEF Places
    <2>2. cs \subseteq (Present(d) \cap Groups) \cup {Root} /\ cs # {} /\ WellPlaced(d)
      BY <1>1, <2>1 DEF Sound
    <2>. HIDE DEF cs
    <2>3. CommonContainer(d, cs) \in (Present(d) \cap Groups) \cup {Root}
      BY <2>2, CommonContainerIs
    <2>. QED
      BY <2>3 DEF cs
  <1>2. \A e \in Present(d) : d.within[e] \in (Present(d) \cap Groups) \cup {Root}
    BY DEF Sound, WellPlaced
  <1>. QED
    BY <1>1, <1>2 DEF Gathered, Places

\* The rounds of PlaceJunctions.
PlaceRounds(d, place) ==
  LET N == Cardinality(Junctions) IN
  /\ \A n \in 0 .. N : place[n] \in Places(d)
  /\ place[0] = d.within
  /\ \A n \in 1 .. N : place[n] = Gathered(d, place[n - 1])
  /\ PlaceJunctions(d) = [d EXCEPT !.within = place[N]]

LEMMA PlaceRoundsExist ==
  ASSUME NEW d, Sound(d)
  PROVE  \E place : PlaceRounds(d, place)
  <1>. DEFINE N == Cardinality(Junctions)
              S == Places(d)
              F == [places \in S |-> Gathered(d, places)]
              P(f) == f = [n \in 0 .. N |-> IF n = 0 THEN d.within ELSE Gathered(d, f[n - 1])]
              place == CHOOSE f : P(f)
  <1>1. N \in Nat /\ d.within \in S /\ F \in [S -> S]
    BY FiniteIdentifiers, SoundFacts, GatheredPlaces
  <1>2. PICK f : IsRounds(f, N, S, d.within, F)
    <2>. HIDE DEF N, S, F
    <2>. QED
      BY <1>1, Rounds
  <1>3. P(f)
    <2>1. ASSUME NEW n \in 1 .. N PROVE f[n] = Gathered(d, f[n - 1])
      <3>1. n - 1 \in 0 .. N
        BY <1>1
      <3>. HIDE DEF N, S
      <3>2. f[n - 1] \in S /\ f[n] = F[f[n - 1]]
        BY <1>2, <3>1 DEF IsRounds
      <3>. QED
        BY <3>2
    <2>2. \A n \in 0 .. N : n = 0 \/ n \in 1 .. N
      BY <1>1
    <2>3. f = [n \in 0 .. N |-> f[n]] /\ f[0] = d.within
      BY <1>2 DEF IsRounds
    <2>4. \A n \in 0 .. N : f[n] = IF n = 0 THEN d.within ELSE Gathered(d, f[n - 1])
      BY <2>1, <2>2, <2>3
    <2>. QED
      BY <2>3, <2>4
  <1>4. P(place)
    <2>. HIDE DEF P
    <2>. QED
      BY <1>3
  <1>5. PlaceJunctions(d) = [d EXCEPT !.within = place[N]]
    BY DEF PlaceJunctions
  <1>. HIDE DEF place
  <1>6. place[0] = d.within /\ \A n \in 1 .. N : place[n] = Gathered(d, place[n - 1])
    <2>1. \A n \in 1 .. N : n \in 0 .. N /\ n # 0
      BY <1>1
    <2>2. 0 \in 0 .. N
      BY <1>1
    <2>. QED
      BY <1>4, <2>1, <2>2
  <1>7. \A n \in 0 .. N : place[n] \in S
    <2>1. \A n \in 1 .. N : place[n - 1] \in S => place[n] \in S
      BY <1>6, GatheredPlaces
    <2>2. place[0] \in S
      BY <1>1, <1>6
    <2>. HIDE DEF S, N
    <2>. QED
      BY <1>1, <2>1, <2>2, RoundsStay
  <1>. QED
    BY <1>5, <1>6, <1>7 DEF PlaceRounds

\* The junctions move, and nothing else.
LEMMA PlacedDocument ==
  ASSUME NEW d, Sound(d)
  PROVE  /\ Sound(PlaceJunctions(d))
         /\ Present(PlaceJunctions(d)) = Present(d)
         /\ PlaceJunctions(d).relations = d.relations
         /\ \A e \in Present(d) :
              e \notin Junctions \/ Targets(d, e) = {} => PlaceJunctions(d).within[e] = d.within[e]
         /\ \A c \in Groups \cup {Root} :
              ContainerChain(PlaceJunctions(d), c) = ContainerChain(d, c)
  <1>. DEFINE N == Cardinality(Junctions)
              p == PlaceJunctions(d)
  <1>1. PICK place : PlaceRounds(d, place)
    BY PlaceRoundsExist
  <1>2. N \in Nat /\ N \in 0 .. N
    BY FiniteIdentifiers
  <1>3. place[N] \in Places(d) /\ p = [d EXCEPT !.within = place[N]]
    BY <1>1, <1>2 DEF PlaceRounds
  <1>4. d = [within |-> d.within, relations |-> d.relations]
    BY DEF Sound, IsDocument
  <1>5. p = [within |-> place[N], relations |-> d.relations]
    BY <1>3, <1>4
  <1>6. Present(p) = Present(d) /\ p.relations = d.relations /\ p.within = place[N] /\ Ids(p) = Ids(d)
    BY <1>3, <1>5 DEF Places, Present, Ids
  <1>7. ASSUME NEW e \in Present(d), e \notin Junctions \/ Targets(d, e) = {}
        PROVE  place[N][e] = d.within[e]
    <2>1. CASE N = 0
      BY <1>1, <2>1 DEF PlaceRounds
    <2>2. CASE N # 0
      <3>1. N \in 1 .. N
        BY <1>2, <2>2
      <3>2. place[N] = Gathered(d, place[N - 1])
        BY <1>1, <3>1 DEF PlaceRounds
      <3>. QED
        BY <1>7, <3>2 DEF Gathered
    <2>. QED
      BY <2>1, <2>2
  <1>. HIDE DEF p
  <1>8. Sound(p)
    <2>1. WellPlaced(p)
      BY <1>3, <1>6 DEF WellPlaced, Places
    <2>2. IsDocument(p)
      <3>1. Present(p) \subseteq Endpoints /\ Ids(p) \subseteq RelationIds
            /\ p.relations \in [Ids(p) -> Links]
        BY <1>6 DEF Sound, IsDocument
      <3>2. p.within \in [Present(p) -> Groups \cup {Root}]
        BY <1>3, <1>6 DEF Places
      <3>. QED
        BY <1>5, <1>6, <3>1, <3>2 DEF IsDocument
    <2>. QED
      BY <1>6, <2>1, <2>2 DEF Sound
  <1>9. \A c \in Groups \cup {Root} : ContainerChain(p, c) = ContainerChain(d, c)
    <2>1. Contained(d) /\ Contained(p)
      BY <1>8, SoundFacts
    <2>2. \A g \in Present(d) \cap Groups : d.within[g] = p.within[g]
      BY <1>6, <1>7, DocumentAssumption
    <2>. QED
      BY <1>6, <2>1, <2>2, ChainDependsOnGroups
  <1>. QED
    BY <1>6, <1>7, <1>8, <1>9 DEF p

\* After as many rounds as it reaches junctions, and one, an acyclic junction stays.
LEMMA PlacesSettle ==
  ASSUME NEW d, Sound(d), NEW place, PlaceRounds(d, place), NEW j \in Junctions \cap Present(d),
         Acyclic(d, j), Targets(d, j) # {}
  PROVE  LET end == place[Cardinality(Junctions)] IN
         end[j] = CommonContainer(d, {end[t] : t \in Targets(d, j)})
  <1>. DEFINE N == Cardinality(Junctions)
              end == place[N]
              Settled(k) == \A i \in Junctions \cap Present(d) : Acyclic(d, i) /\ Inner(d, i) < k =>
                              \A m \in k .. N : place[m][i] = end[i]
              In == {k \in Nat : Settled(k)}
  <1>1. N \in Nat
    BY FiniteIdentifiers
  <1>2. \A e \in Present(d), n \in 0 .. N :
          e \notin Junctions \/ Targets(d, e) = {} => place[n][e] = d.within[e]
    <2>1. SUFFICES ASSUME NEW e \in Present(d), NEW n \in 0 .. N,
                          e \notin Junctions \/ Targets(d, e) = {}
                   PROVE  place[n][e] = d.within[e]
      OBVIOUS
    <2>2. CASE n = 0
      BY <2>2 DEF PlaceRounds
    <2>3. CASE n # 0
      <3>1. n \in 1 .. N
        BY <2>3, <1>1
      <3>2. place[n] = Gathered(d, place[n - 1])
        BY <3>1 DEF PlaceRounds
      <3>. QED
        BY <2>1, <3>2 DEF Gathered
    <2>. QED
      BY <2>2, <2>3
  <1>3. EndsKnown(d) /\ \A i : Targets(d, i) \subseteq Present(d)
    BY SoundFacts
  \* One round: the places of the targets are final, so is the junction's.
  <1>4. ASSUME NEW k \in Nat, Settled(k), NEW i \in Junctions \cap Present(d), Acyclic(d, i),
               Inner(d, i) <= k, Targets(d, i) # {}, NEW m \in 1 .. N, k < m
        PROVE  place[m][i] = CommonContainer(d, {end[t] : t \in Targets(d, i)})
    <2>1. m - 1 \in 0 .. N /\ m - 1 \in k .. N /\ N \in 0 .. N
      BY <1>1, <1>4
    <2>2. ASSUME NEW t \in Targets(d, i) PROVE place[m - 1][t] = end[t]
      <3>1. t \in Present(d)
        BY <1>3
      <3>2. CASE t \notin Junctions
        BY <1>2, <2>1, <3>1, <3>2
      <3>3. CASE t \in Junctions
        <4>1. Acyclic(d, t) /\ Inner(d, t) \in Nat /\ Inner(d, t) < Inner(d, i) /\ Inner(d, i) \in Nat
          BY <1>3, <1>4, <3>3, InnerShrinks
        <4>2. Inner(d, t) < k
          BY <1>4, <4>1
        <4>. QED
          BY <1>4, <2>1, <3>1, <3>3, <4>1, <4>2
      <3>. QED
        BY <3>2, <3>3
    <2>3. place[m] = Gathered(d, place[m - 1])
      BY DEF PlaceRounds
    <2>4. place[m][i] = CommonContainer(d, {place[m - 1][t] : t \in Targets(d, i)})
      BY <1>4, <2>3 DEF Gathered
    <2>5. {place[m - 1][t] : t \in Targets(d, i)} = {end[t] : t \in Targets(d, i)}
      BY <2>2
    <2>. QED
      BY <2>4, <2>5
  <1>5. Settled(0)
    <2>1. \A i \in Junctions : Acyclic(d, i) => Inner(d, i) \in Nat
      BY <1>3, InnerShrinks
    <2>. QED
      BY <2>1
  <1>6. ASSUME NEW k \in Nat, Settled(k) PROVE Settled(k + 1)
    <2>1. SUFFICES ASSUME NEW i \in Junctions \cap Present(d), Acyclic(d, i), Inner(d, i) < k + 1,
                          NEW m \in k + 1 .. N
                   PROVE  place[m][i] = end[i]
      OBVIOUS
    <2>2. Inner(d, i) <= k /\ m \in 1 .. N /\ m \in 0 .. N /\ k < m /\ N \in 1 .. N /\ N \in 0 .. N /\ k < N
      <3>1. Inner(d, i) \in Nat
        BY <1>3, <2>1, InnerShrinks
      <3>. QED
        BY <1>1, <2>1, <3>1
    <2>3. CASE Targets(d, i) = {}
      BY <1>2, <2>1, <2>2, <2>3
    <2>4. CASE Targets(d, i) # {}
      <3>. HIDE DEF Settled, N
      <3>1. place[m][i] = CommonContainer(d, {end[t] : t \in Targets(d, i)})
        BY <1>4, <1>6, <2>1, <2>2, <2>4
      <3>2. place[N][i] = CommonContainer(d, {end[t] : t \in Targets(d, i)})
        BY <1>4, <1>6, <2>1, <2>2, <2>4
      <3>. QED
        BY <3>1, <3>2
    <2>. QED
      BY <2>3, <2>4
  <1>7. \A k \in Nat : Settled(k)
    <2>. HIDE DEF Settled
    <2>1. 0 \in In /\ \A k \in Nat : k \in In => k + 1 \in In
      BY <1>5, <1>6
    <2>. HIDE DEF In
    <2>2. \A k \in Nat : k \in In
      BY <2>1, Induction
    <2>. QED
      BY <2>2 DEF In
  <1>8. Inner(d, j) \in Nat /\ Inner(d, j) < N
    BY <1>3, InnerShrinks
  <1>9. N \in 1 .. N /\ Inner(d, j) <= Inner(d, j)
    BY <1>1, <1>8
  <1>. HIDE DEF Settled, N
  <1>10. place[N][j] = CommonContainer(d, {end[t] : t \in Targets(d, j)})
    BY <1>4, <1>7, <1>8, <1>9
  <1>. QED
    BY <1>10 DEF N

\* Where the flow of a junction ends: at what is no junction, or leads nowhere.
EndsOf(d, j) == {e \in Beyond(d, j) : e \notin Junctions \/ Targets(d, e) = {}}

LEMMA EndsUnfold ==
  ASSUME NEW d, EndsKnown(d), NEW j
  PROVE  \A e : e \in EndsOf(d, j) <=>
           \/ e \in Targets(d, j) /\ (e \notin Junctions \/ Targets(d, e) = {})
           \/ \E t \in Targets(d, j) \cap Junctions : e \in EndsOf(d, t)
  BY BeyondUnfolds DEF EndsOf

\* A junction that leads nowhere reaches nothing.
LEMMA BeyondNothing ==
  ASSUME NEW d, EndsKnown(d), NEW j, Targets(d, j) = {}
  PROVE  EndsOf(d, j) = {}
  BY BeyondUnfolds DEF EndsOf

\* The junctions are placed with what their flow reaches, whatever the document was.
LEMMA PlacedFollow ==
  ASSUME NEW d, Sound(d)
  PROVE  JunctionsFollow(PlaceJunctions(d))
  <1>. DEFINE p == PlaceJunctions(d)
              chain(e) == ContainerChain(p, p.within[e])
              Right(j) == chain(j) = {g \in Groups : \A e \in EndsOf(d, j) : g \in chain(e)}
              Placed(j) == j \in Junctions \cap Present(d) /\ Acyclic(d, j) /\ Targets(d, j) # {}
              In == {k \in Nat : \A j : Placed(j) /\ Inner(d, j) < k => Right(j)}
              N == Cardinality(Junctions)
  <1>1. /\ Sound(p) /\ Present(p) = Present(d) /\ p.relations = d.relations
        /\ \A c \in Groups \cup {Root} : ContainerChain(p, c) = ContainerChain(d, c)
    BY PlacedDocument
  <1>2. EndsKnown(d) /\ \A j : Targets(d, j) \subseteq Present(d)
    BY SoundFacts
  <1>3. \A e \in Present(d) : p.within[e] \in (Present(d) \cap Groups) \cup {Root}
    BY <1>1 DEF Sound, WellPlaced
  <1>4. ASSUME NEW j, Placed(j)
        PROVE  chain(j) = {g \in Groups : \A t \in Targets(d, j) : g \in chain(t)}
    <2>. DEFINE cs == {p.within[t] : t \in Targets(d, j)}
    <2>1. PICK place : PlaceRounds(d, place)
      BY PlaceRoundsExist
    <2>2. p.within = place[N]
      <3>1. d = [within |-> d.within, relations |-> d.relations]
        BY DEF Sound, IsDocument
      <3>. QED
        BY <2>1, <3>1 DEF PlaceRounds
    <2>3. p.within[j] = CommonContainer(d, cs)
      <3>. HIDE DEF p
      <3>. QED
        BY <1>4, <2>1, <2>2, PlacesSettle
    <2>4. cs \subseteq (Present(d) \cap Groups) \cup {Root} /\ cs # {} /\ WellPlaced(d)
      BY <1>2, <1>3, <1>4 DEF Sound
    <2>. HIDE DEF cs, p
    <2>5. ContainerChain(d, p.within[j]) = {g \in Groups : \A c \in cs : g \in ContainerChain(d, c)}
      BY <2>3, <2>4, CommonContainerIs
    <2>6. p.within[j] \in Groups \cup {Root} /\ \A t \in Targets(d, j) : p.within[t] \in Groups \cup {Root}
      BY <1>2, <1>3, <1>4
    <2>7. \A t \in Targets(d, j) : ContainerChain(d, p.within[t]) = chain(t)
      BY <1>1, <2>6
    <2>8. ContainerChain(d, p.within[j]) = chain(j)
      BY <1>1, <2>6
    <2>9. \A g : (\A c \in cs : g \in ContainerChain(d, c)) <=> (\A t \in Targets(d, j) : g \in chain(t))
      BY <2>7 DEF cs
    <2>. HIDE DEF chain
    <2>. QED
      BY <2>5, <2>8, <2>9
  <1>5. \A e : chain(e) \subseteq Groups \/ e \notin Present(d)
    <2>1. Contained(p)
      BY <1>1, SoundFacts
    <2>2. \A e \in Present(d) : p.within[e] \in Groups \cup {Root}
      BY <1>3
    <2>. HIDE DEF p
    <2>. QED
      BY <2>1, <2>2, ChainIsLeast
  <1>. HIDE DEF p, chain
  <1>6. ASSUME NEW k \in Nat, k \in In PROVE k + 1 \in In
    <2>1. SUFFICES ASSUME NEW j, Placed(j), Inner(d, j) < k + 1 PROVE Right(j)
      OBVIOUS
    <2>2. ASSUME NEW t \in Targets(d, j) \cap Junctions, Targets(d, t) # {} PROVE Right(t)
      <3>1. Acyclic(d, t) /\ Inner(d, t) \in Nat /\ Inner(d, t) < Inner(d, j) /\ Inner(d, j) \in Nat
        BY <1>2, <2>1, InnerShrinks
      <3>2. Placed(t) /\ Inner(d, t) < k
        BY <1>2, <2>1, <2>2, <3>1
      <3>. QED
        BY <1>6, <3>2
    <2>3. ASSUME NEW g \in Groups
          PROVE  (\A t \in Targets(d, j) : g \in chain(t)) <=> \A e \in EndsOf(d, j) : g \in chain(e)
      <3>1. ASSUME \A t \in Targets(d, j) : g \in chain(t), NEW e \in EndsOf(d, j)
            PROVE  g \in chain(e)
        <4>1. CASE e \in Targets(d, j)
          BY <3>1, <4>1
        <4>2. ASSUME NEW t \in Targets(d, j) \cap Junctions, e \in EndsOf(d, t) PROVE g \in chain(e)
          <5>1. Targets(d, t) # {}
            BY <1>2, <4>2, BeyondNothing
          <5>. QED
            BY <2>2, <3>1, <4>2, <5>1
        <4>. QED
          BY <1>2, <4>1, <4>2, EndsUnfold
      <3>2. ASSUME \A e \in EndsOf(d, j) : g \in chain(e), NEW t \in Targets(d, j)
            PROVE  g \in chain(t)
        <4>1. CASE t \notin Junctions \/ Targets(d, t) = {}
          <5>1. t \in EndsOf(d, j)
            BY <1>2, <4>1, EndsUnfold
          <5>. QED
            BY <3>2, <5>1
        <4>2. CASE t \in Junctions /\ Targets(d, t) # {}
          <5>1. Right(t)
            BY <2>2, <4>2
          <5>2. \A e \in EndsOf(d, t) : e \in EndsOf(d, j)
            BY <1>2, <4>2, EndsUnfold
          <5>. QED
            BY <3>2, <5>1, <5>2
        <4>. QED
          BY <4>1, <4>2
      <3>. QED
        BY <3>1, <3>2
    <2>4. chain(j) = {g \in Groups : \A t \in Targets(d, j) : g \in chain(t)}
      BY <1>4, <2>1
    <2>. QED
      BY <2>3, <2>4
  <1>7. 0 \in In
    <2>1. \A j \in Junctions : Acyclic(d, j) => Inner(d, j) \in Nat
      BY <1>2, InnerShrinks
    <2>. QED
      BY <2>1
  <1>8. \A j : Placed(j) => Right(j)
    <2>. HIDE DEF In
    <2>1. \A k \in Nat : k \in In
      BY <1>6, <1>7, Induction
    <2>2. ASSUME NEW j, Placed(j) PROVE Right(j)
      <3>1. Inner(d, j) \in Nat
        BY <1>2, <2>2, InnerShrinks
      <3>2. Inner(d, j) + 1 \in Nat /\ Inner(d, j) < Inner(d, j) + 1
        BY <3>1
      <3>3. Inner(d, j) + 1 \in In
        BY <2>1, <3>2
      <3>. HIDE DEF Right, Placed
      <3>. QED
        BY <2>2, <3>2, <3>3 DEF In
    <2>. QED
      BY <2>2
  <1>9. ASSUME NEW j \in Present(p) \cap Junctions, Targets(p, j) # {},
               \A k \in (Beyond(p, j) \cap Junctions) \cup {j} : ~InCycle(p, k)
        PROVE  ContainerChain(p, p.within[j])
                 = {g \in Groups : \A e \in {e \in Beyond(p, j) : e \notin Junctions \/ Targets(p, e) = {}} :
                                     g \in ContainerChain(p, p.within[e])}
    <2>1. \A i : Targets(p, i) = Targets(d, i) /\ Beyond(p, i) = Beyond(d, i)
      BY <1>1, <1>2, BeyondDependsOnRelations
    <2>2. Placed(j)
      BY <1>1, <1>9, <2>1 DEF Acyclic, InCycle
    <2>3. {e \in Beyond(p, j) : e \notin Junctions \/ Targets(p, e) = {}} = EndsOf(d, j)
      BY <2>1 DEF EndsOf
    <2>4. Right(j)
      BY <1>8, <2>2
    <2>. QED
      BY <2>3, <2>4 DEF chain
  <1>. QED
    BY <1>9 DEF JunctionsFollow, p

-----------------------------------------------------------------------------
(* Collecting the junctions *)

LEMMA WithoutDocument ==
  ASSUME NEW d, IsDocument(d), NEW ends, NEW ids
  PROVE  LET w == Without(d, ends, ids) IN
         /\ IsDocument(w) /\ Present(w) = Present(d) \ ends /\ Ids(w) = Ids(d) \ ids
         /\ \A e \in Present(w) : w.within[e] = d.within[e]
         /\ \A r \in Ids(w) : w.relations[r] = d.relations[r]
         /\ NoRepeats(d) => NoRepeats(w)
  <1>. DEFINE w == Without(d, ends, ids)
  <1>1. /\ w = [within |-> w.within, relations |-> w.relations]
        /\ Present(w) = Present(d) \ ends /\ Ids(w) = Ids(d) \ ids
        /\ \A e \in Present(w) : w.within[e] = d.within[e]
        /\ \A r \in Ids(w) : w.relations[r] = d.relations[r]
        /\ w.within = [e \in Present(d) \ ends |-> d.within[e]]
        /\ w.relations = [r \in Ids(d) \ ids |-> d.relations[r]]
    BY DEF Without, Present, Ids
  <1>. HIDE DEF w
  <1>2. w.within \in [Present(w) -> Groups \cup {Root}] /\ w.relations \in [Ids(w) -> Links]
    BY <1>1 DEF IsDocument
  <1>3. IsDocument(w)
    BY <1>1, <1>2 DEF IsDocument
  <1>4. NoRepeats(d) => NoRepeats(w)
    BY <1>1 DEF NoRepeats
  <1>. QED
    BY <1>1, <1>3, <1>4 DEF w

\* What is collected is junctions and what touches them.
LEMMA CollectedDocument ==
  ASSUME NEW d, IsDocument(d)
  PROVE  \E all \in SUBSET Junctions : CollectJunctions(d) = Without(d, all, Touching(d, all))
  <1>. DEFINE N == Cardinality(Junctions)
              S == SUBSET Junctions
              F == [s \in S |-> Unanchored(d, s)]
              P(f) == f = [n \in 0 .. N |-> IF n = 0 THEN {} ELSE Unanchored(d, f[n - 1])]
              gone == CHOOSE f : P(f)
  <1>1. N \in Nat /\ {} \in S /\ F \in [S -> S]
    BY FiniteIdentifiers DEF Unanchored
  <1>2. PICK f : IsRounds(f, N, S, {}, F)
    <2>. HIDE DEF N, S, F
    <2>. QED
      BY <1>1, Rounds
  <1>3. P(f)
    <2>1. ASSUME NEW n \in 1 .. N PROVE f[n] = Unanchored(d, f[n - 1])
      <3>1. n - 1 \in 0 .. N
        BY <1>1
      <3>. HIDE DEF N, S
      <3>2. f[n - 1] \in S /\ f[n] = F[f[n - 1]]
        BY <1>2, <3>1 DEF IsRounds
      <3>. QED
        BY <3>2
    <2>2. \A n \in 0 .. N : n = 0 \/ n \in 1 .. N
      BY <1>1
    <2>3. f = [n \in 0 .. N |-> f[n]] /\ f[0] = {}
      BY <1>2 DEF IsRounds
    <2>4. \A n \in 0 .. N : f[n] = IF n = 0 THEN {} ELSE Unanchored(d, f[n - 1])
      BY <2>1, <2>2, <2>3
    <2>. QED
      BY <2>3, <2>4
  <1>4. P(gone)
    <2>. HIDE DEF P
    <2>. QED
      BY <1>3
  <1>5. CollectJunctions(d) = Without(d, gone[N], Touching(d, gone[N]))
    BY DEF CollectJunctions
  <1>. HIDE DEF gone
  <1>6. gone[N] \in SUBSET Junctions
    <2>1. CASE N = 0
      BY <1>4, <2>1
    <2>2. CASE N # 0
      <3>1. N \in 0 .. N
        BY <1>1
      <3>2. gone[N] = Unanchored(d, gone[N - 1])
        BY <1>4, <2>2, <3>1
      <3>. QED
        BY <3>2 DEF Unanchored
    <2>. QED
      BY <2>1, <2>2
  <1>. QED
    BY <1>5, <1>6

LEMMA CollectedIsSound ==
  ASSUME NEW d, Sound(d)
  PROVE  Sound(CollectJunctions(d)) /\ (NoRepeats(d) => NoRepeats(CollectJunctions(d)))
  <1>1. IsDocument(d) /\ WellPlaced(d)
    BY DEF Sound
  <1>2. PICK all \in SUBSET Junctions : CollectJunctions(d) = Without(d, all, Touching(d, all))
    BY <1>1, CollectedDocument
  <1>. DEFINE w == Without(d, all, Touching(d, all))
  <1>3. /\ IsDocument(w) /\ Present(w) = Present(d) \ all /\ Ids(w) = Ids(d) \ Touching(d, all)
        /\ \A e \in Present(w) : w.within[e] = d.within[e]
        /\ \A r \in Ids(w) : w.relations[r] = d.relations[r]
        /\ NoRepeats(d) => NoRepeats(w)
    BY <1>1, WithoutDocument
  <1>. HIDE DEF w
  <1>4. WellPlaced(w)
    BY <1>1, <1>3, DocumentAssumption DEF WellPlaced
  <1>5. \A r \in Ids(w) : w.relations[r].from \in Present(w) /\ w.relations[r].to \in Present(w)
    BY <1>3 DEF Sound, Touching
  <1>6. Sound(w)
    BY <1>3, <1>4, <1>5 DEF Sound
  <1>. QED
    BY <1>2, <1>3, <1>6 DEF w

-----------------------------------------------------------------------------
(* The commands and what executing one does *)

Command ==
  [op : {"create"}, id : Endpoints, into : Groups \cup {Root}]
  \cup [op : {"relate"}, id : RelationIds, from : Endpoints, to : Endpoints]
  \cup [op : {"redirect"}, id : RelationIds, side : {"from", "to"}, end : Endpoints]
  \cup [op : {"rehouse"}, id : Endpoints, into : Groups \cup {Root}]
  \cup [op : {"cut"}, ids : SUBSET RelationIds]
  \cup [op : {"delete"}, id : Endpoints]
  \cup [op : {"group"}, id : Groups, members : SUBSET Endpoints]
  \cup [op : {"ungroup"}, id : Groups]
  \cup [op : {"move"}, ids : SUBSET Endpoints, into : Groups \cup {Root}]

Batch ==
  [gesture : {"none", "relate", "redirect", "rehouse", "box", "junction", "group", "move",
              "dissolve", "erase"},
   commands : Seq(Command), chosen : SUBSET RelationIds, gone : SUBSET Endpoints,
   current : BOOLEAN]

DocumentInv ==
  /\ IsDocument(document) /\ Readable(document) /\ IsDocument(candidate)
  /\ proposed \in [Clients -> Batch]
  /\ running \in Clients \cup {Nobody}
  /\ rest \in Seq(Command)
  /\ batches \in 0 .. MaxBatches

\* A command is refused with its batch, or makes a document that is finalized if it
\* reads well, as the one before did.
Outcome ==
  \/ Discard
  \/ \E after, final :
       /\ Proceed(Finalized(after, final))
       /\ IsDocument(after)
       /\ Checked(after) => /\ Sound(final)
                            /\ NoRepeats(candidate) => NoRepeats(final)

LEMMA CommandFields ==
  ASSUME DocumentInv, NEW op, Next1(op)
  PROVE  LET c == Head(rest) IN
         /\ c \in Command /\ c.op = op
         /\ c.op = "create" => c.id \in Endpoints /\ c.into \in Groups \cup {Root}
         /\ c.op = "relate" => c.id \in RelationIds /\ c.from \in Endpoints /\ c.to \in Endpoints
         /\ c.op = "redirect" => /\ c.id \in RelationIds /\ c.side \in {"from", "to"}
                                 /\ c.end \in Endpoints
         /\ c.op = "rehouse" => c.id \in Endpoints /\ c.into \in Groups \cup {Root}
         /\ c.op = "group" => c.id \in Groups /\ c.members \in SUBSET Endpoints
         /\ c.op = "ungroup" => c.id \in Groups
         /\ c.op = "move" => c.ids \in SUBSET Endpoints /\ c.into \in Groups \cup {Root}
  <1>1. Head(rest) \in Command /\ Head(rest).op = op
    BY DEF DocumentInv, Next1
  <1>. DEFINE c == Head(rest)
  <1>. HIDE DEF c
  <1>2. ASSUME NEW x \in Command
        PROVE  /\ x.op = "create" => x.id \in Endpoints /\ x.into \in Groups \cup {Root}
               /\ x.op = "relate" => x.id \in RelationIds /\ x.from \in Endpoints /\ x.to \in Endpoints
               /\ x.op = "redirect" => /\ x.id \in RelationIds /\ x.side \in {"from", "to"}
                                       /\ x.end \in Endpoints
               /\ x.op = "rehouse" => x.id \in Endpoints /\ x.into \in Groups \cup {Root}
               /\ x.op = "group" => x.id \in Groups /\ x.members \in SUBSET Endpoints
               /\ x.op = "ungroup" => x.id \in Groups
               /\ x.op = "move" => x.ids \in SUBSET Endpoints /\ x.into \in Groups \cup {Root}
    BY DEF Command
  <1>. QED
    BY <1>1, <1>2

\* Another placement, other relations.
LEMMA Rehoused ==
  ASSUME NEW d, IsDocument(d), NEW places,
         places \in [DOMAIN places -> Groups \cup {Root}], DOMAIN places \subseteq Endpoints
  PROVE  LET x == [d EXCEPT !.within = places] IN
         /\ IsDocument(x) /\ x.within = places /\ x.relations = d.relations
         /\ Present(x) = DOMAIN places /\ Ids(x) = Ids(d)
         /\ NoRepeats(d) => NoRepeats(x)
  <1>. DEFINE x == [d EXCEPT !.within = places]
  <1>1. d = [within |-> d.within, relations |-> d.relations]
    BY DEF IsDocument
  <1>2. x = [within |-> places, relations |-> d.relations]
    BY <1>1
  <1>3. x.within = places /\ x.relations = d.relations
    BY <1>2
  <1>. HIDE DEF x
  <1>4. Present(x) = DOMAIN places /\ Ids(x) = Ids(d)
    BY <1>3 DEF Present, Ids
  <1>5. IsDocument(x)
    BY <1>2, <1>3, <1>4 DEF IsDocument
  <1>6. NoRepeats(d) => NoRepeats(x)
    BY <1>3, <1>4 DEF NoRepeats
  <1>. QED
    BY <1>3, <1>4, <1>5, <1>6 DEF x

LEMMA Rewired ==
  ASSUME NEW d, IsDocument(d), NEW relations,
         relations \in [DOMAIN relations -> Links], DOMAIN relations \subseteq RelationIds
  PROVE  LET x == [d EXCEPT !.relations = relations] IN
         /\ IsDocument(x) /\ x.within = d.within /\ x.relations = relations
         /\ Present(x) = Present(d) /\ Ids(x) = DOMAIN relations
  <1>. DEFINE x == [d EXCEPT !.relations = relations]
  <1>1. d = [within |-> d.within, relations |-> d.relations]
    BY DEF IsDocument
  <1>2. x = [within |-> d.within, relations |-> relations]
    BY <1>1
  <1>3. x.within = d.within /\ x.relations = relations
    BY <1>2
  <1>. HIDE DEF x
  <1>4. Present(x) = Present(d) /\ Ids(x) = DOMAIN relations
    BY <1>3 DEF Present, Ids
  <1>5. IsDocument(x)
    BY <1>2, <1>3, <1>4 DEF IsDocument
  <1>. QED
    BY <1>3, <1>4, <1>5 DEF x

\* A command that moves elements, or adds or removes some, without a refusal.
LEMMA MovingOutcome ==
  ASSUME DocumentInv, NEW places, places \in [DOMAIN places -> Groups \cup {Root}],
         DOMAIN places \subseteq Endpoints,
         LET after == [candidate EXCEPT !.within = places] IN Proceed(Finalized(after, after))
  PROVE  Outcome
  <1>. DEFINE after == [candidate EXCEPT !.within = places]
  <1>1. IsDocument(after) /\ (NoRepeats(candidate) => NoRepeats(after))
    BY Rehoused DEF DocumentInv
  <1>2. Proceed(Finalized(after, after))
    OBVIOUS
  <1>. HIDE DEF after
  <1>3. Checked(after) => Sound(after)
    BY <1>1, ReadableIsSound DEF Checked
  <1>. QED
    BY <1>1, <1>2, <1>3 DEF Outcome

LEMMA CreateOutcome ==
  ASSUME DocumentInv, ExecuteCreate
  PROVE  Outcome
  <1>. DEFINE c == Head(rest)
              places == Adding(candidate.within, c.id, c.into)
  <1>1. c.op = "create" /\ c.id \in Endpoints /\ c.into \in Groups \cup {Root}
    BY CommandFields DEF ExecuteCreate
  <1>2. /\ candidate.within \in [Present(candidate) -> Groups \cup {Root}]
        /\ Present(candidate) \subseteq Endpoints
    BY DEF DocumentInv, IsDocument
  <1>. HIDE DEF c
  <1>3. places = [e \in Present(candidate) \cup {c.id} |->
                    IF e = c.id THEN c.into ELSE candidate.within[e]]
    BY DEF Adding, Present
  <1>4. places \in [DOMAIN places -> Groups \cup {Root}] /\ DOMAIN places \subseteq Endpoints
    BY <1>1, <1>2, <1>3
  <1>5. [candidate EXCEPT !.within = Adding(@, c.id, c.into)] = [candidate EXCEPT !.within = places]
    OBVIOUS
  <1>. HIDE DEF places
  <1>6. CASE Discard
    BY <1>6 DEF Outcome
  <1>7. CASE LET after == [candidate EXCEPT !.within = places] IN Proceed(Finalized(after, after))
    BY <1>4, <1>7, MovingOutcome
  <1>. QED
    BY <1>5, <1>6, <1>7 DEF ExecuteCreate, c

LEMMA RehouseOutcome ==
  ASSUME DocumentInv, ExecuteRehouse
  PROVE  Outcome
  <1>. DEFINE c == Head(rest)
              places == [candidate.within EXCEPT ![c.id] = c.into]
  <1>1. c.into \in Groups \cup {Root}
    BY CommandFields DEF ExecuteRehouse
  <1>2. /\ candidate.within \in [Present(candidate) -> Groups \cup {Root}]
        /\ Present(candidate) \subseteq Endpoints
    BY DEF DocumentInv, IsDocument
  <1>. HIDE DEF c
  <1>4. places \in [DOMAIN places -> Groups \cup {Root}] /\ DOMAIN places \subseteq Endpoints
    BY <1>1, <1>2
  <1>5. [candidate EXCEPT !.within[c.id] = c.into] = [candidate EXCEPT !.within = places]
    OBVIOUS
  <1>. HIDE DEF places
  <1>6. CASE Discard
    BY <1>6 DEF Outcome
  <1>7. CASE LET after == [candidate EXCEPT !.within = places] IN Proceed(Finalized(after, after))
    BY <1>4, <1>7, MovingOutcome
  <1>. QED
    BY <1>5, <1>6, <1>7 DEF ExecuteRehouse, c

LEMMA GroupOutcome ==
  ASSUME DocumentInv, ExecuteGroup
  PROVE  Outcome
  <1>. DEFINE c == Head(rest)
              containers == {candidate.within[e] : e \in c.members}
              common == CHOOSE g \in containers : TRUE
              places == [e \in Present(candidate) \cup {c.id} |->
                          IF e \in c.members THEN c.id
                          ELSE IF e = c.id THEN common ELSE candidate.within[e]]
  <1>1. c.id \in Groups
    BY CommandFields DEF ExecuteGroup
  <1>2. /\ candidate.within \in [Present(candidate) -> Groups \cup {Root}]
        /\ Present(candidate) \subseteq Endpoints
    BY DEF DocumentInv, IsDocument
  <1>. HIDE DEF c
  <1>3. CASE Discard
    BY <1>3 DEF Outcome
  <1>4. ASSUME c.members \subseteq Present(candidate), Cardinality(containers) = 1,
               LET after == [candidate EXCEPT !.within = places] IN Proceed(Finalized(after, after))
        PROVE  Outcome
    <2>1. containers # {}
      <3>. HIDE DEF containers
      <3>. QED
        BY <1>4, FS_EmptySet
    <2>2. containers \subseteq Groups \cup {Root}
      BY <1>2, <1>4
    <2>3. common \in Groups \cup {Root}
      BY <2>1, <2>2
    <2>. HIDE DEF common
    <2>4. places \in [DOMAIN places -> Groups \cup {Root}] /\ DOMAIN places \subseteq Endpoints
      BY <1>1, <1>2, <2>3 DEF Endpoints
    <2>. HIDE DEF places
    <2>. QED
      BY <1>4, <2>4, MovingOutcome
  <1>. QED
    BY <1>3, <1>4 DEF ExecuteGroup, c

LEMMA RelateOutcome ==
  ASSUME DocumentInv, ExecuteRelate
  PROVE  Outcome
  <1>. DEFINE c == Head(rest)
              link == [from |-> c.from, to |-> c.to]
              relations == Adding(candidate.relations, c.id, link)
              after == [candidate EXCEPT !.relations = relations]
  <1>1. c.id \in RelationIds /\ c.from \in Endpoints /\ c.to \in Endpoints
    BY CommandFields DEF ExecuteRelate
  <1>2. /\ candidate.relations \in [Ids(candidate) -> Links]
        /\ Ids(candidate) \subseteq RelationIds /\ IsDocument(candidate)
    BY DEF DocumentInv, IsDocument
  <1>. HIDE DEF c
  <1>3. link \in Links
    BY <1>1 DEF Links
  <1>. HIDE DEF link
  <1>4. relations = [r \in Ids(candidate) \cup {c.id} |->
                       IF r = c.id THEN link ELSE candidate.relations[r]]
    BY DEF Adding, Ids
  <1>5. relations \in [DOMAIN relations -> Links] /\ DOMAIN relations \subseteq RelationIds
    BY <1>1, <1>2, <1>3, <1>4
  <1>6. [candidate EXCEPT !.relations = Adding(@, c.id, link)] = after
    OBVIOUS
  <1>. HIDE DEF relations
  <1>7. IsDocument(after) /\ Ids(after) = DOMAIN relations /\ after.relations = relations
    BY <1>2, <1>5, Rewired
  <1>. HIDE DEF after
  <1>8. CASE Discard
    BY <1>8 DEF Outcome
  <1>9. ASSUME c.id \notin Ids(candidate), Checked(after) => ~Repeats(candidate, c.id, link),
               Proceed(Finalized(after, after))
        PROVE  Outcome
    <2>1. ASSUME Checked(after), NoRepeats(candidate)
          PROVE  NoRepeats(after)
      <3>1. \A r \in Ids(candidate) : candidate.relations[r] # link
        BY <1>9, <2>1 DEF Repeats
      <3>. QED
        BY <1>4, <1>7, <2>1, <3>1 DEF NoRepeats
    <2>2. Checked(after) => Sound(after)
      BY <1>7, ReadableIsSound DEF Checked
    <2>. QED
      BY <1>7, <1>9, <2>1, <2>2 DEF Outcome
  <1>. QED
    BY <1>6, <1>8, <1>9 DEF ExecuteRelate, c, link

LEMMA RedirectOutcome ==
  ASSUME DocumentInv, ExecuteRedirect
  PROVE  Outcome
  <1>. DEFINE c == Head(rest)
              link == [candidate.relations[c.id] EXCEPT ![c.side] = c.end]
              relations == [candidate.relations EXCEPT ![c.id] = link]
              after == [candidate EXCEPT !.relations = relations]
  <1>1. c.id \in RelationIds /\ c.side \in {"from", "to"} /\ c.end \in Endpoints
    BY CommandFields DEF ExecuteRedirect
  <1>2. /\ candidate.relations \in [Ids(candidate) -> Links]
        /\ Ids(candidate) \subseteq RelationIds /\ IsDocument(candidate)
    BY DEF DocumentInv, IsDocument
  <1>. HIDE DEF c
  <1>3. [candidate EXCEPT !.relations[c.id][c.side] = c.end] = after
    OBVIOUS
  <1>4. CASE Discard
    BY <1>4 DEF Outcome
  <1>5. ASSUME c.id \in Ids(candidate),
               Checked(after) => ~Repeats(after, c.id, after.relations[c.id]),
               Proceed(Finalized(after, after))
        PROVE  Outcome
    <2>1. link \in Links
      <3>1. candidate.relations[c.id] \in Links
        BY <1>2, <1>5
      <3>2. CASE c.side = "from"
        BY <1>1, <3>1, <3>2 DEF Links
      <3>3. CASE c.side = "to"
        BY <1>1, <3>1, <3>3 DEF Links
      <3>. QED
        BY <1>1, <3>2, <3>3
    <2>. HIDE DEF link
    <2>2. relations \in [DOMAIN relations -> Links] /\ DOMAIN relations = Ids(candidate)
      BY <1>2, <1>5, <2>1 DEF Ids
    <2>3. \A r \in Ids(candidate) \ {c.id} : relations[r] = candidate.relations[r]
      BY <1>2
    <2>. HIDE DEF relations
    <2>4. IsDocument(after) /\ Ids(after) = Ids(candidate) /\ after.relations = relations
      BY <1>2, <2>2, Rewired
    <2>. HIDE DEF after
    <2>5. ASSUME Checked(after), NoRepeats(candidate)
          PROVE  NoRepeats(after)
      <3>1. \A r \in Ids(after) \ {c.id} : after.relations[r] # after.relations[c.id]
        BY <1>5, <2>5 DEF Repeats
      <3>. QED
        BY <2>3, <2>4, <2>5, <3>1 DEF NoRepeats
    <2>6. Checked(after) => Sound(after)
      BY <2>4, ReadableIsSound DEF Checked
    <2>. QED
      BY <1>5, <2>4, <2>5, <2>6 DEF Outcome
  <1>. QED
    BY <1>3, <1>4, <1>5 DEF ExecuteRedirect, c

\* What a removal leaves is collected.
LEMMA RemovingOutcome ==
  ASSUME DocumentInv, NEW ends, NEW ids,
         LET after == Without(candidate, ends, ids)
         IN Proceed(Finalized(after, CollectJunctions(after)))
  PROVE  Outcome
  <1>. DEFINE after == Without(candidate, ends, ids)
              final == CollectJunctions(after)
  <1>1. IsDocument(after) /\ (NoRepeats(candidate) => NoRepeats(after))
    BY WithoutDocument DEF DocumentInv
  <1>2. Proceed(Finalized(after, final))
    OBVIOUS
  <1>. HIDE DEF after
  <1>3. Checked(after) => Sound(after)
    BY <1>1, ReadableIsSound DEF Checked
  <1>4. Checked(after) => Sound(final) /\ (NoRepeats(after) => NoRepeats(final))
    BY <1>3, CollectedIsSound
  <1>. HIDE DEF final
  <1>. QED
    BY <1>1, <1>2, <1>4 DEF Outcome

LEMMA CutOutcome ==
  ASSUME DocumentInv, ExecuteCut
  PROVE  Outcome
  <1>. DEFINE ids == Head(rest).ids
              after == Without(candidate, {}, ids)
  <1>1. Discard \/ Proceed(Finalized(after, CollectJunctions(after)))
    BY DEF ExecuteCut
  <1>. HIDE DEF ids
  <1>. QED
    BY <1>1, RemovingOutcome DEF Outcome

LEMMA DeleteOutcome ==
  ASSUME DocumentInv, ExecuteDelete
  PROVE  Outcome
  <1>. DEFINE ends == {Head(rest).id}
              ids == Touching(candidate, ends)
              after == Without(candidate, ends, ids)
  <1>1. Discard \/ Proceed(Finalized(after, CollectJunctions(after)))
    BY DEF ExecuteDelete
  <1>. HIDE DEF ends, ids
  <1>. QED
    BY <1>1, RemovingOutcome DEF Outcome

LEMMA UngroupOutcome ==
  ASSUME DocumentInv, ExecuteUngroup
  PROVE  Outcome
  <1>. DEFINE id == Head(rest).id
              places == [e \in Present(candidate) |->
                          IF candidate.within[e] = id THEN candidate.within[id]
                          ELSE candidate.within[e]]
              up == [candidate EXCEPT !.within = places]
              touching == Touching(candidate, {id})
              after == Without(up, {id}, touching)
  <1>1. \/ Discard
        \/ id \in Present(candidate) /\ Proceed(Finalized(after, after))
    BY DEF ExecuteUngroup
  <1>2. /\ candidate.within \in [Present(candidate) -> Groups \cup {Root}]
        /\ Present(candidate) \subseteq Endpoints /\ IsDocument(candidate)
    BY DEF DocumentInv, IsDocument
  <1>. HIDE DEF id, touching
  <1>3. ASSUME id \in Present(candidate), Proceed(Finalized(after, after))
        PROVE  Outcome
    <2>1. places \in [DOMAIN places -> Groups \cup {Root}] /\ DOMAIN places \subseteq Endpoints
      BY <1>2, <1>3
    <2>. HIDE DEF places
    <2>2. IsDocument(up) /\ (NoRepeats(candidate) => NoRepeats(up))
      BY <1>2, <2>1, Rehoused
    <2>. HIDE DEF up
    <2>3. IsDocument(after) /\ (NoRepeats(up) => NoRepeats(after))
      BY <2>2, WithoutDocument
    <2>. HIDE DEF after
    <2>4. Checked(after) => Sound(after)
      BY <2>3, ReadableIsSound DEF Checked
    <2>. QED
      BY <1>3, <2>2, <2>3, <2>4 DEF Outcome
  <1>. QED
    BY <1>1, <1>3 DEF Outcome

LEMMA MoveOutcome ==
  ASSUME DocumentInv, ExecuteMove
  PROVE  Outcome
  <1>. DEFINE c == Head(rest)
              places == [e \in Present(candidate) |->
                          IF e \in c.ids \ Junctions THEN c.into ELSE candidate.within[e]]
              moved == [candidate EXCEPT !.within = places]
              after == PlaceJunctions(moved)
  <1>1. \/ Discard
        \/ /\ Readable(candidate) /\ (c.into = Root \/ c.into \in Present(candidate))
           /\ Proceed(Finalized(after, after))
    BY DEF ExecuteMove
  <1>2. c.into \in Groups \cup {Root}
    BY CommandFields DEF ExecuteMove
  <1>3. IsDocument(candidate)
    BY DEF DocumentInv
  <1>. HIDE DEF c
  <1>4. ASSUME Readable(candidate), c.into = Root \/ c.into \in Present(candidate),
               Proceed(Finalized(after, after))
        PROVE  Outcome
    <2>1. Sound(candidate)
      BY <1>3, <1>4, ReadableIsSound
    <2>2. \A e \in Present(candidate) :
            places[e] \in (Present(candidate) \cap Groups) \cup {Root}
      BY <1>2, <1>4, <2>1 DEF Sound, WellPlaced
    <2>3. /\ DOMAIN places = Present(candidate) /\ Present(candidate) \subseteq Endpoints
          /\ places = [e \in Present(candidate) |-> places[e]]
      BY <2>1, SoundFacts
    <2>. HIDE DEF places
    <2>4. places \in [DOMAIN places -> Groups \cup {Root}] /\ DOMAIN places \subseteq Endpoints
      BY <2>2, <2>3
    <2>5. /\ IsDocument(moved) /\ moved.within = places
          /\ moved.relations = candidate.relations
          /\ Present(moved) = Present(candidate) /\ Ids(moved) = Ids(candidate)
          /\ NoRepeats(candidate) => NoRepeats(moved)
      BY <1>3, <2>3, <2>4, Rehoused
    <2>. HIDE DEF moved
    <2>6. Sound(moved)
      BY <2>1, <2>2, <2>5 DEF Sound, WellPlaced
    <2>7. Sound(after) /\ after.relations = moved.relations
      BY <2>6, PlacedDocument
    <2>. HIDE DEF after
    <2>8. NoRepeats(moved) => NoRepeats(after)
      BY <2>7 DEF NoRepeats, Ids
    <2>. QED
      BY <1>4, <2>5, <2>7, <2>8 DEF Outcome, Sound
  <1>. QED
    BY <1>1, <1>4 DEF Outcome

-----------------------------------------------------------------------------
(* What a command leaves *)

\* The executor's steps on a candidate.
Execute ==
  \/ ExecuteCreate \/ ExecuteRelate \/ ExecuteRedirect \/ ExecuteRehouse \/ ExecuteCut
  \/ ExecuteDelete \/ ExecuteGroup \/ ExecuteUngroup \/ ExecuteMove

LEMMA ExecuteOutcome ==
  ASSUME DocumentInv, Execute
  PROVE  Outcome /\ running # Nobody /\ rest # <<>>
  <1>1. Outcome
    BY CreateOutcome, RelateOutcome, RedirectOutcome, RehouseOutcome, CutOutcome,
       DeleteOutcome, GroupOutcome, UngroupOutcome, MoveOutcome DEF Execute
  <1>2. running # Nobody /\ rest # <<>>
    BY DEF Execute, ExecuteCreate, ExecuteRelate, ExecuteRedirect, ExecuteRehouse, ExecuteCut,
           ExecuteDelete, ExecuteGroup, ExecuteUngroup, ExecuteMove, Next1
  <1>. QED
    BY <1>1, <1>2

LEMMA NoBatchTyped == NoBatch \in Batch
  <1>1. <<>> \in Seq(Command)
    OBVIOUS
  <1>. QED
    BY <1>1 DEF NoBatch, Batch

LEMMA DiscardInv ==
  ASSUME DocumentInv, Discard
  PROVE  DocumentInv'
  <1>1. <<>> \in Seq(Command)
    OBVIOUS
  <1>. QED
    BY <1>1, NoBatchTyped DEF DocumentInv, Discard, Readable, Valid, Cyclic, Adjacency

LEMMA OutcomeInv ==
  ASSUME DocumentInv, Outcome, rest # <<>>
  PROVE  DocumentInv'
  <1>1. CASE Discard
    BY <1>1, DiscardInv
  <1>2. ASSUME NEW after, NEW final, Proceed(Finalized(after, final)), IsDocument(after),
               Checked(after) => Sound(final)
        PROVE  DocumentInv'
    <2>. DEFINE next == Finalized(after, final)
    <2>1. IsDocument(next)
      <3>1. Checked(after) => IsDocument(PlaceJunctions(final))
        BY <1>2, PlacedDocument DEF Sound
      <3>. QED
        BY <1>2, <3>1 DEF Finalized
    <2>. HIDE DEF next
    <2>2. /\ candidate' = next /\ rest' = Tail(rest)
          /\ UNCHANGED <<document, proposed, running, batches>>
      BY <1>2 DEF Proceed, next
    <2>3. rest' \in Seq(Command)
      BY <2>2 DEF DocumentInv
    <2>4. IsDocument(candidate)'
      BY <2>1, <2>2 DEF IsDocument, Present, Ids
    <2>5. (IsDocument(document) /\ Readable(document))'
      BY <2>2 DEF DocumentInv
    <2>. QED
      BY <2>2, <2>3, <2>4, <2>5 DEF DocumentInv
  <1>. QED
    BY <1>1, <1>2 DEF Outcome

LEMMA OutcomeFollows ==
  ASSUME DocumentInv, Outcome, Finalizes
  PROVE  /\ JunctionsFollow(candidate')
         /\ NoRepeats(candidate) => NoRepeats(candidate')
  <1>1. ~Discard
    BY DEF Discard, Finalizes
  <1>2. PICK after, final :
          /\ Proceed(Finalized(after, final)) /\ IsDocument(after)
          /\ Checked(after) => /\ Sound(final)
                               /\ NoRepeats(candidate) => NoRepeats(final)
    BY <1>1 DEF Outcome
  <1>3. candidate' = Finalized(after, final)
    BY <1>2 DEF Proceed
  <1>4. Checked(after)
    BY <1>3 DEF Finalized, Finalizes, Checked
  <1>5. candidate' = PlaceJunctions(final) /\ Sound(final)
    BY <1>2, <1>3, <1>4 DEF Finalized
  <1>6. JunctionsFollow(PlaceJunctions(final))
    BY <1>5, PlacedFollow
  <1>7. PlaceJunctions(final).relations = final.relations
    BY <1>5, PlacedDocument
  <1>8. NoRepeats(final) => NoRepeats(PlaceJunctions(final))
    BY <1>7 DEF NoRepeats, Ids
  <1>. QED
    BY <1>2, <1>4, <1>5, <1>6, <1>8

-----------------------------------------------------------------------------
(* The commands a gesture makes *)

\* A finite set in some order.
LEMMA Ordered ==
  ASSUME NEW S, IsFiniteSet(S)
  PROVE  SetToSeq(S) \in Seq(S) /\ Len(SetToSeq(S)) = Cardinality(S)
  <1>. DEFINE n == Cardinality(S)
              T == [1 .. n -> S]
              P(f) == IsInjective(f)
  <1>1. n \in Nat /\ ExistsBijection(1 .. n, S)
    BY FS_CardinalityType
  <1>2. PICK f : f \in T /\ P(f)
    BY <1>1 DEF ExistsBijection, Bijection, Injection
  <1>3. SetToSeq(S) = CHOOSE h \in T : P(h)
    BY DEF SetToSeq
  <1>. HIDE DEF T, P
  <1>4. SetToSeq(S) \in T
    BY <1>2, <1>3
  <1>. HIDE DEF n
  <1>5. SetToSeq(S) \in Seq(S) /\ DOMAIN SetToSeq(S) = 1 .. n
    BY <1>1, <1>4 DEF T
  <1>6. Len(SetToSeq(S)) = n
    BY <1>1, <1>5
  <1>. QED
    BY <1>5, <1>6 DEF n

\* As many different members of a finite set as it has.
LEMMA Distinct ==
  ASSUME NEW S, IsFiniteSet(S), NEW n \in Nat, n <= Cardinality(S)
  PROVE  (CHOOSE f \in [1 .. n -> S] : IsInjective(f)) \in [1 .. n -> S]
  <1>. DEFINE T == [1 .. n -> S]
              P(f) == IsInjective(f)
  <1>1. Cardinality(S) \in Nat /\ ExistsBijection(1 .. Cardinality(S), S)
    BY FS_CardinalityType
  <1>2. PICK f : f \in [1 .. Cardinality(S) -> S] /\ IsInjective(f)
    BY <1>1 DEF ExistsBijection, Bijection, Injection
  <1>. DEFINE g == [k \in 1 .. n |-> f[k]]
  <1>3. 1 .. n \subseteq 1 .. Cardinality(S)
    BY <1>1
  <1>4. g \in T
    BY <1>2, <1>3
  <1>5. P(g)
    BY <1>2, <1>3 DEF IsInjective
  <1>. HIDE DEF T, P, g
  <1>6. (CHOOSE h \in T : P(h)) \in T
    BY <1>4, <1>5
  <1>. QED
    BY <1>6 DEF T, P

LEMMA FreeIdentifiers ==
  Free \subseteq RelationIds /\ IsFiniteSet(Free) /\ Cardinality(Free) \in Nat
  <1>1. Free \in SUBSET RelationIds
    BY DEF Free
  <1>. HIDE DEF Free
  <1>2. IsFiniteSet(Free)
    BY <1>1, FS_Subset, DocumentAssumption
  <1>. QED
    BY <1>1, <1>2, FS_CardinalityType

LEMMA RelationsTyped ==
  ASSUME NEW pairs, IsFiniteSet(pairs), pairs \subseteq Endpoints \X Endpoints,
         Cardinality(pairs) <= Cardinality(Free)
  PROVE  Relations(pairs) \in Seq(Command)
  <1>. DEFINE list == SetToSeq(pairs)
              n == Len(list)
              ids == CHOOSE f \in [1 .. n -> Free] : IsInjective(f)
              command(k) == [op |-> "relate", id |-> ids[k], from |-> list[k][1], to |-> list[k][2]]
  <1>1. list \in Seq(pairs) /\ n = Cardinality(pairs) /\ n \in Nat
    BY Ordered, FS_CardinalityType
  <1>2. ids \in [1 .. n -> Free]
    <2>. HIDE DEF n
    <2>. QED
      BY <1>1, FreeIdentifiers, Distinct
  <1>3. Relations(pairs) = [k \in 1 .. n |-> command(k)]
    BY DEF Relations
  <1>. HIDE DEF ids, list
  <1>4. ASSUME NEW k \in 1 .. n
        PROVE  command(k) \in Command
    <2>1. ids[k] \in RelationIds
      BY <1>2, FreeIdentifiers
    <2>2. list[k] \in Endpoints \X Endpoints
      BY <1>1
    <2>3. list[k][1] \in Endpoints /\ list[k][2] \in Endpoints
      BY <2>2
    <2>. QED
      BY <2>1, <2>3 DEF Command
  <1>. HIDE DEF n, command
  <1>. QED
    BY <1>1, <1>3, <1>4

\* The place of a new junction.
LEMMA PlaceForTyped ==
  ASSUME NEW d, Sound(d), NEW targets, targets \subseteq Present(d), targets # {}
  PROVE  PlaceFor(d, targets) \in Groups \cup {Root}
  <1>. DEFINE p == PlaceJunctions(d)
              cs == {p.within[t] : t \in targets}
  <1>1. Sound(p) /\ Present(p) = Present(d)
    BY PlacedDocument
  <1>. HIDE DEF p
  <1>2. cs \subseteq (Present(d) \cap Groups) \cup {Root} /\ cs # {}
    BY <1>1 DEF Sound, WellPlaced
  <1>3. WellPlaced(d)
    BY DEF Sound
  <1>. HIDE DEF cs
  <1>4. CommonContainer(d, cs) \in Groups \cup {Root}
    BY <1>2, <1>3, CommonContainerIs
  <1>. QED
    BY <1>4 DEF PlaceFor, cs, p

\* What is reached ends a relation.
LEMMA ReachedTyped ==
  ASSUME NEW d, EndsKnown(d), NEW ids, ids \subseteq Ids(d), NEW sources, NEW junctions
  PROVE  Reached(d, ids, sources, junctions) \subseteq Endpoints
  <1>. DEFINE N == Cardinality(Junctions)
              S == SUBSET Endpoints
              a == Onward(d, ids, sources)
              F == [s \in S |-> s \cup Onward(d, ids, s \cap junctions)]
              P(f) == f = [n \in 0 .. N |->
                             IF n = 0 THEN Onward(d, ids, sources)
                             ELSE f[n - 1] \cup Onward(d, ids, f[n - 1] \cap junctions)]
              seen == CHOOSE f : P(f)
  <1>1. \A s : Onward(d, ids, s) \in S
    BY DEF Onward, EndsKnown
  <1>2. N \in Nat /\ a \in S /\ F \in [S -> S]
    BY <1>1, FiniteIdentifiers
  <1>3. PICK f : IsRounds(f, N, S, a, F)
    <2>. HIDE DEF N, S, F, a
    <2>. QED
      BY <1>2, Rounds
  <1>4. P(f)
    <2>1. ASSUME NEW n \in 1 .. N
          PROVE  f[n] = f[n - 1] \cup Onward(d, ids, f[n - 1] \cap junctions)
      <3>1. n - 1 \in 0 .. N
        BY <1>2
      <3>. HIDE DEF N, S
      <3>2. f[n - 1] \in S /\ f[n] = F[f[n - 1]]
        BY <1>3, <3>1 DEF IsRounds
      <3>. QED
        BY <3>2
    <2>2. \A n \in 0 .. N : n = 0 \/ n \in 1 .. N
      BY <1>2
    <2>3. f = [n \in 0 .. N |-> f[n]] /\ f[0] = Onward(d, ids, sources)
      BY <1>3 DEF IsRounds
    <2>4. \A n \in 0 .. N : f[n] = IF n = 0 THEN Onward(d, ids, sources)
                                   ELSE f[n - 1] \cup Onward(d, ids, f[n - 1] \cap junctions)
      BY <2>1, <2>2, <2>3
    <2>. QED
      BY <2>3, <2>4
  <1>5. P(seen)
    <2>. HIDE DEF P
    <2>. QED
      BY <1>4
  <1>6. Reached(d, ids, sources, junctions) = seen[N]
    BY DEF Reached
  <1>. HIDE DEF seen
  <1>7. seen[N] \in S
    <2>1. \A n \in 1 .. N : seen[n - 1] \in S => seen[n] \in S
      <3>1. \A n \in 1 .. N : n \in 0 .. N /\ n # 0
        BY <1>2
      <3>2. \A n \in 1 .. N :
              seen[n] = seen[n - 1] \cup Onward(d, ids, seen[n - 1] \cap junctions)
        BY <1>5, <3>1
      <3>. QED
        BY <1>1, <3>2
    <2>2. 0 \in 0 .. N /\ N \in 0 .. N
      BY <1>2
    <2>3. seen[0] \in S
      BY <1>1, <1>5, <2>2
    <2>. HIDE DEF S, N
    <2>. QED
      BY <1>2, <2>1, <2>2, <2>3, RoundsStay
  <1>. QED
    BY <1>6, <1>7

LEMMA BridgesTyped ==
  ASSUME NEW d, Sound(d), NEW removed, NEW chosen
  PROVE  /\ JunctionBridges(d, removed, chosen) \subseteq Endpoints \X Endpoints
         /\ IsFiniteSet(JunctionBridges(d, removed, chosen))
  <1>1. EndsKnown(d)
    BY SoundFacts
  <1>. DEFINE carried == Ids(d) \ chosen
              junctions == removed \cap Junctions
              onward(r) == Reached(d, carried, {d.relations[r].to}, junctions)
  <1>2. \A r \in carried : d.relations[r].from \in Endpoints /\ onward(r) \subseteq Endpoints
    BY <1>1, ReachedTyped DEF EndsKnown
  <1>3. JunctionBridges(d, removed, chosen)
          = UNION {({d.relations[r].from} \X onward(r))
                     : r \in {r \in carried : d.relations[r].from \notin removed
                                              /\ d.relations[r].to \in junctions}}
            \ (Pairs(d, Ids(d)) \cup (Endpoints \X removed))
    BY DEF JunctionBridges
  <1>. HIDE DEF onward
  <1>4. JunctionBridges(d, removed, chosen) \in SUBSET (Endpoints \X Endpoints)
    BY <1>2, <1>3
  <1>5. IsFiniteSet(Endpoints \X Endpoints)
    BY FiniteIdentifiers, FS_Product
  <1>. QED
    BY <1>4, <1>5, FS_Subset

Gestures == {"relate", "redirect", "rehouse", "box", "junction", "group", "move", "dissolve",
             "erase"}

LEMMA ProposeInv ==
  ASSUME DocumentInv, NEW c \in Clients, MayPropose(c), NEW gesture \in Gestures,
         NEW commands \in Seq(Command), NEW chosen \in SUBSET RelationIds,
         NEW gone \in SUBSET Endpoints, Propose(c, gesture, commands, chosen, gone)
  PROVE  DocumentInv'
  <1>. DEFINE batch == [gesture |-> gesture, commands |-> commands, chosen |-> chosen,
                        gone |-> gone, current |-> TRUE]
  <1>1. batch \in Batch
    BY DEF Batch, Gestures
  <1>2. /\ batches' = batches + 1 /\ proposed' = [proposed EXCEPT ![c] = batch]
        /\ UNCHANGED <<document, running, candidate, rest>>
    BY DEF Propose
  <1>. HIDE DEF batch
  <1>3. (proposed \in [Clients -> Batch])'
    BY <1>1, <1>2 DEF DocumentInv
  <1>4. (batches \in 0 .. MaxBatches)'
    BY <1>2, SharedDocumentAssumption DEF DocumentInv, MayPropose
  <1>5. (IsDocument(document) /\ Readable(document) /\ IsDocument(candidate))'
    BY <1>2 DEF DocumentInv
  <1>. QED
    BY <1>2, <1>3, <1>4, <1>5 DEF DocumentInv

LEMMA DocumentFacts ==
  ASSUME DocumentInv
  PROVE  /\ Sound(document) /\ Present(document) \subseteq Endpoints
         /\ Ids(document) \subseteq RelationIds
         /\ \A e \in Present(document) : document.within[e] \in Groups \cup {Root}
         /\ \A r \in Ids(document) : /\ document.relations[r].from \in Present(document)
                                     /\ document.relations[r].to \in Present(document)
  <1>1. Sound(document)
    BY ReadableIsSound DEF DocumentInv
  <1>2. Present(document) \subseteq Endpoints /\ Ids(document) \subseteq RelationIds
    BY <1>1 DEF Sound, IsDocument
  <1>. QED
    BY <1>1, <1>2 DEF Sound, WellPlaced

LEMMA SingleCommand ==
  ASSUME NEW command \in Command
  PROVE  <<command>> \in Seq(Command)
  OBVIOUS

LEMMA SingleInv ==
  ASSUME DocumentInv, NEW c \in Clients, MayPropose(c), NEW gesture \in Gestures,
         NEW command \in Command, Propose(c, gesture, <<command>>, {}, {})
  PROVE  DocumentInv'
  <1>. DEFINE commands == <<command>>
  <1>1. commands \in Seq(Command)
    BY SingleCommand
  <1>2. Propose(c, gesture, commands, {}, {})
    OBVIOUS
  <1>. HIDE DEF commands
  <1>. QED
    BY <1>1, <1>2, ProposeInv

LEMMA RelateInv ==
  ASSUME DocumentInv, NEW c \in Clients, MayPropose(c), Relate(c)
  PROVE  DocumentInv'
  <1>1. PICK from \in Present(document), to \in Present(document) :
          Free # {} /\ Propose(c, "relate", Relations({<<from, to>>}), {}, {})
    BY DEF Relate
  <1>. DEFINE pairs == {<<from, to>>}
              commands == Relations(pairs)
  <1>2. IsFiniteSet(pairs) /\ Cardinality(pairs) = 1
    BY FS_Singleton
  <1>3. pairs \subseteq Endpoints \X Endpoints
    BY DocumentFacts
  <1>4. Cardinality(Free) # 0
    BY <1>1, FreeIdentifiers, FS_EmptySet
  <1>5. Cardinality(pairs) <= Cardinality(Free)
    BY <1>2, <1>4, FreeIdentifiers
  <1>. HIDE DEF pairs
  <1>6. commands \in Seq(Command)
    BY <1>2, <1>3, <1>5, RelationsTyped
  <1>7. Propose(c, "relate", commands, {}, {}) /\ "relate" \in Gestures
    BY <1>1 DEF pairs, Gestures
  <1>. HIDE DEF commands
  <1>. QED
    BY <1>6, <1>7, ProposeInv

LEMMA RedirectInv ==
  ASSUME DocumentInv, NEW c \in Clients, MayPropose(c), Redirect(c)
  PROVE  DocumentInv'
  <1>1. PICK r \in Ids(document), side \in {"from", "to"}, e \in Present(document) :
          Propose(c, "redirect", <<[op |-> "redirect", id |-> r, side |-> side, end |-> e]>>,
                  {}, {})
    BY DEF Redirect
  <1>. DEFINE command == [op |-> "redirect", id |-> r, side |-> side, end |-> e]
  <1>2. command \in Command
    BY DocumentFacts DEF Command
  <1>3. Propose(c, "redirect", <<command>>, {}, {}) /\ "redirect" \in Gestures
    BY <1>1 DEF Gestures
  <1>. HIDE DEF command
  <1>. QED
    BY <1>2, <1>3, SingleInv

LEMMA RehouseInv ==
  ASSUME DocumentInv, NEW c \in Clients, MayPropose(c), Rehouse(c)
  PROVE  DocumentInv'
  <1>1. PICK e \in Present(document), g \in (Present(document) \cap Groups) \cup {Root} :
          Propose(c, "rehouse", <<[op |-> "rehouse", id |-> e, into |-> g]>>, {}, {})
    BY DEF Rehouse
  <1>. DEFINE command == [op |-> "rehouse", id |-> e, into |-> g]
  <1>2. command \in Command
    BY DocumentFacts DEF Command
  <1>3. Propose(c, "rehouse", <<command>>, {}, {}) /\ "rehouse" \in Gestures
    BY <1>1 DEF Gestures
  <1>. HIDE DEF command
  <1>. QED
    BY <1>2, <1>3, SingleInv

LEMMA GroupTogetherInv ==
  ASSUME DocumentInv, NEW c \in Clients, MayPropose(c), GroupTogether(c)
  PROVE  DocumentInv'
  <1>1. PICK g \in NewId(Groups), members \in Selections(Boxes(document)) :
          Propose(c, "group", <<[op |-> "group", id |-> g, members |-> members]>>, {}, {})
    BY DEF GroupTogether
  <1>. DEFINE command == [op |-> "group", id |-> g, members |-> members]
  <1>2. g \in Groups /\ members \in SUBSET Endpoints
    BY DocumentFacts DEF NewId, Selections, Boxes
  <1>3. command \in Command
    BY <1>2 DEF Command
  <1>4. Propose(c, "group", <<command>>, {}, {}) /\ "group" \in Gestures
    BY <1>1 DEF Gestures
  <1>. HIDE DEF command
  <1>. QED
    BY <1>3, <1>4, SingleInv

LEMMA MoveIntoInv ==
  ASSUME DocumentInv, NEW c \in Clients, MayPropose(c), MoveInto(c)
  PROVE  DocumentInv'
  <1>1. PICK ids \in Selections(Present(document) \ Junctions),
             g \in (Present(document) \cap Groups) \cup {Root} :
          Propose(c, "move", <<[op |-> "move", ids |-> ids, into |-> g]>>, {}, {})
    BY DEF MoveInto
  <1>. DEFINE command == [op |-> "move", ids |-> ids, into |-> g]
  <1>2. ids \in SUBSET Endpoints
    BY DocumentFacts DEF Selections
  <1>3. command \in Command
    BY <1>2 DEF Command
  <1>4. Propose(c, "move", <<command>>, {}, {}) /\ "move" \in Gestures
    BY <1>1 DEF Gestures
  <1>. HIDE DEF command
  <1>. QED
    BY <1>3, <1>4, SingleInv

LEMMA DissolveInv ==
  ASSUME DocumentInv, NEW c \in Clients, MayPropose(c), Dissolve(c)
  PROVE  DocumentInv'
  <1>1. PICK g \in Present(document) \cap Groups :
          Propose(c, "dissolve", <<[op |-> "ungroup", id |-> g]>>, {}, {})
    BY DEF Dissolve
  <1>. DEFINE command == [op |-> "ungroup", id |-> g]
  <1>2. command \in Command
    BY DEF Command
  <1>3. Propose(c, "dissolve", <<command>>, {}, {}) /\ "dissolve" \in Gestures
    BY <1>1 DEF Gestures
  <1>. HIDE DEF command
  <1>. QED
    BY <1>2, <1>3, SingleInv

LEMMA AddBoxInv ==
  ASSUME DocumentInv, NEW c \in Clients, MayPropose(c), AddBox(c)
  PROVE  DocumentInv'
  <1>1. PICK n \in NewId(Nodes), e \in Present(document) :
          \E parents \in {{e}, Targets(document, e)} :
            /\ Cardinality(parents) <= Cardinality(Free)
            /\ Propose(c, "box",
                 <<[op |-> "create", id |-> n, into |-> document.within[e]]>>
                 \o Relations({n} \X parents), {}, {})
    BY DEF AddBox
  <1>2. PICK parents \in {{e}, Targets(document, e)} :
          /\ Cardinality(parents) <= Cardinality(Free)
          /\ Propose(c, "box",
               <<[op |-> "create", id |-> n, into |-> document.within[e]]>>
               \o Relations({n} \X parents), {}, {})
    BY <1>1
  <1>. DEFINE create == [op |-> "create", id |-> n, into |-> document.within[e]]
              pairs == {n} \X parents
              commands == <<create>> \o Relations(pairs)
  <1>3. n \in Endpoints
    BY DEF NewId, Endpoints
  <1>4. create \in Command
    BY <1>3, DocumentFacts DEF Command
  <1>5. parents \in SUBSET Endpoints
    <2>1. Targets(document, e) \subseteq Present(document)
      BY DocumentFacts, SoundFacts
    <2>. QED
      BY <2>1, DocumentFacts
  <1>6. IsFiniteSet(parents) /\ Cardinality(parents) \in Nat
    BY <1>5, FiniteIdentifiers, FS_Subset, FS_CardinalityType
  <1>7. IsFiniteSet(pairs) /\ Cardinality(pairs) = Cardinality({n}) * Cardinality(parents)
    BY <1>6, FS_Singleton, FS_Product
  <1>8. Cardinality(pairs) <= Cardinality(Free)
    BY <1>2, <1>6, <1>7, FS_Singleton
  <1>9. pairs \subseteq Endpoints \X Endpoints
    BY <1>3, <1>5
  <1>. HIDE DEF create, pairs
  <1>10. commands \in Seq(Command)
    BY <1>4, <1>7, <1>8, <1>9, RelationsTyped, SingleCommand
  <1>11. Propose(c, "box", commands, {}, {}) /\ "box" \in Gestures
    BY <1>2 DEF Gestures, create, pairs
  <1>. HIDE DEF commands
  <1>. QED
    BY <1>10, <1>11, ProposeInv

LEMMA InsertJunctionInv ==
  ASSUME DocumentInv, NEW c \in Clients, MayPropose(c), InsertJunction(c)
  PROVE  DocumentInv'
  <1>1. PICK replaced \in Selections(Ids(document)), j \in NewId(Junctions) :
          LET pairs == Pairs(document, replaced)
              sources == {pair[1] : pair \in pairs}
              targets == {pair[2] : pair \in pairs}
          IN /\ Cardinality(Free) >= Cardinality(sources) + Cardinality(targets)
             /\ Propose(c, "junction",
                  <<[op |-> "create", id |-> j, into |-> PlaceFor(document, targets)]>>
                  \o Relations((sources \X {j}) \cup ({j} \X targets))
                  \o <<[op |-> "cut", ids |-> replaced]>>, {}, {})
    BY DEF InsertJunction
  <1>. DEFINE replacedPairs == Pairs(document, replaced)
              sources == {pair[1] : pair \in replacedPairs}
              targets == {pair[2] : pair \in replacedPairs}
              create == [op |-> "create", id |-> j, into |-> PlaceFor(document, targets)]
              cut == [op |-> "cut", ids |-> replaced]
              both == (sources \X {j}) \cup ({j} \X targets)
              commands == <<create>> \o Relations(both) \o <<cut>>
  <1>2. j \in Endpoints /\ replaced \subseteq Ids(document) /\ replaced # {}
    <2>1. replaced \subseteq Ids(document) /\ Cardinality(replaced) \in 1 .. MaxSelected
      BY DEF Selections
    <2>2. Cardinality(replaced) # 0
      BY <2>1, SharedDocumentAssumption
    <2>3. replaced # {}
      BY <2>2, FS_EmptySet
    <2>. QED
      BY <2>1, <2>3 DEF NewId, Endpoints
  <1>3. /\ sources \subseteq Present(document) /\ targets \subseteq Present(document)
        /\ targets # {}
    <2>1. \A pair \in replacedPairs : pair[1] \in Present(document) /\ pair[2] \in Present(document)
      BY <1>2, DocumentFacts DEF Pairs
    <2>2. replacedPairs # {}
      BY <1>2 DEF Pairs
    <2>. HIDE DEF replacedPairs
    <2>. QED
      BY <2>1, <2>2
  <1>4. /\ Cardinality(Free) >= Cardinality(sources) + Cardinality(targets)
        /\ Propose(c, "junction", commands, {}, {}) /\ "junction" \in Gestures
    BY <1>1 DEF Gestures
  <1>. HIDE DEF replacedPairs, sources, targets
  <1>5. sources \in SUBSET Endpoints /\ targets \in SUBSET Endpoints
    BY <1>3, DocumentFacts
  <1>6. /\ IsFiniteSet(sources) /\ Cardinality(sources) \in Nat
        /\ IsFiniteSet(targets) /\ Cardinality(targets) \in Nat
    BY <1>5, FiniteIdentifiers, FS_Subset, FS_CardinalityType
  <1>7. IsFiniteSet(both) /\ Cardinality(both) <= Cardinality(Free)
    <2>. DEFINE left == sources \X {j}
                right == {j} \X targets
    <2>1. IsFiniteSet({j}) /\ Cardinality({j}) = 1
      BY FS_Singleton
    <2>2. IsFiniteSet(left) /\ Cardinality(left) = Cardinality(sources) * 1
      BY <1>6, <2>1, FS_Product
    <2>3. IsFiniteSet(right) /\ Cardinality(right) = 1 * Cardinality(targets)
      BY <1>6, <2>1, FS_Product
    <2>. HIDE DEF left, right
    <2>4. IsFiniteSet(left \cup right)
          /\ Cardinality(left \cup right)
               = Cardinality(left) + Cardinality(right) - Cardinality(left \cap right)
      BY <2>2, <2>3, FS_Union
    <2>5. Cardinality(left \cap right) \in Nat
      BY <2>2, FS_Intersection, FS_CardinalityType
    <2>6. Cardinality(left \cup right) <= Cardinality(Free)
      BY <1>4, <1>6, <2>2, <2>3, <2>4, <2>5, FreeIdentifiers
    <2>. QED
      BY <2>4, <2>6 DEF left, right
  <1>8. both \subseteq Endpoints \X Endpoints
    BY <1>2, <1>5
  <1>. HIDE DEF both
  <1>9. create \in Command
    <2>1. PlaceFor(document, targets) \in Groups \cup {Root}
      BY <1>3, DocumentFacts, PlaceForTyped
    <2>. QED
      BY <1>2, <2>1 DEF Command
  <1>10. cut \in Command
    BY <1>2, DocumentFacts DEF Command
  <1>. HIDE DEF create, cut
  <1>11. commands \in Seq(Command)
    <2>1. Relations(both) \in Seq(Command)
      BY <1>7, <1>8, RelationsTyped
    <2>. QED
      BY <1>9, <1>10, <2>1, SingleCommand
  <1>. HIDE DEF commands
  <1>. QED
    BY <1>4, <1>11, ProposeInv

LEMMA RemovalsTyped ==
  ASSUME DocumentInv, NEW ends, NEW chosen, chosen \subseteq Ids(document),
         LET removed == Removed(document, ends)
         IN Cardinality(JunctionBridges(document, removed, chosen)) <= Cardinality(Free)
  PROVE  Removals(document, ends, chosen) \in Seq(Command)
  <1>. DEFINE removed == Removed(document, ends)
              bridges == JunctionBridges(document, removed, chosen)
              cut == chosen \cup Touching(document, removed)
              boxes == SetToSeq(removed \cap Nodes)
              groups == SetToSeq(removed \cap Groups)
              cuts == IF cut = {} THEN <<>> ELSE <<[op |-> "cut", ids |-> cut]>>
              deletes == [k \in 1 .. Len(boxes) |-> [op |-> "delete", id |-> boxes[k]]]
              ungroups == [k \in 1 .. Len(groups) |-> [op |-> "ungroup", id |-> groups[k]]]
  <1>1. Relations(bridges) \in Seq(Command)
    <2>. HIDE DEF removed
    <2>1. bridges \subseteq Endpoints \X Endpoints /\ IsFiniteSet(bridges)
      BY BridgesTyped, DocumentFacts
    <2>2. Cardinality(bridges) <= Cardinality(Free)
      BY DEF removed
    <2>. HIDE DEF bridges
    <2>. QED
      BY <2>1, <2>2, RelationsTyped
  <1>2. Removals(document, ends, chosen) = Relations(bridges) \o cuts \o deletes \o ungroups
    BY DEF Removals
  <1>3. cuts \in Seq(Command)
    <2>1. cut \in SUBSET RelationIds
      BY DocumentFacts DEF Touching
    <2>. HIDE DEF cut
    <2>2. [op |-> "cut", ids |-> cut] \in Command
      BY <2>1 DEF Command
    <2>. QED
      BY <2>2, SingleCommand
  <1>4. deletes \in Seq(Command)
    <2>1. IsFiniteSet(removed \cap Nodes)
      BY DocumentAssumption, FS_Intersection
    <2>2. boxes \in Seq(removed \cap Nodes) /\ Len(boxes) \in Nat
      BY <2>1, Ordered, FS_CardinalityType
    <2>. HIDE DEF boxes, removed
    <2>3. \A k \in 1 .. Len(boxes) : boxes[k] \in Endpoints
      BY <2>2 DEF Endpoints
    <2>4. \A k \in 1 .. Len(boxes) : [op |-> "delete", id |-> boxes[k]] \in Command
      BY <2>3 DEF Command
    <2>. HIDE DEF Command
    <2>. QED
      BY <2>2, <2>4
  <1>5. ungroups \in Seq(Command)
    <2>1. IsFiniteSet(removed \cap Groups)
      BY DocumentAssumption, FS_Intersection
    <2>2. groups \in Seq(removed \cap Groups) /\ Len(groups) \in Nat
      BY <2>1, Ordered, FS_CardinalityType
    <2>. HIDE DEF groups, removed
    <2>3. \A k \in 1 .. Len(groups) : groups[k] \in Groups
      BY <2>2
    <2>4. \A k \in 1 .. Len(groups) : [op |-> "ungroup", id |-> groups[k]] \in Command
      BY <2>3 DEF Command
    <2>. QED
      BY <2>2, <2>4
  <1>. HIDE DEF bridges, cuts, deletes, ungroups
  <1>. QED
    BY <1>1, <1>2, <1>3, <1>4, <1>5

LEMMA EraseInv ==
  ASSUME DocumentInv, NEW c \in Clients, MayPropose(c), Erase(c)
  PROVE  DocumentInv'
  <1>1. PICK ends \in SUBSET Present(document), chosen \in SUBSET Ids(document) :
          /\ Cardinality(JunctionBridges(document, Removed(document, ends), chosen))
               <= Cardinality(Free)
          /\ Propose(c, "erase", Deletion(document, ends, chosen), chosen,
                     Removed(document, ends))
    BY DEF Erase
  <1>. DEFINE removed == Removed(document, ends)
              commands == Removals(document, ends, chosen)
              deletion == Deletion(document, ends, chosen)
              last == [op |-> "delete", id |-> CHOOSE j \in removed \cap Junctions : TRUE]
  <1>2. commands \in Seq(Command)
    BY <1>1, RemovalsTyped
  <1>3. \/ deletion = commands
        \/ removed \cap Junctions # {} /\ deletion = Append(commands, last)
    BY DEF Deletion
  <1>. HIDE DEF commands
  <1>4. deletion \in Seq(Command)
    <2>1. CASE deletion = commands
      BY <1>2, <2>1
    <2>2. CASE removed \cap Junctions # {} /\ deletion = Append(commands, last)
      <3>. DEFINE j == CHOOSE k \in removed \cap Junctions : TRUE
      <3>1. j \in Endpoints
        BY <2>2 DEF Endpoints
      <3>2. last \in Command
        BY <3>1 DEF Command
      <3>. HIDE DEF last
      <3>. QED
        BY <1>2, <2>2, <3>2
    <2>. QED
      BY <1>3, <2>1, <2>2
  <1>5. removed \in SUBSET Endpoints /\ chosen \in SUBSET RelationIds
    BY DocumentFacts DEF Removed
  <1>6. Propose(c, "erase", deletion, chosen, removed) /\ "erase" \in Gestures
    BY <1>1 DEF Gestures
  <1>. HIDE DEF deletion, removed
  <1>. QED
    BY <1>4, <1>5, <1>6, ProposeInv

-----------------------------------------------------------------------------
(* The room's document *)

LEMMA DocumentInitially ==
  ASSUME Init
  PROVE  DocumentInv
  <1>1. IsDocument(document) /\ Readable(document) /\ candidate = document
    BY SharedDocumentAssumption DEF Init
  <1>2. <<>> \in Seq(Command)
    OBVIOUS
  <1>3. proposed \in [Clients -> Batch]
    BY NoBatchTyped DEF Init
  <1>. QED
    BY <1>1, <1>2, <1>3, SharedDocumentAssumption DEF Init, DocumentInv

LEMMA BeginInv ==
  ASSUME DocumentInv, NEW c \in Clients, Begin(c)
  PROVE  DocumentInv'
  <1>1. /\ running' = c /\ candidate' = document /\ rest' = proposed[c].commands
        /\ UNCHANGED <<document, proposed, batches>>
    BY DEF Begin
  <1>2. proposed[c].commands \in Seq(Command)
    BY DEF DocumentInv, Batch
  <1>3. (IsDocument(document) /\ Readable(document))'
    BY <1>1 DEF DocumentInv
  <1>4. IsDocument(candidate)'
    BY <1>1 DEF DocumentInv, IsDocument, Present, Ids
  <1>. QED
    BY <1>1, <1>2, <1>3, <1>4 DEF DocumentInv

LEMMA FinishInv ==
  ASSUME DocumentInv, Finish
  PROVE  DocumentInv'
  <1>1. CASE Discard
    BY <1>1, DiscardInv
  <1>2. CASE Readable(candidate) /\ ~Discard
    <2>1. /\ document' = candidate /\ running' = Nobody
          /\ proposed' = [c \in Clients |->
               IF c = running \/ proposed[c] = NoBatch THEN NoBatch
               ELSE [proposed[c] EXCEPT !.current = @ /\ candidate = document]]
          /\ UNCHANGED <<candidate, rest, batches>>
      BY <1>2 DEF Finish
    <2>2. \A c \in Clients : [proposed[c] EXCEPT !.current = @ /\ candidate = document] \in Batch
      <3>1. \A b \in Batch, q \in BOOLEAN : [b EXCEPT !.current = @ /\ q] \in Batch
        BY DEF Batch
      <3>. QED
        BY <3>1 DEF DocumentInv
    <2>3. (proposed \in [Clients -> Batch])'
      BY <2>1, <2>2, NoBatchTyped DEF DocumentInv
    <2>4. (IsDocument(document) /\ Readable(document))'
      BY <1>2, <2>1 DEF DocumentInv, IsDocument, Readable, Valid, Cyclic, Adjacency, Present, Ids
    <2>5. IsDocument(candidate)'
      BY <2>1 DEF DocumentInv
    <2>. QED
      BY <2>1, <2>3, <2>4, <2>5 DEF DocumentInv
  <1>. QED
    BY <1>1, <1>2 DEF Finish

LEMMA DocumentNext ==
  ASSUME DocumentInv, [Next]_vars
  PROVE  DocumentInv'
  <1>1. ASSUME NEW c \in Clients, Gesture(c)
        PROVE  DocumentInv'
    BY <1>1, RelateInv, RedirectInv, RehouseInv, AddBoxInv, InsertJunctionInv,
       GroupTogetherInv, MoveIntoInv, DissolveInv, EraseInv DEF Gesture
  <1>2. ASSUME NEW c \in Clients, Begin(c)
        PROVE  DocumentInv'
    BY <1>2, BeginInv
  <1>3. CASE Execute
    BY <1>3, ExecuteOutcome, OutcomeInv
  <1>4. CASE Finish
    BY <1>4, FinishInv
  <1>5. CASE UNCHANGED vars
    BY <1>5 DEF vars, DocumentInv
  <1>. QED
    BY <1>1, <1>2, <1>3, <1>4, <1>5 DEF Next, Execute

\* The document is what the invariant says, whatever batches are executed.
THEOREM DocumentInvariant == Spec => []DocumentInv
  <1>1. Init => DocumentInv
    BY DocumentInitially
  <1>2. DocumentInv /\ [Next]_vars => DocumentInv'
    BY DocumentNext
  <1>. QED
    BY <1>1, <1>2, PTL DEF Spec

\* Whatever batches clients compute, and however late the room executes them, the
\* room's document reads well: nothing refers to an element that is gone, no group is
\* in itself, and its relations make no cycle.
THEOREM DocumentReadsWell == Spec => []DocumentTypeOK
  <1>1. DocumentInv => DocumentTypeOK
    BY DEF DocumentInv, DocumentTypeOK, Batch
  <1>. QED
    BY <1>1, DocumentInvariant, PTL

\* A command executed between two documents that read well leaves every junction in
\* the deepest group that holds all that its flow reaches, and repeats no relation.
THEOREM JunctionsGoWithTheirTargets == Spec => JunctionsFollowTargets
  <1>1. ASSUME DocumentInv, [Next]_vars, Finalizes
        PROVE  /\ JunctionsFollow(candidate')
               /\ NoRepeats(candidate) => NoRepeats(candidate')
    <2>1. CASE Execute
      BY <1>1, <2>1, ExecuteOutcome, OutcomeFollows
    <2>2. ASSUME NEW c \in Clients, Gesture(c)
          PROVE  FALSE
      BY <1>1, <2>2 DEF Gesture, MayPropose, Finalizes
    <2>3. ASSUME NEW c \in Clients, Begin(c)
          PROVE  FALSE
      BY <1>1, <2>3 DEF Begin, Finalizes
    <2>4. CASE Finish
      BY <1>1, <2>4 DEF Finish, Finalizes
    <2>5. CASE UNCHANGED vars
      <3>1. rest' = rest /\ rest # <<>> /\ rest' = Tail(rest)
        BY <1>1, <2>5 DEF vars, Finalizes
      <3>2. rest \in Seq(Command)
        BY <1>1 DEF DocumentInv
      <3>3. Len(Tail(rest)) = Len(rest) - 1 /\ Len(rest) \in Nat
        BY <3>1, <3>2
      <3>. QED
        BY <3>1, <3>3
    <2>. QED
      BY <1>1, <2>1, <2>2, <2>3, <2>4, <2>5 DEF Next, Execute
  <1>2. DocumentInv /\ [Next]_vars =>
          [Finalizes => /\ JunctionsFollow(candidate')
                        /\ NoRepeats(candidate) => NoRepeats(candidate')]_vars
    BY <1>1
  <1>. QED
    BY <1>2, DocumentInvariant, PTL DEF Spec, JunctionsFollowTargets
=============================================================================
