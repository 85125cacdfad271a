--------------------------- MODULE SharedLemmas ---------------------------
(* What several of the proofs rest on: what PushEvict returns, for every   *)
(* sequence and every capacity; induction up to a number, and along a rank;*)
(* that what recurs along a rank is there; the greatest and the least of a *)
(* set of indexes; sums; and remainders, by any modulus.                   *)
EXTENDS DropOldest, SequenceTheorems, FiniteSetTheorems, TLAPS

(* Tail of a nonempty sequence, element by element.                        *)
LEMMA TailElements ==
  ASSUME NEW S, NEW q \in Seq(S), q # <<>>
  PROVE  /\ Tail(q) \in Seq(S)
         /\ Len(Tail(q)) = Len(q) - 1
         /\ \A i \in 1 .. Len(Tail(q)) : Tail(q)[i] = q[i + 1]
  BY HeadTailProperties

(* An element enters at the new end; the others keep their order, and move *)
(* down by one exactly when the oldest was evicted; the buffer stays       *)
(* within its capacity.                                                    *)
LEMMA PushEvictProperties ==
  ASSUME NEW S, NEW q \in Seq(S), NEW e \in S, NEW cap \in Nat \ {0},
         Len(q) <= cap
  PROVE  LET r == PushEvict(q, e, cap)
         IN  /\ r \in Seq(S)
             /\ Len(r) = Len(q) + 1 - Evicted(q, cap)
             /\ Len(r) \in 1 .. cap
             /\ r[Len(r)] = e
             /\ \A i \in 1 .. Len(r) - 1 : r[i] = q[i + Evicted(q, cap)]
<1> DEFINE r == PushEvict(q, e, cap)
<1>1. CASE Len(q) >= cap
  <2>1. q # <<>>
    BY <1>1, EmptySeq
  <2>2. r = Append(Tail(q), e) /\ Evicted(q, cap) = 1
    BY <1>1 DEF PushEvict, Evicted
  <2>. QED
    BY <1>1, <2>1, <2>2, TailElements, AppendProperties, LenProperties
<1>2. CASE ~(Len(q) >= cap)
  <2>1. r = Append(q, e) /\ Evicted(q, cap) = 0
    BY <1>2 DEF PushEvict, Evicted
  <2>. QED
    BY <1>2, <2>1, AppendProperties, LenProperties
<1>. QED
  BY <1>1, <1>2

---------------------------------------------------------------------------
(* Indexes.                                                                *)

(* A set of indexes has a greatest.                                        *)
LEMMA GreatestIsThere ==
  ASSUME NEW n \in Nat, NEW S, S \subseteq 1 .. n, S # {}
  PROVE  \E x \in S : \A y \in S : y <= x
<1> DEFINE D == {j \in 1 .. n : \E i \in S : j <= i}
           c == Cardinality(D)
<1>1. \A k \in Nat : IsFiniteSet(1 .. k) /\ Cardinality(1 .. k) = k
  BY FS_Interval
<1>2. D \in SUBSET (1 .. n) /\ IsFiniteSet(D) /\ c \in Nat
  BY <1>1, FS_Subset, FS_CardinalityType
<1>3. S \subseteq D /\ \A u \in D : 1 .. u \in SUBSET D
  OBVIOUS
<1> HIDE DEF c
<1>4. ASSUME NEW u \in D PROVE u <= c
  <2>1. u \in Nat /\ 1 .. u \in SUBSET D
    BY <1>2, <1>3
  <2> HIDE DEF D
  <2>2. Cardinality(1 .. u) <= c
    BY <1>2, <2>1, FS_Subset DEF c
  <2>. QED
    BY <1>1, <2>1, <2>2
<1>5. c \in D
  <2> SUFFICES ASSUME c \notin D PROVE FALSE
    OBVIOUS
  <2>1. PICK u \in D : TRUE
    BY <1>3
  <2>2. u \in 1 .. c
    BY <1>2, <1>4
  <2>3. c - 1 \in Nat /\ D \in SUBSET (1 .. c - 1)
    <3>1. ASSUME NEW v \in D PROVE v \in 1 .. c - 1
      <4>1. v \in Nat \ {0} /\ v <= c /\ v # c
        BY <1>2, <1>4
      <4>. QED
        BY <1>2, <4>1
    <3>. QED
      BY <1>2, <2>2, <3>1
  <2> HIDE DEF D
  <2>4. IsFiniteSet(1 .. c - 1) /\ Cardinality(1 .. c - 1) = c - 1
    BY <1>1, <2>3
  <2>5. c <= c - 1
    BY <2>3, <2>4, FS_Subset DEF c
  <2>. QED
    BY <1>2, <2>5
<1>6. PICK i \in S : c <= i
  BY <1>5
<1>7. c = i
  BY <1>2, <1>3, <1>4, <1>6
<1>8. \E x \in S : \A y \in S : y <= x
  <2>1. \A y \in S : y <= i
    BY <1>3, <1>4, <1>7
  <2>. QED
    BY <2>1
<1>. QED
  BY <1>8

(* It has a least.                                                         *)
LEMMA LeastIsThere ==
  ASSUME NEW n \in Nat, NEW S, S \subseteq 1 .. n, S # {}
  PROVE  \E i \in S : \A j \in S : i <= j
<1> DEFINE T == {n + 1 - i : i \in S}
<1>6. \A i \in S : i \in 1 .. n /\ n + 1 - i \in 1 .. n
  OBVIOUS
<1>1. T \subseteq 1 .. n /\ T # {}
  BY <1>6
<1> HIDE DEF T
<1>2. PICK h \in T : \A j \in T : j <= h
  BY <1>1, GreatestIsThere
<1> USE DEF T
<1>3. PICK i \in S : h = n + 1 - i
  BY <1>2
<1>4. \A j \in S : n + 1 - j <= n + 1 - i
  BY <1>2, <1>3
<1>5. \A j \in S : i <= j
  BY <1>4
<1>. QED
  BY <1>5

(* What holds of 0, and of i + 1 when it holds of i, holds up to n.        *)
LEMMA Induction ==
  ASSUME NEW n \in Nat, NEW S, 0 \in S, \A i \in 0 .. n - 1 : i \in S => i + 1 \in S
  PROVE  \A i \in 0 .. n : i \in S
<1> DEFINE T == {i \in 1 .. n : i \notin S}
<1>1. T = {}
  <2> SUFFICES ASSUME T # {} PROVE FALSE
    OBVIOUS
  <2>1. PICK i \in T : \A j \in T : i <= j
    <3>1. T \subseteq 1 .. n
      OBVIOUS
    <3> HIDE DEF T
    <3>. QED
      BY <3>1, LeastIsThere
  <2>2. i \in 1 .. n /\ i \notin S /\ i - 1 \in 0 .. n - 1 /\ (i - 1) + 1 = i
    BY <2>1
  <2>3. i - 1 \notin S
    BY <2>2
  <2>4. i - 1 \in T
    BY <2>2, <2>3
  <2>. QED
    BY <2>1, <2>2, <2>4
<1>. QED
  BY <1>1

---------------------------------------------------------------------------
(* What is computed one index after the other is defined at each.          *)
StepByStep(h, n, init, step) == h[0] = init /\ \A i \in 1 .. n : h[i] = step[i][h[i - 1]]

LEMMA StepsAreThere ==
  ASSUME NEW n \in Nat, NEW V, NEW init \in V, NEW step \in [1 .. n -> [V -> V]]
  PROVE  \E h \in [0 .. n -> V] : StepByStep(h, n, init, step)
<1> DEFINE S == {m \in 0 .. n : \E h \in [0 .. m -> V] : StepByStep(h, m, init, step)}
<1>1. 0 \in S
  <2>1. [i \in 0 .. 0 |-> init] \in [0 .. 0 -> V]
        /\ StepByStep([i \in 0 .. 0 |-> init], 0, init, step)
    BY DEF StepByStep
  <2>. QED
    BY <2>1
<1>2. ASSUME NEW m \in 0 .. n - 1, m \in S PROVE m + 1 \in S
  <2>1. PICK h \in [0 .. m -> V] : StepByStep(h, m, init, step)
    BY <1>2
  <2> DEFINE v == step[m + 1][h[m]]
             g == [i \in 0 .. m + 1 |-> IF i = m + 1 THEN v ELSE h[i]]
  <2>2. h[m] \in V /\ m + 1 \in 1 .. n
    OBVIOUS
  <2>3. v \in V
    BY <2>2
  <2> HIDE DEF v
  <2>4. g \in [0 .. m + 1 -> V]
    BY <2>3
  <2>5. g[m + 1] = v /\ \A i \in 0 .. m : g[i] = h[i]
    OBVIOUS
  <2> HIDE DEF g
  <2>6. ASSUME NEW i \in 1 .. m + 1 PROVE g[i] = step[i][g[i - 1]]
    <3>1. CASE i = m + 1
      <4>1. i - 1 = m /\ m \in 0 .. m
        BY <3>1
      <4>2. g[i - 1] = h[m]
        BY <2>5, <4>1
      <4>. QED
        BY <2>5, <3>1, <4>2 DEF v
    <3>2. CASE i # m + 1
      <4>1. i \in 1 .. m /\ i - 1 \in 0 .. m /\ i \in 0 .. m
        BY <3>2
      <4>2. h[i] = step[i][h[i - 1]] /\ g[i] = h[i] /\ g[i - 1] = h[i - 1]
        BY <2>1, <2>5, <4>1 DEF StepByStep
      <4>. QED
        BY <4>2
    <3>. QED
      BY <3>1, <3>2
  <2>7. g[0] = init
    <3>1. 0 \in 0 .. m
      OBVIOUS
    <3>. QED
      BY <2>1, <2>5, <3>1, Zenon DEF StepByStep
  <2>8. StepByStep(g, m + 1, init, step)
    BY <2>6, <2>7 DEF StepByStep
  <2>9. m + 1 \in 0 .. n
    OBVIOUS
  <2>. QED
    BY <2>4, <2>8, <2>9
<1> HIDE DEF S
<1>3. \A m \in 0 .. n : m \in S
  BY ONLY n \in Nat, <1>1, <1>2, Induction
<1>4. n \in S
  BY <1>3
<1>. QED
  BY <1>4 DEF S

(* Pieces one behind the other, each of them so many indexes on.           *)
Pieces(n, S, piece, step) ==
  /\ n \in Nat /\ piece \in [1 .. n -> Seq(S)] /\ step \in [1 .. n -> Nat \ {0}]
  /\ \A i \in 1 .. n : i + step[i] <= n + 1

Chains(f, k, n, piece, step) ==
  f[n + 1] = <<>> /\ \A i \in k .. n : f[i] = piece[i] \o f[i + step[i]]

LEMMA ChainIsThere ==
  ASSUME NEW n, NEW S, NEW piece, NEW step, Pieces(n, S, piece, step)
  PROVE  \E f \in [1 .. n + 1 -> Seq(S)] : Chains(f, 1, n, piece, step)
<1> USE DEF Pieces
<1> DEFINE V == Seq(S)
           T == {k \in 0 .. n : \E f \in [n + 1 - k .. n + 1 -> V] :
                                   Chains(f, n + 1 - k, n, piece, step)}
<1>1. 0 \in T
  <2> DEFINE f == [i \in n + 1 .. n + 1 |-> <<>>]
  <2>1. n + 1 - 0 = n + 1 /\ 0 \in 0 .. n /\ n + 1 \in n + 1 .. n + 1 /\ \A i : i \notin n + 1 .. n
    OBVIOUS
  <2>2. f \in [n + 1 .. n + 1 -> V] /\ f[n + 1] = <<>>
    BY EmptySeq
  <2>3. Chains(f, n + 1, n, piece, step)
    BY <2>1, <2>2, Zenon DEF Chains
  <2> HIDE DEF f
  <2>. QED
    BY <2>1, <2>2, <2>3
<1>2. ASSUME NEW k \in 0 .. n - 1, k \in T PROVE k + 1 \in T
  <2>1. PICK f \in [n + 1 - k .. n + 1 -> V] : Chains(f, n + 1 - k, n, piece, step)
    BY <1>2
  <2> DEFINE j == n - k
             next == j + step[j]
             v == piece[j] \o f[next]
             g == [i \in j .. n + 1 |-> IF i = j THEN v ELSE f[i]]
  <2>2. j \in 1 .. n /\ next \in n + 1 - k .. n + 1 /\ n + 1 - (k + 1) = j /\ n + 1 - k = j + 1
    <3>1. j \in 1 .. n /\ n + 1 - (k + 1) = j /\ n + 1 - k = j + 1
      OBVIOUS
    <3> HIDE DEF j
    <3> DEFINE d == step[j]
    <3>2. d \in Nat \ {0} /\ j + d <= n + 1
      BY <3>1
    <3> HIDE DEF d
    <3>3. j + d \in Int /\ j + 1 <= j + d
      BY <3>1, <3>2
    <3>4. j + d \in j + 1 .. n + 1
      BY <3>2, <3>3
    <3>5. next \in j + 1 .. n + 1
      BY <3>4 DEF d
    <3>. QED
      BY <3>1, <3>5
  <2> HIDE DEF j, next
  <2>3. v \in V
    <3>1. piece[j] \in Seq(S) /\ f[next] \in Seq(S)
      BY <2>2
    <3>. QED
      BY <3>1, ConcatProperties
  <2> HIDE DEF v
  <2>4. g \in [j .. n + 1 -> V]
    BY <2>2, <2>3
  <2>5. g[j] = v /\ \A i \in j + 1 .. n + 1 : g[i] = f[i]
    BY <2>2
  <2> HIDE DEF g
  <2>6. ASSUME NEW i \in j .. n PROVE g[i] = piece[i] \o g[i + step[i]]
    <3>1. CASE i = j
      <4>1. g[next] = f[next]
        BY <2>2, <2>5
      <4>. QED
        BY <2>5, <3>1, <4>1 DEF v, next
    <3>2. CASE i # j
      <4>3. i \in 1 .. n /\ i \in j + 1 .. n /\ i \in j + 1 .. n + 1
        BY <2>2, <3>2
      <4>4. step[i] \in Nat \ {0} /\ i + step[i] <= n + 1
        BY <4>3
      <4>1. i \in j + 1 .. n /\ i \in j + 1 .. n + 1 /\ i + step[i] \in j + 1 .. n + 1
        <5> DEFINE d == step[i]
        <5>1. j \in Int /\ n \in Int /\ i \in Int /\ i >= j
          BY <2>2, <4>3
        <5>2. d \in Nat \ {0} /\ i + d <= n + 1
          BY <4>4
        <5> HIDE DEF d
        <5>3. i + d \in Int /\ j + 1 <= i + d
          BY <5>1, <5>2
        <5>4. i + d \in j + 1 .. n + 1
          BY <5>1, <5>2, <5>3
        <5>. QED
          BY <4>3, <5>4 DEF d
      <4>2. f[i] = piece[i] \o f[i + step[i]]
        BY <2>1, <2>2, <4>1 DEF Chains
      <4>. QED
        BY <2>5, <4>1, <4>2
    <3>. QED
      BY <3>1, <3>2
  <2>7. g[n + 1] = <<>>
    <3>1. n + 1 \in j + 1 .. n + 1
      BY <2>2
    <3>. QED
      BY <2>1, <2>5, <3>1 DEF Chains
  <2>8. Chains(g, j, n, piece, step)
    BY <2>6, <2>7 DEF Chains
  <2>9. k + 1 \in 0 .. n
    OBVIOUS
  <2>. QED
    BY <2>2, <2>4, <2>8, <2>9
<1> HIDE DEF T
<1>3. n \in Nat /\ \A k \in 0 .. n : k \in T
  <2>1. n \in Nat
    OBVIOUS
  <2>. QED
    BY ONLY <2>1, <1>1, <1>2, Induction
<1>4. n \in T /\ n + 1 - n = 1
  BY <1>3
<1>. QED
  BY <1>4 DEF T

---------------------------------------------------------------------------
(* Recursion along a rank.                                                 *)

(* What holds of every x when it holds of those of a lower rank holds.     *)
LEMMA RankInduction ==
  ASSUME NEW S, NEW N \in Nat, NEW rank \in [S -> 0 .. N], NEW T,
         \A x \in S : (\A y \in S : rank[y] < rank[x] => y \in T) => x \in T
  PROVE  \A x \in S : x \in T
<1> DEFINE U == {n \in 0 .. N : \A x \in S : rank[x] <= n => x \in T}
<1>1. 0 \in U
  <2>1. ASSUME NEW x \in S, rank[x] <= 0 PROVE x \in T
    <3>1. \A y \in S : ~(rank[y] < rank[x])
      <4>1. ASSUME NEW y \in S PROVE ~(rank[y] < rank[x])
        <5>1. rank[y] \in 0 .. N /\ rank[x] \in 0 .. N
          OBVIOUS
        <5>. QED
          BY <5>1, <2>1
      <4>. QED
        BY <4>1
    <3>. QED
      BY <3>1
  <2>. QED
    BY <2>1
<1>2. ASSUME NEW n \in 0 .. N - 1, n \in U PROVE n + 1 \in U
  <2>1. ASSUME NEW x \in S, rank[x] <= n + 1 PROVE x \in T
    <3>1. ASSUME NEW y \in S, rank[y] < rank[x] PROVE y \in T
      <4>1. rank[y] \in 0 .. N /\ rank[x] \in 0 .. N
        OBVIOUS
      <4>2. rank[y] <= n
        BY <4>1, <3>1, <2>1
      <4>. QED
        BY <4>2, <1>2
    <3>. QED
      BY <3>1
  <2>2. n + 1 \in 0 .. N
    OBVIOUS
  <2>. QED
    BY <2>1, <2>2
<1> HIDE DEF U
<1>3. \A n \in 0 .. N : n \in U
  BY ONLY N \in Nat, <1>1, <1>2, Induction
<1>4. N \in U
  BY <1>3
<1>. QED
  <2>1. ASSUME NEW x \in S PROVE x \in T
    <3>1. rank[x] \in 0 .. N
      OBVIOUS
    <3>2. rank[x] <= N
      BY <3>1
    <3>. QED
      BY <3>2, <1>4 DEF U
  <2>. QED
    BY <2>1

(* A function that is found at x from its value at one place of lower rank,*)
(* except at the ends.                                                     *)
Recurs(f, S, ends, base, next, step) ==
  \A x \in S : f[x] = IF x \in ends THEN base[x] ELSE step[x][f[next[x]]]

LEMMA RecursionIsThere ==
  ASSUME NEW S, NEW V, NEW N \in Nat, NEW rank \in [S -> 0 .. N], NEW ends, NEW next,
         NEW base \in [S -> V], NEW step \in [S -> [V -> V]],
         \A x \in S : x \notin ends => next[x] \in S /\ rank[next[x]] < rank[x]
  PROVE  \E f \in [S -> V] : Recurs(f, S, ends, base, next, step)
<1> DEFINE D(n) == {x \in S : rank[x] < n}
           T == {n \in 0 .. N + 1 : \E f \in [D(n) -> V] : Recurs(f, D(n), ends, base, next, step)}
<1>1. 0 \in T
  <2> DEFINE f == [x \in {} |-> base[x]]
  <2>1. D(0) = {}
    <3>1. ASSUME NEW x \in S PROVE ~(rank[x] < 0)
      <4>1. rank[x] \in 0 .. N
        OBVIOUS
      <4>. QED
        BY <4>1
    <3>. QED
      BY <3>1
  <2>2. f \in [{} -> V] /\ Recurs(f, {}, ends, base, next, step)
    BY DEF Recurs
  <2>3. 0 \in 0 .. N + 1
    OBVIOUS
  <2>. QED
    BY <2>1, <2>2, <2>3
<1>2. ASSUME NEW n \in 0 .. (N + 1) - 1, n \in T PROVE n + 1 \in T
  <2>1. PICK f \in [D(n) -> V] : Recurs(f, D(n), ends, base, next, step)
    BY <1>2
  <2> DEFINE g == [x \in D(n + 1) |-> IF x \in ends THEN base[x] ELSE step[x][f[next[x]]]]
  <2>2. ASSUME NEW x \in D(n + 1), x \notin ends PROVE next[x] \in D(n)
    <3>1. next[x] \in S /\ rank[next[x]] < rank[x] /\ rank[x] < n + 1
      BY <2>2
    <3>2. rank[next[x]] \in 0 .. N /\ rank[x] \in 0 .. N
      BY <3>1
    <3>3. rank[next[x]] < n
      BY <3>1, <3>2
    <3>. QED
      BY <3>1, <3>3
  <2>3. ASSUME NEW x \in D(n) PROVE x \in D(n + 1)
    <3>1. rank[x] \in 0 .. N /\ rank[x] < n
      OBVIOUS
    <3>. QED
      BY <3>1
  <2>4. \A x \in D(n) : g[x] = f[x]
    BY <2>1, <2>3 DEF Recurs
  <2>5. g \in [D(n + 1) -> V]
    <3>1. ASSUME NEW x \in D(n + 1) PROVE (IF x \in ends THEN base[x] ELSE step[x][f[next[x]]]) \in V
      <4>1. CASE x \in ends
        BY <4>1
      <4>2. CASE x \notin ends
        <5>1. f[next[x]] \in V /\ step[x] \in [V -> V]
          BY <2>2, <4>2
        <5>. QED
          BY <5>1, <4>2
      <4>. QED
        BY <4>1, <4>2
    <3>. QED
      BY <3>1
  <2>6. Recurs(g, D(n + 1), ends, base, next, step)
    <3>1. ASSUME NEW x \in D(n + 1)
          PROVE  g[x] = IF x \in ends THEN base[x] ELSE step[x][g[next[x]]]
      <4>1. g[x] = IF x \in ends THEN base[x] ELSE step[x][f[next[x]]]
        OBVIOUS
      <4> HIDE DEF g, D
      <4>2. x \notin ends => g[next[x]] = f[next[x]]
        BY <2>2, <2>4
      <4>. QED
        BY <4>1, <4>2
    <3> HIDE DEF g, D
    <3>. QED
      BY <3>1 DEF Recurs
  <2>7. n + 1 \in 0 .. N + 1
    OBVIOUS
  <2> HIDE DEF g, D
  <2>. QED
    BY <2>5, <2>6, <2>7
<1>3. D(N + 1) = S
  <2>1. ASSUME NEW x \in S PROVE rank[x] < N + 1
    <3>1. rank[x] \in 0 .. N
      OBVIOUS
    <3>. QED
      BY <3>1
  <2>. QED
    BY <2>1
<1> HIDE DEF T
<1>4. \A n \in 0 .. N + 1 : n \in T
  <2>1. N + 1 \in Nat
    OBVIOUS
  <2>. QED
    BY ONLY <2>1, <1>1, <1>2, Induction
<1>5. N + 1 \in T
  BY <1>4
<1>. QED
  BY <1>3, <1>5 DEF T

---------------------------------------------------------------------------
(* Sums.                                                                   *)

(* The partial sums of s.                                                  *)
SumsOf(s, n, g) ==
  /\ g \in [0 .. n -> Nat]
  /\ g[0] = 0
  /\ \A i \in 1 .. n : g[i] = g[i - 1] + s[i]

(* Every sequence of numbers has its partial sums.                         *)
LEMMA SumsAreThere ==
  ASSUME NEW n \in Nat, NEW s \in [1 .. n -> Nat]
  PROVE  \E g : SumsOf(s, n, g)
<1> DEFINE S == {m \in 0 .. n : \E g : SumsOf(s, m, g)}
<1>1. 0 \in S
  <2>1. SumsOf(s, 0, [i \in 0 .. 0 |-> 0])
    BY DEF SumsOf
  <2>. QED
    BY <2>1
<1>2. ASSUME NEW m \in 0 .. n - 1, m \in S PROVE m + 1 \in S
  <2>1. PICK g : SumsOf(s, m, g)
    BY <1>2
  <2>2. /\ g \in [0 .. m -> Nat] /\ g[0] = 0
        /\ \A i \in 1 .. m : g[i] = g[i - 1] + s[i]
    BY <2>1 DEF SumsOf
  <2> DEFINE h == [i \in 0 .. m + 1 |-> IF i = m + 1 THEN g[m] + s[m + 1] ELSE g[i]]
  <2>3. g[m] \in Nat /\ s[m + 1] \in Nat
    BY <2>2
  <2>4. h \in [0 .. m + 1 -> Nat] /\ h[0] = 0
    BY <2>2, <2>3
  <2>5. ASSUME NEW i \in 1 .. m + 1 PROVE h[i] = h[i - 1] + s[i]
    <3>1. CASE i = m + 1
      BY <3>1
    <3>2. CASE i # m + 1
      <4>1. i \in 1 .. m /\ i - 1 \in 0 .. m /\ i - 1 # m + 1 /\ i \in 0 .. m + 1 /\ i - 1 \in 0 .. m + 1
        BY <3>2
      <4>2. h[i] = g[i] /\ h[i - 1] = g[i - 1]
        BY <3>2, <4>1
      <4>. QED
        BY <2>2, <4>1, <4>2
    <3>. QED
      BY <3>1, <3>2
  <2> HIDE DEF h
  <2>6. SumsOf(s, m + 1, h)
    BY <2>4, <2>5 DEF SumsOf
  <2>7. m + 1 \in 0 .. n
    OBVIOUS
  <2>. QED
    BY <2>6, <2>7
<1> HIDE DEF S
<1>3. \A m \in 0 .. n : m \in S
  BY ONLY n \in Nat, <1>1, <1>2, Induction
<1>4. n \in S
  BY <1>3
<1>. QED
  BY <1>4 DEF S

(* Function h is computed by the rule of sums.                             *)
AddsUp(h, s, n) == h[0] = 0 /\ \A i \in 1 .. n : h[i] = h[i - 1] + s[i]

(* They agree wherever they are computed by the same rule.                 *)
LEMMA SumsAgree ==
  ASSUME NEW n \in Nat, NEW s, NEW g, SumsOf(s, n, g), NEW h, AddsUp(h, s, n)
  PROVE  \A i \in 0 .. n : h[i] = g[i]
<1> DEFINE S == {i \in 0 .. n : h[i] = g[i]}
<1>1. 0 \in S
  BY DEF SumsOf, AddsUp
<1>2. ASSUME NEW i \in 0 .. n - 1, i \in S PROVE i + 1 \in S
  <2>1. i + 1 \in 1 .. n /\ (i + 1) - 1 = i
    OBVIOUS
  <2>2. h[i + 1] = h[i] + s[i + 1] /\ g[i + 1] = g[i] + s[i + 1]
    BY <2>1 DEF SumsOf, AddsUp
  <2>. QED
    BY <1>2, <2>1, <2>2
<1> HIDE DEF S
<1>3. \A i \in 0 .. n : i \in S
  BY <1>1, <1>2, Induction
<1>. QED
  BY <1>3 DEF S

---------------------------------------------------------------------------
(* Arithmetic of remainders.                                               *)

(* No multiple of M but 0 lies between -M and M.                           *)
LEMMA NoMultipleBetween ==
  ASSUME NEW M \in Nat \ {0}, NEW k \in Int, -M < M * k, M * k < M
  PROVE  k = 0
  OBVIOUS

(* Quotient and remainder of a natural number.                             *)
LEMMA DivMod ==
  ASSUME NEW M \in Nat \ {0}, NEW x \in Nat
  PROVE  x = M * (x \div M) + (x % M) /\ x \div M \in Nat /\ x % M \in 0 .. M - 1
  OBVIOUS

(* What makes a number the quotient.                                       *)
LEMMA QuotientIs ==
  ASSUME NEW d \in Nat \ {0}, NEW q \in Nat, NEW x \in Nat
  PROVE  /\ x \div d = q <=> d * q <= x /\ x < d * (q + 1)
         /\ x \div d = q => x % d = x - d * q
<1>1. x = d * (x \div d) + (x % d) /\ x \div d \in Nat /\ x % d \in 0 .. d - 1
  BY DivMod
<1>2. x \div d = q => d * q <= x /\ x < d * (q + 1) /\ x % d = x - d * q
  BY <1>1
<1>3. ASSUME d * q <= x, x < d * (q + 1) PROVE x \div d = q
  <2>1. d * ((x \div d) - q) > -d /\ d * ((x \div d) - q) < d
    BY <1>1, <1>3
  <2>2. (x \div d) - q = 0
    BY <1>1, <2>1, NoMultipleBetween
  <2> QED
    BY <1>1, <2>2
<1> QED
  BY <1>2, <1>3

(* Quotient and remainder of an integer.                                   *)
LEMMA DivModInt ==
  ASSUME NEW M \in Nat \ {0}, NEW x \in Int
  PROVE  x = M * (x \div M) + (x % M) /\ x \div M \in Int /\ x % M \in 0 .. M - 1
  OBVIOUS

(* A number has one remainder.                                             *)
LEMMA RemainderUnique ==
  ASSUME NEW M \in Nat \ {0}, NEW x \in Int, NEW q \in Int, NEW r \in 0 .. M - 1,
         x = M * q + r
  PROVE  x % M = r
<1>1. x = M * (x \div M) + (x % M) /\ x \div M \in Int /\ x % M \in 0 .. M - 1
  BY DivModInt
<1>2. M * (q - (x \div M)) = (x % M) - r
  BY <1>1
<1> DEFINE k == q - (x \div M)
<1>3. k \in Int /\ -M < M * k /\ M * k < M
  BY <1>1, <1>2
<1> HIDE DEF k
<1>4. k = 0
  BY <1>3, NoMultipleBetween
<1>. QED
  BY <1>1, <1>2, <1>4 DEF k

(* Positions less than M apart are told apart by their remainders.         *)
LEMMA SameRemainder ==
  ASSUME NEW M \in Nat \ {0}, NEW i \in Nat, NEW a \in 0 .. M - 1, NEW b \in 0 .. M - 1,
         (i + a) % M = (i + b) % M
  PROVE  a = b
<1> DEFINE x == (i + a) \div M
<1> DEFINE y == (i + b) \div M
<1>1. /\ x \in Int /\ y \in Int /\ (i + a) % M \in Int
      /\ i + a = M * x + ((i + a) % M) /\ i + b = M * y + ((i + b) % M)
  BY DivMod
<1> HIDE DEF x, y
<1>2. M * (x - y) = a - b
  BY <1>1
<1>3. -M < M * (x - y) /\ M * (x - y) < M
  BY <1>2
<1>4. x - y = 0
  BY <1>1, <1>3, NoMultipleBetween
<1>. QED
  BY <1>2, <1>4

(* A sum has the remainder that its summands' remainders have.             *)
LEMMA AddToRemainder ==
  ASSUME NEW M \in Nat \ {0}, NEW i \in Nat, NEW b \in Nat
  PROVE  ((i % M) + b) % M = (i + b) % M
<1>1. i = M * (i \div M) + (i % M) /\ i \div M \in Nat /\ i % M \in 0 .. M - 1
  BY DivMod
<1> DEFINE y == (i % M) + b
<1>2. y \in Nat
  BY <1>1
<1> HIDE DEF y
<1>3. y = M * (y \div M) + (y % M) /\ y \div M \in Nat /\ y % M \in 0 .. M - 1
  BY <1>2, DivMod
<1> DEFINE q == (i \div M) + (y \div M)
<1>4. q \in Int /\ i + b \in Nat
  BY <1>1, <1>3
<1>5. i + b = M * q + (y % M)
  BY <1>1, <1>3 DEF y
<1> HIDE DEF q
<1>6. (i + b) % M = y % M
  <2>1. PICK z \in Int : z = i + b
    BY <1>4
  <2>2. z % M = y % M
    BY <1>3, <1>4, <1>5, <2>1, RemainderUnique
  <2>. QED
    BY <2>1, <2>2
<1>. QED
  BY <1>6 DEF y
===========================================================================
