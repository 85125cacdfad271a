--------------------------- MODULE FlowTable_proofs ---------------------------
(* Proofs about the Flows window and the two resolvers its columns come    *)
(* from.  First the address cache, for all addresses, every capacity and   *)
(* whatever files are installed: its answers are those of the databases,   *)
(* which is what FlowTable's PlaceOf stands for.  Then the window, for any *)
(* flows, sizes, period and limit: its rows, and its rate graph.  Then the *)
(* process resolver, for any system it is asked on.  Last the text that    *)
(* the window's flows are exported as, for names of any bytes.             *)
EXTENDS FlowTable, GeoIPResolver, ProcessResolver, FlowExporter, SharedLemmas

(* What the databases that were opened say is what those installed do.     *)
OpenedAtStart ==
  opened = [place |-> Located(files), kinds |-> Opens(files, Located(files))]

RecencyDistinct ==
  \A p, q \in 1 .. Len(recency) : recency[p] = recency[q] => p = q

CacheIsTyped ==
  /\ DOMAIN cache = 1 .. Len(cache) /\ Len(cache) \in Nat /\ Len(cache) <= Capacity
  /\ \A p \in 1 .. Len(cache) :
       /\ cache[p] = [node |-> cache[p].node, ip |-> cache[p].ip,
                      info |-> Query(cache[p].ip)]
       /\ cache[p].node \in Nodes /\ cache[p].ip \in Addresses

RecencyIsTyped ==
  /\ DOMAIN recency = 1 .. Len(recency) /\ Len(recency) \in Nat
  /\ \A p \in 1 .. Len(recency) : recency[p] \in Addresses

(* The inductive invariant.                                                *)
GeoInv ==
  /\ OpenedAtStart /\ CacheIsTyped /\ RecencyIsTyped
  /\ IndexAgrees /\ HoldsTheRecent /\ RecencyDistinct

---------------------------------------------------------------------------
LEMMA CapacityPositive == Capacity \in Nat /\ Capacity >= 1
  BY GeoAssumption DEF Capacity

(* There is a free node: a list of Capacity nodes leaves one of them.      *)
LEMMA FreeNodeIsFree ==
  ASSUME CacheIsTyped
  PROVE  /\ FreeNode \in Nodes
         /\ \A p \in 1 .. Len(cache) : cache[p].node # FreeNode
<1>1. ASSUME \A n \in Nodes : \E p \in 1 .. Len(cache) : cache[p].node = n
      PROVE FALSE
  <2> DEFINE f == [n \in Nodes |-> CHOOSE p \in 1 .. Len(cache) : cache[p].node = n]
  <2>1. f \in [Nodes -> 1 .. Len(cache)]
    BY <1>1
  <2>2. \A n \in Nodes : cache[f[n]].node = n
    BY <1>1
  <2>3. /\ IsFiniteSet(Nodes) /\ Cardinality(Nodes) = Capacity + 1
        /\ IsFiniteSet(1 .. Len(cache)) /\ Cardinality(1 .. Len(cache)) <= Capacity
    <3>1. /\ IsFiniteSet(1 .. Capacity + 1)
          /\ Cardinality(1 .. Capacity + 1) = IF 1 > Capacity + 1 THEN 0 ELSE Capacity + 1 - 1 + 1
      BY FS_Interval, CapacityPositive
    <3>3. Capacity \in Nat /\ Len(cache) \in Nat /\ Len(cache) <= Capacity
      BY CapacityPositive DEF CacheIsTyped
    <3>2. /\ IsFiniteSet(1 .. Len(cache))
          /\ Cardinality(1 .. Len(cache)) = IF 1 > Len(cache) THEN 0 ELSE Len(cache) - 1 + 1
      <4>1. Len(cache) \in Int /\ 1 \in Int
        BY <3>3
      <4>. QED
        BY <4>1, FS_Interval
    <3>4. /\ Cardinality(1 .. Capacity + 1) = Capacity + 1
          /\ Cardinality(1 .. Len(cache)) <= Capacity
      BY <3>1, <3>2, <3>3
    <3>. QED
      BY <3>1, <3>2, <3>4, Zenon DEF Nodes
  <2>4. Cardinality(1 .. Len(cache)) < Cardinality(Nodes)
    BY <2>3, FS_CardinalityType, CapacityPositive
  <2> HIDE DEF f
  <2>5. PICK m \in Nodes, n \in Nodes : m # n /\ f[m] = f[n]
    BY <2>1, <2>3, <2>4, FS_PigeonHole
  <2>. QED
    BY <2>2, <2>5
<1>2. PICK n \in Nodes : \A p \in 1 .. Len(cache) : cache[p].node # n
  BY <1>1
<1>. QED
  BY <1>2 DEF FreeNode

(* An address in the index is at the place its iterator points at.         *)
LEMMA IteratorPoints ==
  ASSUME GeoInv, NEW ip \in DOMAIN cacheIndex
  PROVE  /\ At(cacheIndex[ip]) \in 1 .. Len(cache)
         /\ cache[At(cacheIndex[ip])].ip = ip
<1>1. PICK p \in 1 .. Len(cache) : cache[p].ip = ip
  BY DEF GeoInv, IndexAgrees
<1>2. cacheIndex[ip] = cache[p].node
  BY <1>1 DEF GeoInv, IndexAgrees
<1>3. \A q \in 1 .. Len(cache) : cache[q].node = cacheIndex[ip] => q = p
  BY <1>1, <1>2 DEF GeoInv, IndexAgrees
<1>4. At(cacheIndex[ip]) = p
  BY <1>2, <1>3 DEF At
<1>. QED
  BY <1>1, <1>4

(* The answers follow from the invariant.                                  *)
LEMMA AnswersAreFacts ==
  ASSUME GeoInv, NEW ip \in Addresses
  PROVE  Answer(ip) = Facts(ip)
<1>1. Query(ip) = Facts(ip)
  <2>1. Opens(files, "primary") # {} => Exists(files, "primary")
    BY DEF Opens, Exists
  <2>2. Opens(files, "legacy") # {} => Exists(files, "legacy")
    BY DEF Opens, Exists
  <2>3. Query(ip) = {<<k, Located(files), ip>> : k \in Opens(files, Located(files))}
    BY DEF GeoInv, OpenedAtStart, Query
  <2>4. CASE Opens(files, "primary") # {}
    BY <2>1, <2>3, <2>4 DEF Located, Facts
  <2>5. CASE Opens(files, "primary") = {} /\ Opens(files, "legacy") # {}
    BY <2>2, <2>3, <2>5 DEF Located, Facts
  <2>6. CASE Opens(files, "primary") = {} /\ Opens(files, "legacy") = {}
    <3>1. Located(files) = "primary"
      BY <2>6 DEF Located
    <3>. QED
      BY <2>3, <2>6, <3>1 DEF Facts
  <2>. QED
    BY <2>4, <2>5, <2>6
<1>2. ASSUME ip \in DOMAIN cacheIndex PROVE cache[At(cacheIndex[ip])].info = Query(ip)
  BY <1>2, IteratorPoints DEF GeoInv, CacheIsTyped
<1>. QED
  BY <1>1, <1>2 DEF Answer

---------------------------------------------------------------------------
(* What the two list operations return.                                    *)
LEMMA ToFrontMoves ==
  ASSUME NEW s, DOMAIN s = 1 .. Len(s), Len(s) \in Nat, NEW p \in 1 .. Len(s)
  PROVE  /\ DOMAIN ToFront(s, p) = 1 .. Len(s) /\ Len(ToFront(s, p)) = Len(s)
         /\ ToFront(s, p)[1] = s[p]
         /\ \A i \in 2 .. p : ToFront(s, p)[i] = s[i - 1]
         /\ \A i \in p + 1 .. Len(s) : ToFront(s, p)[i] = s[i]
  BY DEF ToFront

LEMMA BeforeAdds ==
  ASSUME NEW e, NEW s, DOMAIN s = 1 .. Len(s), Len(s) \in Nat
  PROVE  /\ DOMAIN Before(e, s) = 1 .. Len(s) + 1 /\ Len(Before(e, s)) = Len(s) + 1
         /\ Before(e, s)[1] = e
         /\ \A i \in 2 .. Len(s) + 1 : Before(e, s)[i] = s[i - 1]
  BY DEF Before

(* The history after a lookup: the address is first, and those before its  *)
(* former place, or all, are one further back.                             *)
LEMMA RecencyAfter ==
  ASSUME RecencyIsTyped, RecencyDistinct, NEW ip \in Addresses, recency' = Recalled(ip)
  PROVE  /\ RecencyIsTyped' /\ RecencyDistinct'
         /\ recency'[1] = ip
         /\ \A q \in 1 .. Len(recency) :
              recency[q] = ip =>
                /\ Len(recency') = Len(recency)
                /\ \A i \in 2 .. q : recency'[i] = recency[i - 1]
                /\ \A i \in q + 1 .. Len(recency) : recency'[i] = recency[i]
         /\ (\A q \in 1 .. Len(recency) : recency[q] # ip) =>
              /\ Len(recency') = Len(recency) + 1
              /\ \A i \in 2 .. Len(recency') : recency'[i] = recency[i - 1]
<1>1. CASE \E q \in 1 .. Len(recency) : recency[q] = ip
  <2>1. PICK q \in 1 .. Len(recency) : recency[q] = ip
    BY <1>1
  <2>2. recency' = ToFront(recency, q)
    <3>1. \A p \in 1 .. Len(recency) : recency[p] = ip => p = q
      BY <2>1 DEF RecencyDistinct
    <3>2. (CHOOSE p \in 1 .. Len(recency) : recency[p] = ip) = q
      BY <2>1, <3>1
    <3>. QED
      BY <1>1, <3>2 DEF Recalled
  <2>3. /\ DOMAIN recency' = 1 .. Len(recency) /\ Len(recency') = Len(recency)
        /\ recency'[1] = ip
        /\ \A i \in 2 .. q : recency'[i] = recency[i - 1]
        /\ \A i \in q + 1 .. Len(recency) : recency'[i] = recency[i]
    BY <2>1, <2>2, ToFrontMoves DEF RecencyIsTyped
  <2>4. \A p \in 1 .. Len(recency) : recency[p] = ip => p = q
    BY <2>1 DEF RecencyDistinct
  <2>5. RecencyIsTyped'
    BY <2>1, <2>3 DEF RecencyIsTyped
  <2>6. RecencyDistinct'
    <3> DEFINE from == [i \in 1 .. Len(recency) |-> IF i = 1 THEN q ELSE IF i <= q THEN i - 1 ELSE i]
    <3>1. Len(recency) \in Nat
      BY DEF RecencyIsTyped
    <3>2. /\ \A i \in 1 .. Len(recency) : from[i] \in 1 .. Len(recency)
          /\ \A i, j \in 1 .. Len(recency) : from[i] = from[j] => i = j
      BY <2>1, <3>1
    <3>3. \A i \in 1 .. Len(recency) : recency'[i] = recency[from[i]]
      BY <2>1, <2>3, <3>1
    <3> HIDE DEF from
    <3>. QED
      BY <2>3, <3>2, <3>3 DEF RecencyDistinct
  <2>. QED
    BY <1>1, <2>3, <2>4, <2>5, <2>6
<1>2. CASE \A q \in 1 .. Len(recency) : recency[q] # ip
  <2>1. recency' = Before(ip, recency)
    BY <1>2 DEF Recalled
  <2>2. /\ DOMAIN recency' = 1 .. Len(recency) + 1 /\ Len(recency') = Len(recency) + 1
        /\ recency'[1] = ip
        /\ \A i \in 2 .. Len(recency) + 1 : recency'[i] = recency[i - 1]
    BY <2>1, BeforeAdds DEF RecencyIsTyped
  <2>3. RecencyIsTyped'
    BY <2>2 DEF RecencyIsTyped
  <2>4. RecencyDistinct'
    BY <1>2, <2>2 DEF RecencyDistinct, RecencyIsTyped
  <2>. QED
    BY <1>2, <2>2, <2>3, <2>4
<1>. QED
  BY <1>1, <1>2

---------------------------------------------------------------------------
(* A hit keeps the invariant: the list and the history move the same way.  *)
LEMMA HitPreserves ==
  ASSUME GeoInv, NEW ip \in Addresses, Hit(ip), recency' = Recalled(ip),
         UNCHANGED <<files, opened>>
  PROVE  GeoInv'
<1> DEFINE p == At(cacheIndex[ip])
<1>1. p \in 1 .. Len(cache) /\ cache[p].ip = ip
  BY IteratorPoints DEF Hit
<1>2. /\ DOMAIN cache' = 1 .. Len(cache) /\ Len(cache') = Len(cache)
      /\ cache'[1] = cache[p]
      /\ \A i \in 2 .. p : cache'[i] = cache[i - 1]
      /\ \A i \in p + 1 .. Len(cache) : cache'[i] = cache[i]
  BY <1>1, ToFrontMoves DEF Hit, GeoInv, CacheIsTyped
<1>3. cacheIndex' = cacheIndex
  BY DEF Hit
<1> HIDE DEF p
<1> DEFINE L    == 1 .. Len(cache)
           from == [i \in L |-> IF i = 1 THEN p ELSE IF i <= p THEN i - 1 ELSE i]
<1>a. Len(cache) \in Nat
  BY DEF GeoInv, CacheIsTyped
<1>b. /\ \A i \in L : from[i] \in L
      /\ \A i, j \in L : from[i] = from[j] => i = j
  BY <1>1, <1>a
<1>c. \A j \in L : \E i \in L : from[i] = j
  <2> TAKE j \in L
  <2> DEFINE i == IF j = p THEN 1 ELSE IF j < p THEN j + 1 ELSE j
  <2>1. i \in L /\ from[i] = j
    BY <1>1, <1>a
  <2>. QED
    BY <2>1
<1>d. \A i \in L : cache'[i] = cache[from[i]]
  BY <1>1, <1>2, <1>a
<1> HIDE DEF L, from
<1>4. p \in 1 .. Len(recency) /\ recency[p] = ip
  BY <1>1, CapacityPositive DEF GeoInv, HoldsTheRecent, RecencyIsTyped
<1>5. /\ RecencyIsTyped' /\ RecencyDistinct' /\ recency'[1] = ip
      /\ Len(recency') = Len(recency)
      /\ \A i \in 2 .. p : recency'[i] = recency[i - 1]
      /\ \A i \in p + 1 .. Len(recency) : recency'[i] = recency[i]
  BY <1>4, RecencyAfter DEF GeoInv
<1>6. OpenedAtStart'
  BY DEF GeoInv, OpenedAtStart, Located, Opens, Exists
<1>7. \A x : Query(x)' = Query(x)
  BY DEF Query
<1>8. CacheIsTyped'
  <2>1. /\ Len(cache) <= Capacity /\ DOMAIN cache' = L
        /\ \A i \in L : /\ cache[i] = [node |-> cache[i].node, ip |-> cache[i].ip,
                                        info |-> Query(cache[i].ip)]
                        /\ cache[i].node \in Nodes /\ cache[i].ip \in Addresses
    BY <1>2 DEF GeoInv, CacheIsTyped, L
  <2>2. ASSUME NEW i \in L
        PROVE  /\ cache'[i] = [node |-> cache'[i].node, ip |-> cache'[i].ip,
                               info |-> Query(cache'[i].ip)]
               /\ cache'[i].node \in Nodes /\ cache'[i].ip \in Addresses
    <3>1. PICK j \in L : cache'[i] = cache[j]
      BY <1>b, <1>d
    <3>2. /\ cache[j] = [node |-> cache[j].node, ip |-> cache[j].ip, info |-> Query(cache[j].ip)]
          /\ cache[j].node \in Nodes /\ cache[j].ip \in Addresses
      BY <2>1, Zenon
    <3>. QED
      BY <3>1, <3>2, Zenon
  <2>3. /\ 1 .. Len(cache') = L /\ Len(cache') \in Nat /\ Len(cache') <= Capacity
        /\ DOMAIN cache' = L
    BY <1>2, <1>a, <2>1 DEF L
  <2>. QED
    BY <1>7, <2>2, <2>3, Zenon DEF CacheIsTyped, Capacity, Nodes
<1>9. IndexAgrees'
  <2>1. /\ DOMAIN cacheIndex = {cache[i].ip : i \in L}
        /\ \A i \in L : cacheIndex[cache[i].ip] = cache[i].node
        /\ \A i, j \in L : cache[i].node = cache[j].node \/ cache[i].ip = cache[j].ip => i = j
    BY DEF GeoInv, IndexAgrees, L
  <2>2. {cache'[i].ip : i \in L} \subseteq {cache[i].ip : i \in L}
    BY <1>b, <1>d
  <2>3. {cache[i].ip : i \in L} \subseteq {cache'[i].ip : i \in L}
    <3>1. ASSUME NEW j \in L PROVE \E i \in L : cache'[i].ip = cache[j].ip
      BY <1>c, <1>d
    <3>. QED
      BY <3>1
  <2>4. DOMAIN cacheIndex' = {cache'[i].ip : i \in L}
    BY <1>3, <2>1, <2>2, <2>3
  <2>5. \A i \in L : cacheIndex'[cache'[i].ip] = cache'[i].node
    BY <1>3, <1>b, <1>d, <2>1
  <2>6. ASSUME NEW i \in L, NEW j \in L,
               cache'[i].node = cache'[j].node \/ cache'[i].ip = cache'[j].ip
        PROVE  i = j
    <3>1. from[i] = from[j]
      BY <1>b, <1>d, <2>1, <2>6
    <3>. QED
      BY <1>b, <3>1
  <2>7. 1 .. Len(cache') = L
    BY <1>2 DEF L
  <2>. QED
    BY <2>4, <2>5, <2>6, <2>7 DEF IndexAgrees
<1>10. HoldsTheRecent'
  <2>1. \A i \in 1 .. Len(cache) : cache[i].ip = recency[i]
    BY DEF GeoInv, HoldsTheRecent
  <2>2. Len(cache) = IF Len(recency) < Capacity THEN Len(recency) ELSE Capacity
    BY DEF GeoInv, HoldsTheRecent
  <2>3. Len(cache) \in Nat /\ Len(recency) \in Nat /\ Len(cache) <= Len(recency)
    BY <2>2, CapacityPositive DEF GeoInv, CacheIsTyped, RecencyIsTyped
  <2>4. ASSUME NEW i \in 1 .. Len(cache) PROVE cache'[i].ip = recency'[i]
    <3>1. CASE i = 1
      BY <1>1, <1>2, <1>5, <3>1
    <3>2. CASE i \in 2 .. p
      <4>1. i - 1 \in 1 .. Len(cache)
        BY <1>1, <2>3, <3>2
      <4>. QED
        BY <1>2, <1>5, <2>1, <3>2, <4>1
    <3>3. CASE i \in p + 1 .. Len(cache)
      <4>1. i \in p + 1 .. Len(recency)
        BY <1>1, <2>3, <3>3
      <4>. QED
        BY <1>2, <1>5, <2>1, <3>3, <4>1
    <3>. QED
      BY <1>1, <2>3, <3>1, <3>2, <3>3
  <2>. QED
    BY <1>2, <1>5, <2>2, <2>4 DEF HoldsTheRecent, Capacity
<1>. QED
  BY <1>5, <1>6, <1>8, <1>9, <1>10 DEF GeoInv

(* A miss keeps it: the list gets a new first element and loses its last   *)
(* when it would be too long, and the index follows.                       *)
LEMMA MissPreserves ==
  ASSUME GeoInv, NEW ip \in Addresses, Miss(ip), recency' = Recalled(ip),
         UNCHANGED <<files, opened>>
  PROVE  GeoInv'
<1> DEFINE e       == [node |-> FreeNode, ip |-> ip, info |-> Query(ip)]
           longer  == Before(e, cache)
           indexed == [x \in DOMAIN cacheIndex \union {ip} |->
                         IF x = ip THEN FreeNode ELSE cacheIndex[x]]
<1>1. ip \notin DOMAIN cacheIndex
  BY DEF Miss
<1>2. /\ Len(cache) \in Nat /\ Len(recency) \in Nat
      /\ Len(cache) <= Capacity /\ Len(cache) <= Len(recency)
      /\ Len(cache) = IF Len(recency) < Capacity THEN Len(recency) ELSE Capacity
      /\ Capacity \in Nat /\ Capacity >= 1
  BY CapacityPositive DEF GeoInv, CacheIsTyped, RecencyIsTyped, HoldsTheRecent
<1>3. FreeNode \in Nodes /\ \A i \in 1 .. Len(cache) : cache[i].node # FreeNode
  BY FreeNodeIsFree DEF GeoInv
<1>4. /\ DOMAIN longer = 1 .. Len(cache) + 1 /\ Len(longer) = Len(cache) + 1
      /\ longer[1] = e
      /\ \A i \in 2 .. Len(cache) + 1 : longer[i] = cache[i - 1]
  BY BeforeAdds DEF GeoInv, CacheIsTyped
<1>5. IF Len(longer) > Capacity
      THEN /\ cacheIndex' = Unindexed(indexed, longer[Len(longer)].ip)
           /\ cache' = [i \in 1 .. Len(longer) - 1 |-> longer[i]]
      ELSE cacheIndex' = indexed /\ cache' = longer
  BY DEF Miss
<1> DEFINE n == IF Len(cache) = Capacity THEN Capacity ELSE Len(cache) + 1
<1> HIDE DEF longer
<1>6. /\ DOMAIN cache' = 1 .. n /\ Len(cache') = n /\ n \in 1 .. Capacity
      /\ n <= Len(cache) + 1
      /\ cache'[1] = e
      /\ \A i \in 2 .. n : cache'[i] = cache[i - 1]
  BY <1>2, <1>4, <1>5
<1>7. \A i \in 1 .. Len(cache) : cache[i].ip \in DOMAIN cacheIndex /\ cache[i].ip # ip
  BY <1>1 DEF GeoInv, IndexAgrees
<1>8. /\ \A x : x \in DOMAIN cacheIndex' <=> x = ip \/ \E j \in 1 .. n - 1 : x = cache[j].ip
      /\ cacheIndex'[ip] = FreeNode
      /\ \A j \in 1 .. n - 1 : cacheIndex'[cache[j].ip] = cache[j].node
  <2>1. /\ \A x : x \in DOMAIN indexed <=> x = ip \/ \E j \in 1 .. Len(cache) : x = cache[j].ip
        /\ indexed[ip] = FreeNode
        /\ \A j \in 1 .. Len(cache) : indexed[cache[j].ip] = cache[j].node
    <3>1. \A x : x \in DOMAIN cacheIndex <=> \E j \in 1 .. Len(cache) : x = cache[j].ip
      BY DEF GeoInv, IndexAgrees
    <3>2. \A j \in 1 .. Len(cache) : indexed[cache[j].ip] = cacheIndex[cache[j].ip]
      BY <1>7
    <3>. QED
      BY <3>1, <3>2 DEF GeoInv, IndexAgrees
  <2> HIDE DEF indexed
  <2>2. CASE Len(cache) = Capacity
    <3>1. longer[Len(longer)] = cache[Capacity] /\ Capacity \in 1 .. Len(cache) /\ n = Capacity
      BY <1>2, <1>4, <2>2
    <3>2. cacheIndex' = Unindexed(indexed, cache[Capacity].ip)
      BY <1>2, <1>4, <1>5, <2>2, <3>1
    <3>3. /\ DOMAIN cacheIndex' = DOMAIN indexed \ {cache[Capacity].ip}
          /\ \A x \in DOMAIN indexed \ {cache[Capacity].ip} : cacheIndex'[x] = indexed[x]
      BY <3>2 DEF Unindexed
    <3>4. \A j \in 1 .. Len(cache) : cache[j].ip = cache[Capacity].ip <=> j = Capacity
      BY <3>1 DEF GeoInv, IndexAgrees
    <3>5. \A j \in 1 .. Len(cache) : j # Capacity <=> j \in 1 .. n - 1
      BY <1>2, <2>2, <3>1
    <3>6. \A j \in 1 .. n - 1 : j \in 1 .. Len(cache)
      BY <1>2, <2>2, <3>1
    <3>7. ip # cache[Capacity].ip
      BY <1>7, <3>1
    <3> HIDE DEF n
    <3>8. ASSUME NEW x
          PROVE x \in DOMAIN cacheIndex' <=> x = ip \/ \E j \in 1 .. n - 1 : x = cache[j].ip
      BY <2>1, <3>3, <3>4, <3>5, <3>6, <3>7, Zenon
    <3>9. cacheIndex'[ip] = FreeNode
      BY <2>1, <3>3, <3>7
    <3>10. ASSUME NEW j \in 1 .. n - 1
           PROVE cacheIndex'[cache[j].ip] = cache[j].node
      BY <2>1, <3>3, <3>4, <3>5, <3>6
    <3>. QED
      BY <3>8, <3>9, <3>10
  <2>3. CASE Len(cache) # Capacity
    <3>1. cacheIndex' = indexed /\ n - 1 = Len(cache)
      BY <1>2, <1>4, <1>5, <2>3
    <3>. QED
      BY <2>1, <3>1
  <2>. QED
    BY <2>2, <2>3
<1> HIDE DEF n
<1>9. IndexAgrees'
  <2>1. \A i \in 2 .. n : i - 1 \in 1 .. n - 1 /\ i - 1 \in 1 .. Len(cache)
    BY <1>2, <1>6
  <2>2. ASSUME NEW x
        PROVE x \in DOMAIN cacheIndex' <=> \E i \in 1 .. n : x = cache'[i].ip
    <3>1. ASSUME NEW j \in 1 .. n - 1
          PROVE \E i \in 1 .. n : cache'[i].ip = cache[j].ip
      <4>1. j + 1 \in 2 .. n /\ j + 1 \in 1 .. n /\ (j + 1) - 1 = j
        BY <1>6
      <4>2. cache'[j + 1] = cache[(j + 1) - 1]
        BY <1>6, <4>1
      <4>. QED
        BY <4>1, <4>2
    <3>2. cache'[1].ip = ip /\ 1 \in 1 .. n
      BY <1>6
    <3>3. ASSUME NEW i \in 1 .. n
          PROVE cache'[i].ip = ip \/ \E j \in 1 .. n - 1 : cache'[i].ip = cache[j].ip
      <4>1. i = 1 \/ i \in 2 .. n
        BY <1>6
      <4>. QED
        BY <1>6, <2>1, <3>2, <4>1
    <3>. QED
      BY <1>8, <3>1, <3>2, <3>3
  <2>3. ASSUME NEW i \in 1 .. n PROVE cacheIndex'[cache'[i].ip] = cache'[i].node
    <3>1. i = 1 \/ i \in 2 .. n
      BY <1>6
    <3>. QED
      BY <1>6, <1>8, <2>1, <3>1
  <2>4. ASSUME NEW i \in 1 .. n, NEW j \in 1 .. n,
               cache'[i].node = cache'[j].node \/ cache'[i].ip = cache'[j].ip
        PROVE i = j
    <3>1. i = 1 \/ i \in 2 .. n
      BY <1>6
    <3>2. j = 1 \/ j \in 2 .. n
      BY <1>6
    <3>3. \A k \in 2 .. n : cache'[k].node # e.node /\ cache'[k].ip # e.ip
      <4>1. \A k \in 2 .. n : cache[k - 1].node # FreeNode /\ cache[k - 1].ip # ip
        BY <1>3, <1>7, <2>1
      <4>. QED
        BY <1>6, <4>1
    <3>4. cache'[1].node = e.node /\ cache'[1].ip = e.ip
      BY <1>6
    <3> HIDE DEF e
    <3>5. CASE i \in 2 .. n /\ j \in 2 .. n
      <4>1. cache'[i] = cache[i - 1] /\ cache'[j] = cache[j - 1]
        BY <1>6, <3>5
      <4>2. i - 1 \in 1 .. Len(cache) /\ j - 1 \in 1 .. Len(cache)
        BY <2>1, <3>5
      <4>3. i - 1 = j - 1
        BY <2>4, <4>1, <4>2 DEF GeoInv, IndexAgrees
      <4>. QED
        BY <1>6, <4>3
    <3>. QED
      BY <2>4, <3>1, <3>2, <3>3, <3>4, <3>5
  <2>5. DOMAIN cacheIndex' = {cache'[i].ip : i \in 1 .. Len(cache')}
    BY <1>6, <2>2
  <2>. QED
    BY <1>6, <2>3, <2>4, <2>5 DEF IndexAgrees
<1>10. OpenedAtStart'
  BY DEF GeoInv, OpenedAtStart, Located, Opens, Exists
<1>11. CacheIsTyped'
  <2>1. \A x : Query(x)' = Query(x)
    BY DEF Query
  <2>2. ASSUME NEW i \in 1 .. n
        PROVE /\ cache'[i] = [node |-> cache'[i].node, ip |-> cache'[i].ip,
                              info |-> Query(cache'[i].ip)]
              /\ cache'[i].node \in Nodes /\ cache'[i].ip \in Addresses
    <3>1. CASE i = 1
      BY <1>3, <1>6, <3>1
    <3>2. CASE i \in 2 .. n
      <4>1. i - 1 \in 1 .. Len(cache) /\ cache'[i] = cache[i - 1]
        BY <1>2, <1>6, <3>2
      <4>. QED
        BY <4>1 DEF GeoInv, CacheIsTyped
    <3>. QED
      BY <1>6, <3>1, <3>2
  <2>. QED
    BY <1>2, <1>6, <2>1, <2>2 DEF CacheIsTyped, Capacity, Nodes
<1>12. /\ RecencyIsTyped' /\ RecencyDistinct'
       /\ recency'[1] = ip
       /\ n = IF Len(recency') < Capacity THEN Len(recency') ELSE Capacity
       /\ \A i \in 2 .. n : recency'[i] = recency[i - 1]
  <2>1. RecencyIsTyped' /\ RecencyDistinct' /\ recency'[1] = ip
    BY RecencyAfter DEF GeoInv
  <2>2. CASE \A q \in 1 .. Len(recency) : recency[q] # ip
    <3>1. /\ Len(recency') = Len(recency) + 1
          /\ \A i \in 2 .. Len(recency') : recency'[i] = recency[i - 1]
      BY <2>2, RecencyAfter DEF GeoInv
    <3>2. n = IF Len(recency') < Capacity THEN Len(recency') ELSE Capacity
      BY <1>2, <3>1 DEF n
    <3>. QED
      BY <1>2, <2>1, <3>1, <3>2
  <2>3. CASE \E q \in 1 .. Len(recency) : recency[q] = ip
    <3>1. PICK q \in 1 .. Len(recency) : recency[q] = ip
      BY <2>3
    <3>2. /\ Len(recency') = Len(recency)
          /\ \A i \in 2 .. q : recency'[i] = recency[i - 1]
      BY <3>1, RecencyAfter DEF GeoInv
    <3>3. q > Len(cache)
      BY <1>2, <1>7, <3>1 DEF GeoInv, HoldsTheRecent
    <3>4. Len(cache) = Capacity /\ n = Capacity
      BY <1>2, <3>3 DEF n
    <3>. QED
      BY <1>2, <2>1, <3>2, <3>3, <3>4
  <2>. QED
    BY <2>2, <2>3
<1>13. HoldsTheRecent'
  <2>1. ASSUME NEW i \in 1 .. n PROVE cache'[i].ip = recency'[i]
    <3>1. CASE i = 1
      BY <1>6, <1>12, <3>1
    <3>2. CASE i \in 2 .. n
      <4>1. i - 1 \in 1 .. Len(cache) /\ cache'[i] = cache[i - 1]
        BY <1>2, <1>6, <3>2
      <4>. QED
        BY <1>12, <3>2, <4>1 DEF GeoInv, HoldsTheRecent
    <3>. QED
      BY <1>6, <3>1, <3>2
  <2>. QED
    BY <1>6, <1>12, <2>1 DEF HoldsTheRecent, Capacity
<1>. QED
  BY <1>9, <1>10, <1>11, <1>12, <1>13 DEF GeoInv

---------------------------------------------------------------------------
(* Whatever is looked up, and however often the cache has turned over, the *)
(* list and its index agree, the list holds the addresses used last, and   *)
(* an answer is what the installed databases say of the address.           *)
THEOREM CacheSound == GeoSpec => []CacheIsSound
<1>1. GeoInit => GeoInv
  <2>1. Len(<<>>) = 0 /\ DOMAIN <<>> = {}
    OBVIOUS
  <2>. QED
    BY <2>1, CapacityPositive DEF GeoInit, GeoInv, OpenedAtStart, CacheIsTyped,
      RecencyIsTyped, IndexAgrees, HoldsTheRecent, RecencyDistinct
<1>2. GeoInv /\ [GeoNext]_geo => GeoInv'
  <2> SUFFICES ASSUME GeoInv, [GeoNext]_geo PROVE GeoInv'
    OBVIOUS
  <2>1. ASSUME NEW ip \in Addresses, Lookup(ip) PROVE GeoInv'
    BY <2>1, HitPreserves, MissPreserves DEF Lookup
  <2>2. CASE UNCHANGED geo
    <3>1. OpenedAtStart'
      BY <2>2 DEF geo, GeoInv, OpenedAtStart, Located, Opens, Exists
    <3>2. CacheIsTyped' /\ RecencyIsTyped'
      BY <2>2 DEF geo, GeoInv, CacheIsTyped, RecencyIsTyped, Query
    <3>3. IndexAgrees'
      BY <2>2, SMTT(30) DEF geo, GeoInv, IndexAgrees
    <3>4. HoldsTheRecent'
      BY <2>2 DEF geo, GeoInv, HoldsTheRecent
    <3>5. RecencyDistinct'
      BY <2>2 DEF geo, GeoInv, RecencyDistinct
    <3>. QED
      BY <3>1, <3>2, <3>3, <3>4, <3>5 DEF GeoInv
  <2>. QED
    BY <2>1, <2>2 DEF GeoNext
<1>3. GeoInv => CacheIsSound
  BY AnswersAreFacts DEF GeoInv, CacheIsSound
<1>. QED
  BY <1>1, <1>2, <1>3, PTL DEF GeoSpec

---------------------------------------------------------------------------
(* A row of the copy is of a flow of this capture, with bytes it has had.  *)
RowsAreFlows ==
  /\ Len(flowsCache) \in Nat /\ DOMAIN flowsCache = 1 .. Len(flowsCache)
  /\ \A i \in 1 .. Len(flowsCache) :
       /\ flowsCache[i].key \in DOMAIN flows /\ flowsCache[i].bytes \in Nat
       /\ flowsCache[i].bytes <= flows[flowsCache[i].key]
  /\ \A i, j \in 1 .. Len(flowsCache) : flowsCache[i].key = flowsCache[j].key => i = j

(* What a refresh has done for the i-th row.                               *)
Treated(i) ==
  /\ AddressOf[flowsCache[i].key] \in DOMAIN flowGeoCache
  /\ flowsCache[i].bytes <= maxFlowBytes

Counts ==
  /\ now \in Nat /\ lastFlowsRefresh \in Int /\ maxFlowBytes \in Nat
  /\ IsFiniteSet(DOMAIN flows) /\ DOMAIN flows \subseteq Keys
  /\ \A k \in DOMAIN flows : flows[k] \in Nat

PlacesAreTrue == \A ip \in DOMAIN flowGeoCache : flowGeoCache[ip] = PlaceOf[ip]

RowsTreated ==
  /\ step = "refresh" =>
       cursor \in Nat /\ cursor >= 1 /\ \A i \in 1 .. Len(flowsCache) : i < cursor => Treated(i)
  /\ step # "refresh" => \A i \in 1 .. Len(flowsCache) : Treated(i)

CopyIsRecent ==
  step # "idle" => lastFlowsRefresh >= 0 /\ now - lastFlowsRefresh < Period

RowsSorted ==
  /\ step # "refresh" /\ ~sortDirty => InOrder(flowsCache, sortColumn, ascending)
  /\ step = "rows" => ~sortDirty

(* The inductive invariant.                                                *)
TableInv ==
  /\ step \in {"idle", "refresh", "locate", "draw", "rows"}
  /\ Counts /\ RowsAreFlows /\ PlacesAreTrue /\ RowsTreated /\ CopyIsRecent /\ RowsSorted

---------------------------------------------------------------------------
(* A listing is a sequence of distinct elements.                           *)
LEMMA ListingIsDistinct ==
  ASSUME NEW S, IsFiniteSet(S), NEW s \in Listings(S)
  PROVE  /\ Len(s) \in Nat /\ DOMAIN s = 1 .. Len(s)
         /\ \A i \in 1 .. Len(s) : s[i] \in S
         /\ \A i, j \in 1 .. Len(s) : s[i] = s[j] => i = j
<1> DEFINE n == Cardinality(S)
<1>1. n \in Nat
  BY FS_CardinalityType
<1>2. s \in [1 .. n -> S] /\ \A i, j \in DOMAIN s : s[i] = s[j] => i = j
  BY DEF Listings
<1> HIDE DEF n
<1>3. s \in Seq(S) /\ DOMAIN s = 1 .. n
  BY <1>1, <1>2
<1>4. Len(s) = n
  BY <1>1, <1>3
<1>. QED
  BY <1>1, <1>2, <1>3, <1>4

LEMMA SnapshotIsFinite ==
  ASSUME IsFiniteSet(DOMAIN flows)
  PROVE  IsFiniteSet(Snapshot)
<1> DEFINE row(k) == [key |-> k, bytes |-> flows[k],
                      rtt |-> IF flows[k] > 1 THEN RttOf[k] ELSE 0]
           f == [k \in DOMAIN flows |-> row(k)]
<1>1. f \in [DOMAIN flows -> Snapshot]
  BY DEF Snapshot
<1>2. ASSUME NEW x \in Snapshot PROVE \E k \in DOMAIN flows : f[k] = x
  BY DEF Snapshot
<1> HIDE DEF f
<1>3. f \in Surjection(DOMAIN flows, Snapshot)
  BY <1>1, <1>2 DEF Surjection
<1>. QED
  BY <1>3, FS_Surjection

LEMMA RowsAreFinite ==
  ASSUME RowsAreFlows
  PROVE  IsFiniteSet({flowsCache[i] : i \in DOMAIN flowsCache})
<1> DEFINE T == {flowsCache[i] : i \in DOMAIN flowsCache}
           f == [i \in 1 .. Len(flowsCache) |-> flowsCache[i]]
<1>1. IsFiniteSet(1 .. Len(flowsCache))
  BY FS_Interval DEF RowsAreFlows
<1>2. DOMAIN flowsCache = 1 .. Len(flowsCache)
  BY DEF RowsAreFlows
<1>3. f \in [1 .. Len(flowsCache) -> T]
  BY <1>2
<1>4. ASSUME NEW x \in T PROVE \E i \in 1 .. Len(flowsCache) : f[i] = x
  BY <1>2
<1> HIDE DEF f, T
<1>5. f \in Surjection(1 .. Len(flowsCache), T)
  BY <1>3, <1>4 DEF Surjection
<1>6. IsFiniteSet(T)
  BY <1>1, <1>5, FS_Surjection
<1>. QED
  BY <1>6 DEF T

---------------------------------------------------------------------------
LEMMA SnapshotRows ==
  ASSUME NEW row \in Snapshot
  PROVE  row.key \in DOMAIN flows /\ row.bytes = flows[row.key]
         /\ row = [key |-> row.key, bytes |-> flows[row.key],
                   rtt |-> IF flows[row.key] > 1 THEN RttOf[row.key] ELSE 0]
  BY DEF Snapshot

LEMMA BeginRefreshKeeps ==
  ASSUME TableInv, BeginRefresh
  PROVE  TableInv'
<1>1. flowsCache' \in Listings(Snapshot) /\ IsFiniteSet(Snapshot)
  BY SnapshotIsFinite DEF BeginRefresh, TableInv, Counts
<1>2. /\ Len(flowsCache') \in Nat /\ DOMAIN flowsCache' = 1 .. Len(flowsCache')
      /\ \A i \in 1 .. Len(flowsCache') : flowsCache'[i] \in Snapshot
      /\ \A i, j \in 1 .. Len(flowsCache') : flowsCache'[i] = flowsCache'[j] => i = j
  BY <1>1, ListingIsDistinct
<1>3. RowsAreFlows'
  <2>1. flows' = flows
    BY DEF BeginRefresh
  <2>2. ASSUME NEW i \in 1 .. Len(flowsCache')
        PROVE  /\ flowsCache'[i].key \in DOMAIN flows' /\ flowsCache'[i].bytes \in Nat
               /\ flowsCache'[i].bytes <= flows'[flowsCache'[i].key]
    BY <1>2, <2>1, <2>2, SnapshotRows DEF TableInv, Counts
  <2>3. ASSUME NEW i \in 1 .. Len(flowsCache'), NEW j \in 1 .. Len(flowsCache'),
               flowsCache'[i].key = flowsCache'[j].key
        PROVE  i = j
    <3>1. flowsCache'[i] = flowsCache'[j]
      BY <1>2, <2>3, SnapshotRows
    <3>. QED
      BY <1>2, <3>1
  <2>. QED
    BY <1>2, <2>2, <2>3 DEF RowsAreFlows
<1>4. PlacesAreTrue'
  BY DEF BeginRefresh, GeoAtStart, TableInv, PlacesAreTrue
<1>5. Counts'
  BY DEF BeginRefresh, TableInv, Counts
<1>6. RowsTreated'
  BY <1>2 DEF BeginRefresh, RowsTreated
<1>7. CopyIsRecent'
  BY TableAssumption DEF BeginRefresh, CopyIsRecent, TableInv, Counts
<1>8. RowsSorted' /\ step' = "refresh"
  BY DEF BeginRefresh, RowsSorted
<1>. QED
  BY <1>3, <1>4, <1>5, <1>6, <1>7, <1>8 DEF TableInv

LEMMA RefreshRowKeeps ==
  ASSUME TableInv, RefreshRow
  PROVE  TableInv'
<1> DEFINE row == flowsCache[cursor]
           ip  == AddressOf[row.key]
<1>1. /\ step = "refresh" /\ cursor \in 1 .. Len(flowsCache)
      /\ cursor' = cursor + 1
      /\ UNCHANGED <<now, flows, step, flowsCache, lastFlowsRefresh, sortDirty, sortColumn,
                     ascending>>
  BY DEF RefreshRow, order, TableInv, RowsTreated, RowsAreFlows
<1>2. /\ maxFlowBytes' = IF row.bytes > maxFlowBytes THEN row.bytes ELSE maxFlowBytes
      /\ flowGeoCache' = [x \in DOMAIN flowGeoCache \union {ip} |->
                             IF x \in DOMAIN flowGeoCache THEN flowGeoCache[x]
                             ELSE PlaceOf[ip]]
  BY DEF RefreshRow
<1>3. row.bytes \in Nat /\ maxFlowBytes \in Nat
  BY <1>1 DEF TableInv, RowsAreFlows, Counts
<1>4. maxFlowBytes' \in Nat /\ maxFlowBytes' >= maxFlowBytes /\ maxFlowBytes' >= row.bytes
  BY <1>2, <1>3
<1>5. PlacesAreTrue' /\ DOMAIN flowGeoCache' = DOMAIN flowGeoCache \union {ip}
  BY <1>2 DEF TableInv, PlacesAreTrue
<1>6. RowsTreated'
  <2>1. ASSUME NEW i \in 1 .. Len(flowsCache), i < cursor + 1
        PROVE  /\ AddressOf[flowsCache[i].key] \in DOMAIN flowGeoCache'
               /\ flowsCache[i].bytes <= maxFlowBytes'
    <3>1. CASE i = cursor
      BY <1>4, <1>5, <3>1
    <3>2. CASE i < cursor
      <4>1. Treated(i) /\ flowsCache[i].bytes \in Nat
        BY <1>1, <3>2 DEF TableInv, RowsTreated, RowsAreFlows
      <4>. QED
        BY <1>3, <1>4, <1>5, <4>1 DEF Treated
    <3>. QED
      BY <1>1, <2>1, <3>1, <3>2
  <2>. QED
    BY <1>1, <2>1 DEF RowsTreated, Treated
<1>7. Counts' /\ RowsAreFlows' /\ CopyIsRecent' /\ RowsSorted'
  BY <1>1, <1>4 DEF TableInv, Counts, RowsAreFlows, CopyIsRecent, RowsSorted
<1>. QED
  BY <1>1, <1>5, <1>6, <1>7 DEF TableInv

LEMMA EndRefreshKeeps ==
  ASSUME TableInv, EndRefresh
  PROVE  TableInv'
<1>1. /\ step = "refresh" /\ step' = "locate" /\ sortDirty' = TRUE
      /\ cursor > Len(flowsCache)
      /\ UNCHANGED <<now, flows, flowsCache, flowGeoCache, maxFlowBytes, lastFlowsRefresh>>
  BY DEF EndRefresh, copy, DirtyAfterRefresh
<1>2. RowsTreated'
  <2>1. ASSUME NEW i \in 1 .. Len(flowsCache) PROVE Treated(i)
    BY <1>1 DEF TableInv, RowsTreated, RowsAreFlows
  <2>. QED
    BY <1>1, <2>1 DEF RowsTreated, Treated
<1>3. Counts' /\ RowsAreFlows' /\ PlacesAreTrue' /\ CopyIsRecent' /\ RowsSorted'
  BY <1>1 DEF TableInv, Counts, RowsAreFlows, PlacesAreTrue, CopyIsRecent, RowsSorted
<1>. QED
  BY <1>1, <1>2, <1>3 DEF TableInv

(* A sort leaves the rows what they are: only their places change.         *)
LEMMA SortKeepsRows ==
  ASSUME RowsAreFlows, NEW column, NEW up, flowsCache' \in SortedRows(column, up)
  PROVE  /\ Len(flowsCache') \in Nat /\ DOMAIN flowsCache' = 1 .. Len(flowsCache')
         /\ \A i \in 1 .. Len(flowsCache') :
              \E j \in 1 .. Len(flowsCache) : flowsCache'[i] = flowsCache[j]
         /\ \A i, j \in 1 .. Len(flowsCache') :
              flowsCache'[i].key = flowsCache'[j].key => i = j
<1> DEFINE S == {flowsCache[i] : i \in DOMAIN flowsCache}
<1>1. flowsCache' \in Listings(S) /\ IsFiniteSet(S)
  BY RowsAreFinite DEF SortedRows
<1>2. ASSUME NEW x \in S PROVE \E j \in 1 .. Len(flowsCache) : x = flowsCache[j]
  BY DEF RowsAreFlows
<1> HIDE DEF S
<1>3. /\ Len(flowsCache') \in Nat /\ DOMAIN flowsCache' = 1 .. Len(flowsCache')
      /\ \A i \in 1 .. Len(flowsCache') : flowsCache'[i] \in S
      /\ \A i, j \in 1 .. Len(flowsCache') : flowsCache'[i] = flowsCache'[j] => i = j
  BY <1>1, ListingIsDistinct
<1>4. ASSUME NEW i \in 1 .. Len(flowsCache'), NEW j \in 1 .. Len(flowsCache'),
             flowsCache'[i].key = flowsCache'[j].key
      PROVE  i = j
  <2>1. PICK a \in 1 .. Len(flowsCache) : flowsCache'[i] = flowsCache[a]
    BY <1>2, <1>3
  <2>2. PICK b \in 1 .. Len(flowsCache) : flowsCache'[j] = flowsCache[b]
    BY <1>2, <1>3
  <2>3. a = b
    BY <1>4, <2>1, <2>2 DEF RowsAreFlows
  <2>. QED
    BY <1>3, <2>1, <2>2, <2>3
<1>. QED
  BY <1>2, <1>3, <1>4

LEMMA DrawTableKeeps ==
  ASSUME TableInv, NEW column, NEW up, DrawTable(column, up)
  PROVE  TableInv'
<1>1. /\ step = "draw" /\ step' = "rows" /\ sortDirty' = FALSE
      /\ sortColumn' = column /\ ascending' = up
      /\ UNCHANGED <<now, flows, flowGeoCache, maxFlowBytes, lastFlowsRefresh>>
  BY DEF DrawTable
<1>2. Counts' /\ PlacesAreTrue' /\ CopyIsRecent'
  BY <1>1 DEF TableInv, Counts, PlacesAreTrue, CopyIsRecent
<1>3. RowsAreFlows /\ \A i \in 1 .. Len(flowsCache) : Treated(i)
  BY <1>1 DEF TableInv, RowsTreated
<1>4. CASE flowsCache' \in SortedRows(column, up)
  <2>1. /\ Len(flowsCache') \in Nat /\ DOMAIN flowsCache' = 1 .. Len(flowsCache')
        /\ \A i \in 1 .. Len(flowsCache') :
             \E j \in 1 .. Len(flowsCache) : flowsCache'[i] = flowsCache[j]
        /\ \A i, j \in 1 .. Len(flowsCache') :
             flowsCache'[i].key = flowsCache'[j].key => i = j
    BY <1>3, <1>4, SortKeepsRows
  <2>2. RowsAreFlows' /\ RowsTreated'
    <3>1. ASSUME NEW i \in 1 .. Len(flowsCache')
          PROVE  /\ flowsCache'[i].key \in DOMAIN flows /\ flowsCache'[i].bytes \in Nat
                 /\ flowsCache'[i].bytes <= flows[flowsCache'[i].key]
                 /\ AddressOf[flowsCache'[i].key] \in DOMAIN flowGeoCache
                 /\ flowsCache'[i].bytes <= maxFlowBytes
      <4>1. PICK j \in 1 .. Len(flowsCache) : flowsCache'[i] = flowsCache[j]
        BY <2>1
      <4>. QED
        BY <1>3, <4>1 DEF RowsAreFlows, Treated
    <3>. QED
      BY <1>1, <2>1, <3>1 DEF RowsAreFlows, RowsTreated, Treated
  <2>3. InOrder(flowsCache', column, up)
    BY <1>4 DEF SortedRows
  <2>4. RowsSorted'
    BY <1>1, <2>3 DEF RowsSorted, InOrder, CompareFlows, Value
  <2>. QED
    BY <1>1, <1>2, <2>2, <2>4 DEF TableInv
<1>5. CASE flowsCache' = flowsCache /\ ~sortDirty /\ column = sortColumn /\ up = ascending
  <2>1. RowsSorted'
    BY <1>1, <1>5 DEF TableInv, RowsSorted, InOrder, CompareFlows, Value
  <2>2. RowsAreFlows' /\ RowsTreated'
    BY <1>1, <1>3, <1>5 DEF RowsAreFlows, RowsTreated, Treated
  <2>. QED
    BY <1>1, <1>2, <2>1, <2>2 DEF TableInv
<1>. QED
  BY <1>4, <1>5 DEF DrawTable

---------------------------------------------------------------------------
(* The steps that leave copy and order alone.                              *)
Quiet == NoRefresh \/ Locate \/ TableHidden \/ ClickRow \/ ClearSelection \/ NoClick
           \/ \E k \in Keys : FilterByPacket(k)

LEMMA QuietKeeps ==
  ASSUME TableInv, Quiet \/ UNCHANGED tvars
  PROVE  TableInv'
<1>1. /\ UNCHANGED <<now, flows, cursor, flowsCache, flowGeoCache, maxFlowBytes,
                     lastFlowsRefresh, sortDirty, sortColumn, ascending>>
      /\ \/ step = "idle" /\ step' = "locate" /\ ~Due
         \/ step \in {"locate"} /\ step' = "draw"
         \/ step' = "idle" /\ step # "refresh"
         \/ step' = step
  BY DEF Quiet, NoRefresh, Locate, TableHidden, ClickRow, ClearSelection, NoClick,
    FilterByPacket, tvars, copy, order
<1>2. Counts' /\ RowsAreFlows' /\ PlacesAreTrue'
  BY <1>1 DEF TableInv, Counts, RowsAreFlows, PlacesAreTrue
<1>3. RowsTreated'
  BY <1>1 DEF TableInv, RowsTreated, Treated
<1>4. CopyIsRecent'
  <2>1. CASE ~Due
    <3>1. lastFlowsRefresh >= 0 /\ now - lastFlowsRefresh < Period
      BY <2>1, TableAssumption DEF TableInv, Counts, Due
    <3>. QED
      BY <1>1, <3>1 DEF CopyIsRecent
  <2>2. CASE step # "idle" \/ step' = step \/ step' = "idle"
    BY <1>1, <2>2 DEF TableInv, CopyIsRecent
  <2>. QED
    BY <1>1, <2>1, <2>2
<1>5. RowsSorted' /\ step' \in {"idle", "refresh", "locate", "draw", "rows"}
  BY <1>1 DEF TableInv, RowsSorted, InOrder, CompareFlows, Value
<1>. QED
  BY <1>2, <1>3, <1>4, <1>5 DEF TableInv

LEMMA TimePassesKeeps ==
  ASSUME TableInv, TimePasses
  PROVE  TableInv'
<1>1. /\ step = "idle" /\ now' = now + 1
      /\ UNCHANGED <<flows, step, cursor, flowsCache, flowGeoCache, maxFlowBytes,
                     lastFlowsRefresh, sortDirty, sortColumn, ascending>>
  BY DEF TimePasses, copy, order
<1>2. Counts' /\ RowsAreFlows' /\ PlacesAreTrue' /\ CopyIsRecent'
  BY <1>1 DEF TableInv, Counts, RowsAreFlows, PlacesAreTrue, CopyIsRecent
<1>3. RowsTreated' /\ RowsSorted'
  BY <1>1 DEF TableInv, RowsTreated, Treated, RowsSorted, InOrder, CompareFlows, Value
<1>. QED
  BY <1>1, <1>2, <1>3 DEF TableInv

(* The copy may lag behind: a flow only gains bytes.                       *)
LEMMA PacketOfKeeps ==
  ASSUME TableInv, NEW k \in Keys, PacketOf(k)
  PROVE  TableInv'
<1>1. /\ step = "idle"
      /\ UNCHANGED <<now, step, cursor, flowsCache, flowGeoCache, maxFlowBytes,
                     lastFlowsRefresh, sortDirty, sortColumn, ascending>>
      /\ flows' = [x \in DOMAIN flows \union {k} |->
                     IF x \in DOMAIN flows
                     THEN flows[x] + IF x = k THEN 1 ELSE 0 ELSE 1]
  BY DEF PacketOf, copy, order
<1>2. /\ DOMAIN flows' = DOMAIN flows \union {k}
      /\ \A x \in DOMAIN flows : flows'[x] = flows[x] \/ flows'[x] = flows[x] + 1
      /\ \A x \in DOMAIN flows' : flows'[x] \in Nat
  BY <1>1 DEF TableInv, Counts
<1>3. IsFiniteSet(DOMAIN flows')
  BY <1>2, FS_AddElement DEF TableInv, Counts
<1>4. Counts' /\ PlacesAreTrue' /\ CopyIsRecent'
  BY <1>1, <1>2, <1>3 DEF TableInv, Counts, PlacesAreTrue, CopyIsRecent
<1>5. RowsAreFlows'
  <2>1. ASSUME NEW i \in 1 .. Len(flowsCache)
        PROVE  /\ flowsCache[i].key \in DOMAIN flows' /\ flowsCache[i].bytes \in Nat
               /\ flowsCache[i].bytes <= flows'[flowsCache[i].key]
    <3>1. /\ flowsCache[i].key \in DOMAIN flows /\ flowsCache[i].bytes \in Nat
          /\ flowsCache[i].bytes <= flows[flowsCache[i].key]
          /\ flows[flowsCache[i].key] \in Nat
      BY DEF TableInv, RowsAreFlows, Counts
    <3>. QED
      BY <1>2, <3>1
  <2>. QED
    BY <1>1, <2>1 DEF TableInv, RowsAreFlows
<1>6. RowsTreated' /\ RowsSorted'
  BY <1>1 DEF TableInv, RowsTreated, Treated, RowsSorted, InOrder, CompareFlows, Value
<1>. QED
  BY <1>1, <1>4, <1>5, <1>6 DEF TableInv

(* An empty copy is of any capture, in any order.                          *)
LEMMA EmptyCopy ==
  ASSUME flowsCache = <<>>, step = "idle"
  PROVE  RowsAreFlows /\ RowsTreated /\ RowsSorted
<1>1. Len(flowsCache) = 0 /\ DOMAIN flowsCache = {} /\ 1 .. 0 = {}
  BY DEF RowsAreFlows
<1>. QED
  BY <1>1 DEF RowsAreFlows, RowsTreated, RowsSorted, InOrder

LEMMA ClearCaptureViewKeeps ==
  ASSUME TableInv, ClearCaptureView
  PROVE  TableInv'
<1>1. Counts' /\ PlacesAreTrue' /\ CopyIsRecent' /\ step' = "idle" /\ flowsCache' = <<>>
  BY TableAssumption, FS_EmptySet
    DEF ClearCaptureView, TableInv, Counts, PlacesAreTrue, CopyIsRecent
<1>2. Len(flowsCache') = 0 /\ DOMAIN flowsCache' = {} /\ 1 .. 0 = {}
  BY <1>1
<1>3. RowsAreFlows' /\ RowsTreated' /\ RowsSorted'
  BY <1>1, <1>2 DEF RowsAreFlows, RowsTreated, RowsSorted, InOrder
<1>. QED
  BY <1>1, <1>3 DEF TableInv

---------------------------------------------------------------------------
LEMMA TableStarts == TInit => TableInv
<1> SUFFICES ASSUME TInit PROVE TableInv
  OBVIOUS
<1>1. RowsAreFlows /\ RowsTreated /\ RowsSorted
  BY EmptyCopy DEF TInit
<1>. QED
  BY <1>1, TableAssumption, FS_EmptySet
    DEF TInit, TableInv, Counts, PlacesAreTrue, CopyIsRecent

LEMMA TableIsInductive == TableInv /\ [TNext]_tvars => TableInv'
<1> SUFFICES ASSUME TableInv, [TNext]_tvars PROVE TableInv'
  OBVIOUS
<1>1. CASE BeginRefresh
  BY <1>1, BeginRefreshKeeps
<1>2. CASE RefreshRow
  BY <1>2, RefreshRowKeeps
<1>3. CASE EndRefresh
  BY <1>3, EndRefreshKeeps
<1>4. ASSUME NEW c \in HeaderColumns, NEW up \in BOOLEAN, DrawTable(c, up)
      PROVE  TableInv'
  BY <1>4, DrawTableKeeps
<1>5. CASE Quiet \/ UNCHANGED tvars
  BY <1>5, QuietKeeps
<1>6. CASE TimePasses
  BY <1>6, TimePassesKeeps
<1>7. CASE ClearCaptureView
  BY <1>7, ClearCaptureViewKeeps
<1>8. ASSUME NEW k \in Keys, PacketOf(k) PROVE TableInv'
  BY <1>8, PacketOfKeeps
<1>. QED
  BY <1>1, <1>2, <1>3, <1>4, <1>5, <1>6, <1>7, <1>8 DEF TNext, Quiet

(* Whatever packets come, wherever the peers are and whatever the user     *)
(* clicks, a row that is drawn is of a flow of this capture, copied within *)
(* the last half second, at its place in the order and with the place its  *)
(* peer is at.                                                             *)
THEOREM ShownRowsRight == TSpec => []ShownRowsAreRight
<1>1. TInit => TableInv
  BY TableStarts
<1>2. TableInv /\ [TNext]_tvars => TableInv'
  BY TableIsInductive
<1>3. TableInv => ShownRowsAreRight
  <2> SUFFICES ASSUME TableInv, step = "rows"
               PROVE  RowsArePlaced /\ RowsAreOfThisCapture
                      /\ InOrder(flowsCache, sortColumn, ascending)
    BY DEF ShownRowsAreRight
  <2>1. RowsArePlaced
    BY DEF TableInv, RowsAreFlows, RowsTreated, Treated, PlacesAreTrue, RowsArePlaced
  <2>2. RowsAreOfThisCapture
    BY DEF TableInv, RowsAreFlows, RowsTreated, Treated, CopyIsRecent, RowsAreOfThisCapture
  <2>3. InOrder(flowsCache, sortColumn, ascending)
    BY DEF TableInv, RowsSorted
  <2>. QED
    BY <2>1, <2>2, <2>3
<1>. QED
  BY <1>1, <1>2, <1>3, PTL DEF TSpec

---------------------------------------------------------------------------
(* One turn of the ring at most: what the remainder is.                    *)
LEMMA RingIndex ==
  ASSUME NEW a \in 0 .. 2 * HistorySize - 1
  PROVE  a % HistorySize = IF a < HistorySize THEN a ELSE a - HistorySize
<1>. HistorySize \in Nat /\ HistorySize > 0
  BY TableAssumption
<1>1. CASE a < HistorySize
  BY <1>1
<1>2. CASE a >= HistorySize
  BY <1>2
<1>. QED
  BY <1>1, <1>2

LEMMA NextOffset ==
  ASSUME NEW o \in 0 .. HistorySize - 1
  PROVE  (o + 1) % HistorySize = IF o + 1 < HistorySize THEN o + 1 ELSE 0
<1>. HistorySize \in Nat /\ HistorySize > 0
  BY TableAssumption
<1>1. CASE o + 1 < HistorySize
  BY <1>1
<1>2. CASE o + 1 = HistorySize
  BY <1>2
<1>. QED
  BY <1>1, <1>2

(* The last n elements of a sequence.                                      *)
LEMMA LastElements ==
  ASSUME NEW S, NEW s \in Seq(S), NEW n \in Nat, n <= Len(s)
  PROVE  /\ SubSeq(s, Len(s) - n + 1, Len(s)) = [i \in 1 .. n |-> s[Len(s) - n + i]]
         /\ Len([i \in 1 .. n |-> s[Len(s) - n + i]]) = n
<1> DEFINE g == [i \in 1 .. n |-> s[Len(s) - n + i]]
<1>1. Len(s) \in Nat
  OBVIOUS
<1>2. ASSUME NEW i \in 1 .. n PROVE s[Len(s) - n + i] \in S
  <2>1. Len(s) - n + i \in 1 .. Len(s)
    BY <1>1
  <2>. QED
    BY <2>1
<1>3. g \in Seq(S) /\ Len(g) = n
  BY <1>2
<1>4. SubSeq(s, Len(s) - n + 1, Len(s)) = g
  BY <1>1, <1>2
<1>. QED
  BY <1>3, <1>4

(* Where the i-th oldest point of a ring is that starts at o.              *)
Slot(o, i) == IF o + i <= HistorySize THEN o + i ELSE o + i - HistorySize

LEMMA SlotIsIndex ==
  ASSUME NEW o \in 0 .. HistorySize - 1, NEW i \in 1 .. HistorySize
  PROVE  /\ ((o + i - 1) % HistorySize) + 1 = Slot(o, i)
         /\ Slot(o, i) \in 1 .. HistorySize
<1>1. HistorySize \in Nat /\ o + i - 1 \in 0 .. 2 * HistorySize - 1
  BY TableAssumption
<1>2. (o + i - 1) % HistorySize
        = IF o + i - 1 < HistorySize THEN o + i - 1 ELSE o + i - 1 - HistorySize
  BY <1>1, RingIndex
<1>. QED
  BY <1>1, <1>2 DEF Slot

Samples == [key : Keys, at : Nat]

(* The ring holds the last of the samples s, oldest at its offset.         *)
Holds(ring, s) ==
  /\ s \in Seq(Samples)
  /\ ring = [data |-> ring.data, offset |-> ring.offset] /\ ring.data \in Seq(Samples)
  /\ Len(ring.data) = IF Len(s) < HistorySize THEN Len(s) ELSE HistorySize
  /\ ring.offset \in 0 .. HistorySize - 1
  /\ Len(s) <= HistorySize => ring.offset = 0
  /\ \A i \in 1 .. Len(ring.data) :
       ring.data[Slot(ring.offset, i)] = s[Len(s) - Len(ring.data) + i]

LEMMA EmptyRingHolds == Holds(EmptyRing, <<>>)
<1>1. /\ EmptyRing.data = <<>> /\ EmptyRing.offset = 0
      /\ EmptyRing = [data |-> <<>>, offset |-> 0]
      /\ 0 \in 0 .. HistorySize - 1 /\ 0 < HistorySize /\ HistorySize \in Nat
  BY TableAssumption DEF EmptyRing
<1>2. <<>> \in Seq(Samples) /\ Len(<<>>) = 0 /\ \A i \in 1 .. 0 : FALSE
  OBVIOUS
<1>. QED
  BY <1>1, <1>2 DEF Holds

(* An erased ring is empty, also when there was nothing to erase.          *)
LEMMA EraseEmpties ==
  ASSUME NEW ring, NEW s, Holds(ring, s)
  PROVE  Erase(ring) = EmptyRing
<1>1. CASE Len(ring.data) > 0
  BY <1>1 DEF Erase
<1>2. CASE Len(ring.data) = 0
  <2>1. ring.data = <<>>
    BY <1>2 DEF Holds
  <2>2. Len(s) <= HistorySize
    BY <1>2, TableAssumption DEF Holds
  <2>3. ring.offset = 0 /\ ring = [data |-> ring.data, offset |-> ring.offset]
    BY <2>2 DEF Holds
  <2>. QED
    BY <1>2, <2>1, <2>3 DEF Erase, EmptyRing
<1>. QED
  BY <1>1, <1>2 DEF Holds

(* A point added is the last; when the ring is full the oldest makes room. *)
LEMMA AddPointHolds ==
  ASSUME NEW ring, NEW s, Holds(ring, s), NEW x \in Samples
  PROVE  Holds(AddPoint(ring, x), Append(s, x))
<1> DEFINE d == ring.data
           o == ring.offset
           t == Append(s, x)
           new == AddPoint(ring, x)
<1>1. /\ s \in Seq(Samples) /\ d \in Seq(Samples) /\ o \in 0 .. HistorySize - 1
      /\ Len(s) \in Nat /\ Len(d) \in Nat /\ HistorySize \in Nat /\ HistorySize > 0
      /\ ring = [data |-> d, offset |-> o]
      /\ Len(d) = IF Len(s) < HistorySize THEN Len(s) ELSE HistorySize
      /\ Len(s) <= HistorySize => o = 0
  BY TableAssumption DEF Holds
<1>2. \A i \in 1 .. Len(d) : d[Slot(o, i)] = s[Len(s) - Len(d) + i]
  BY DEF Holds
<1>3. /\ t \in Seq(Samples) /\ Len(t) = Len(s) + 1 /\ t[Len(s) + 1] = x
      /\ \A i \in 1 .. Len(s) : t[i] = s[i]
  BY <1>1
<1>4. CASE Len(d) < HistorySize
  <2>1. new = [data |-> Append(d, x), offset |-> o]
    BY <1>1, <1>4 DEF AddPoint
  <2>2. new.data = Append(d, x) /\ new.offset = 0 /\ o = 0 /\ Len(s) = Len(d)
    BY <1>1, <1>4, <2>1
  <2> HIDE DEF new, d, o, t
  <2>3. /\ new.data \in Seq(Samples) /\ Len(new.data) = Len(d) + 1
        /\ new.data[Len(d) + 1] = x /\ \A i \in 1 .. Len(d) : new.data[i] = d[i]
    BY <1>1, <2>2
  <2>4. ASSUME NEW i \in 1 .. Len(d) PROVE d[i] = s[i]
    <3>1. Slot(o, i) = i /\ Len(s) - Len(d) + i = i
      BY <1>1, <1>4, <2>2 DEF Slot
    <3>. QED
      BY <1>2, <3>1
  <2>5. ASSUME NEW i \in 1 .. Len(new.data)
        PROVE  new.data[Slot(0, i)] = t[Len(t) - Len(new.data) + i]
    BY <1>1, <1>3, <1>4, <2>2, <2>3, <2>4 DEF Slot
  <2>6. new = [data |-> new.data, offset |-> new.offset]
    BY <2>1 DEF new
  <2>7. /\ Len(new.data) = IF Len(t) < HistorySize THEN Len(t) ELSE HistorySize
        /\ new.offset \in 0 .. HistorySize - 1
    BY <1>1, <1>3, <1>4, <2>2, <2>3
  <2>8. \A i \in 1 .. Len(new.data) :
          new.data[Slot(new.offset, i)] = t[Len(t) - Len(new.data) + i]
    BY <2>2, <2>5
  <2>9. Holds(new, t)
    BY <1>3, <2>2, <2>3, <2>6, <2>7, <2>8 DEF Holds
  <2>. QED
    BY <2>9 DEF new, t
<1>5. CASE Len(d) = HistorySize
  <2> DEFINE p == (o + 1) % HistorySize
  <2>1. /\ new = [data |-> [d EXCEPT ![o + 1] = x], offset |-> p]
        /\ new.data = [d EXCEPT ![o + 1] = x] /\ new.offset = p
    BY <1>1, <1>5 DEF AddPoint
  <2>2. p = IF o + 1 < HistorySize THEN o + 1 ELSE 0
    BY <1>1, NextOffset
  <2> HIDE DEF new, d, o, p, t
  <2>3. /\ new.data \in Seq(Samples) /\ Len(new.data) = HistorySize
        /\ new.data[o + 1] = x
        /\ \A i \in 1 .. HistorySize : i # o + 1 => new.data[i] = d[i]
    BY <1>1, <1>5, <2>1
  <2>4. Len(s) >= HistorySize /\ p \in 0 .. HistorySize - 1
    BY <1>1, <1>5, <2>2
  <2>5. ASSUME NEW i \in 1 .. HistorySize
        PROVE  new.data[Slot(p, i)] = t[Len(t) - HistorySize + i]
    <3>1. CASE i = HistorySize
      <4>1. Slot(p, i) = o + 1
        BY <1>1, <2>2, <3>1 DEF Slot
      <4>. QED
        BY <1>1, <1>3, <2>3, <3>1, <4>1
    <3>2. CASE i < HistorySize
      <4>1. /\ Slot(p, i) = Slot(o, i + 1) /\ Slot(p, i) # o + 1
            /\ Slot(p, i) \in 1 .. HistorySize
        BY <1>1, <2>2, <3>2 DEF Slot
      <4>2. new.data[Slot(p, i)] = d[Slot(o, i + 1)]
        BY <2>3, <4>1
      <4>3. i + 1 \in 1 .. Len(d) /\ Len(s) - HistorySize + (i + 1) \in 1 .. Len(s)
        BY <1>1, <1>5, <2>4, <3>2
      <4>4. d[Slot(o, i + 1)] = s[Len(s) - Len(d) + (i + 1)]
        BY <1>2, <4>3
      <4>5. Len(s) - Len(d) + (i + 1) = Len(t) - HistorySize + i
        <5>1. Len(s) \in Nat /\ HistorySize \in Nat /\ Len(d) = HistorySize
              /\ Len(t) = Len(s) + 1 /\ i \in Int
          BY <1>1, <1>3, <1>5
        <5>. QED
          BY <5>1
      <4>. QED
        BY <1>1, <1>3, <1>5, <4>2, <4>3, <4>4, <4>5
    <3>. QED
      BY <1>1, <3>1, <3>2
  <2>6. new = [data |-> new.data, offset |-> new.offset] /\ new.offset = p
    BY <2>1
  <2>7. Len(t) \in Nat /\ Len(t) > HistorySize
    BY <1>1, <1>3, <2>4
  <2>8. \A i \in 1 .. Len(new.data) :
          new.data[Slot(new.offset, i)] = t[Len(t) - Len(new.data) + i]
    BY <2>3, <2>5, <2>6
  <2>9. Holds(new, t)
    BY <1>1, <1>3, <2>3, <2>4, <2>6, <2>7, <2>8 DEF Holds
  <2>. QED
    BY <2>9 DEF new, t
<1>. QED
  BY <1>1, <1>4, <1>5

---------------------------------------------------------------------------
(* The graph is what the ring holds, and the samples are of one flow.      *)
SamplesAreApart ==
  /\ \A i \in 1 .. Len(sampled) :
       /\ sampled[i].key = rateKey
       /\ i > 1 => sampled[i].at - sampled[i - 1].at >= Period
  /\ Len(sampled) > 0 => sampled[Len(sampled)].at = lastSample

KeyIsSelected ==
  step \in {"draw", "rows"} /\ rateKey # NoKey =>
    rateKey = selected /\ now - lastSample < Period

(* The inductive invariant, beside TableInv.                               *)
RateInv ==
  /\ Holds(rateHistory, sampled) /\ SamplesAreApart
  /\ rateKey = NoKey => Len(sampled) = 0
  /\ lastSample \in Nat
  /\ KeyIsSelected

LEMMA LocateKeepsRate ==
  ASSUME TableInv, RateInv, Locate
  PROVE  RateInv'
<1>1. now \in Nat /\ now' = now /\ selected' = selected /\ step' = "draw"
  BY DEF TableInv, Counts, Locate
<1>2. Erase(rateHistory) = EmptyRing /\ Holds(EmptyRing, <<>>) /\ Len(<<>>) = 0
  BY EraseEmpties, EmptyRingHolds DEF RateInv
<1>3. sampled \in Seq(Samples) /\ lastSample \in Nat /\ Period \in Nat /\ Period > 0
  BY TableAssumption DEF RateInv, Holds
<1>4. CASE SelectedIsListed
  <2>1. selected \in Keys /\ selected # NoKey
    BY <1>4, TableAssumption DEF SelectedIsListed, TableInv, RowsAreFlows, Counts
  <2> DEFINE x == [key |-> selected, at |-> now]
  <2>2. rateKey' = selected /\ x \in Samples
    BY <1>1, <1>4, <2>1 DEF Locate, Samples
  <2>3. CASE rateKey = selected /\ now - lastSample >= Period
    <3>1. /\ rateHistory' = AddPoint(rateHistory, x)
          /\ lastSample' = now /\ sampled' = Append(sampled, x)
      BY <1>4, <2>3 DEF Locate, Sampled
    <3>2. Holds(rateHistory', sampled')
      BY <2>2, <3>1, AddPointHolds DEF RateInv
    <3>3. /\ Len(sampled') = Len(sampled) + 1 /\ Len(sampled) \in Nat
          /\ sampled'[Len(sampled) + 1] = x
          /\ \A i \in 1 .. Len(sampled) : sampled'[i] = sampled[i]
      BY <1>3, <2>2, <3>1
    <3>4. SamplesAreApart'
      <4>1. ASSUME NEW i \in 1 .. Len(sampled')
            PROVE  /\ sampled'[i].key = rateKey'
                   /\ i > 1 => sampled'[i].at - sampled'[i - 1].at >= Period
        <5>1. CASE i = Len(sampled) + 1
          <6>1. i > 1 => sampled'[i - 1].at = lastSample
            BY <3>3, <5>1 DEF RateInv, SamplesAreApart
          <6>. QED
            BY <2>2, <2>3, <3>3, <5>1, <6>1
        <5>2. CASE i \in 1 .. Len(sampled)
          BY <2>2, <2>3, <3>3, <5>2 DEF RateInv, SamplesAreApart
        <5>. QED
          BY <3>3, <5>1, <5>2
      <4>2. sampled'[Len(sampled')].at = lastSample'
        BY <3>1, <3>3
      <4>. QED
        BY <4>1, <4>2 DEF SamplesAreApart
    <3>5. KeyIsSelected' /\ lastSample' \in Nat
      BY <1>1, <1>3, <2>2, <3>1 DEF KeyIsSelected
    <3>. QED
      BY <2>1, <2>2, <3>2, <3>4, <3>5 DEF RateInv
  <2>4. CASE rateKey = selected /\ ~(now - lastSample >= Period)
    <3>1. UNCHANGED <<rateHistory, lastSample, sampled, rateKey>>
      BY <1>4, <2>2, <2>4 DEF Locate, Sampled
    <3>2. KeyIsSelected'
      BY <1>1, <1>3, <2>2, <2>4, <3>1 DEF KeyIsSelected
    <3>. QED
      BY <3>1, <3>2 DEF RateInv, SamplesAreApart
  <2>5. CASE rateKey # selected /\ now - 0 >= Period
    <3>1. /\ rateHistory' = AddPoint(EmptyRing, x)
          /\ lastSample' = now /\ sampled' = Append(<<>>, x)
      BY <1>2, <1>4, <2>5 DEF Locate, Sampled
    <3>2. Holds(rateHistory', sampled')
      BY <1>2, <2>2, <3>1, AddPointHolds
    <3>3. Len(sampled') = 1 /\ sampled'[1] = x
      BY <3>1
    <3>4. SamplesAreApart'
      BY <2>2, <3>1, <3>3 DEF SamplesAreApart
    <3>5. KeyIsSelected' /\ lastSample' \in Nat
      BY <1>1, <1>3, <2>2, <3>1 DEF KeyIsSelected
    <3>. QED
      BY <2>1, <2>2, <3>2, <3>4, <3>5 DEF RateInv
  <2>6. CASE rateKey # selected /\ ~(now - 0 >= Period)
    <3>1. rateHistory' = EmptyRing /\ lastSample' = 0 /\ sampled' = <<>>
      BY <1>2, <1>4, <2>6 DEF Locate, Sampled
    <3>2. KeyIsSelected'
      BY <1>1, <1>3, <2>2, <2>6, <3>1 DEF KeyIsSelected
    <3>. QED
      BY <1>2, <3>1, <3>2 DEF RateInv, SamplesAreApart
  <2>. QED
    BY <2>3, <2>4, <2>5, <2>6
<1>5. CASE ~SelectedIsListed
  <2>1. rateKey' = NoKey /\ sampled' = <<>> /\ lastSample' = lastSample
    BY <1>5 DEF Locate
  <2>2. rateHistory' = EmptyRing
    <3>1. CASE rateKey = NoKey
      <4>1. Holds(rateHistory, sampled) /\ Len(sampled) = 0 /\ rateHistory' = rateHistory
        BY <1>5, <3>1 DEF RateInv, Locate
      <4>2. Len(rateHistory.data) = 0
        BY <4>1, TableAssumption DEF Holds
      <4>. QED
        BY <1>2, <4>1, <4>2 DEF Erase
    <3>2. CASE rateKey # NoKey
      BY <1>2, <1>5, <3>2 DEF Locate
    <3>. QED
      BY <3>1, <3>2
  <2>. QED
    BY <1>2, <1>3, <2>1, <2>2 DEF RateInv, SamplesAreApart, KeyIsSelected
<1>. QED
  BY <1>4, <1>5

(* The graph drawn is the last samples, whatever the ring's offset.        *)
LEMMA GraphIsLastSamples ==
  ASSUME NEW ring, NEW s, Holds(ring, s)
  PROVE  /\ Len(Linear(ring)) = IF Len(s) < HistorySize THEN Len(s) ELSE HistorySize
         /\ Linear(ring) = SubSeq(s, Len(s) - Len(Linear(ring)) + 1, Len(s))
<1>1. PICK n : n = Len(ring.data)
  OBVIOUS
<1>2. PICK o : o = ring.offset
  OBVIOUS
<1>3. /\ n \in Nat /\ Len(s) \in Nat /\ HistorySize \in Nat /\ HistorySize > 0
      /\ n = IF Len(s) < HistorySize THEN Len(s) ELSE HistorySize
      /\ s \in Seq(Samples) /\ o \in 0 .. HistorySize - 1
      /\ Len(s) <= HistorySize => o = 0
  BY <1>1, <1>2, TableAssumption DEF Holds
<1>4. n <= Len(s) /\ n <= HistorySize /\ (n < HistorySize => o = 0)
  BY <1>3
<1>5. Linear(ring) = [i \in 1 .. n |-> ring.data[((o + i - 1) % n) + 1]]
  <2>1. CASE n = HistorySize
    BY <1>1, <1>2, <2>1 DEF Linear
  <2>2. CASE n # HistorySize
    BY <1>1, <1>2, <1>3, <1>4, <2>2 DEF Linear
  <2>. QED
    BY <2>1, <2>2
<1>6. ASSUME NEW i \in 1 .. n PROVE ring.data[((o + i - 1) % n) + 1] = s[Len(s) - n + i]
  <2>1. ring.data[Slot(o, i)] = s[Len(s) - n + i]
    BY <1>1, <1>2 DEF Holds
  <2>2. CASE n = HistorySize
    BY <1>3, <2>1, <2>2, SlotIsIndex
  <2>3. CASE n < HistorySize
    <3>1. o = 0 /\ n \in Nat /\ i \in 1 .. n
      BY <1>3, <1>4, <2>3
    <3>2. (0 + i - 1) % n = i - 1 /\ (i - 1) + 1 = i
      BY <3>1
    <3>3. Slot(0, i) = i
      BY <1>3, <2>3, <3>1 DEF Slot
    <3>. QED
      BY <2>1, <3>1, <3>2, <3>3
  <2>. QED
    BY <1>3, <1>4, <2>2, <2>3
<1>7. Linear(ring) = [i \in 1 .. n |-> s[Len(s) - n + i]]
  BY <1>5, <1>6
<1>8. Linear(ring) = SubSeq(s, Len(s) - n + 1, Len(s)) /\ Len(Linear(ring)) = n
  <2>1. s \in Seq(Samples) /\ n \in Nat /\ n <= Len(s)
    BY <1>3, <1>4
  <2>2. /\ SubSeq(s, Len(s) - n + 1, Len(s)) = [i \in 1 .. n |-> s[Len(s) - n + i]]
        /\ Len([i \in 1 .. n |-> s[Len(s) - n + i]]) = n
    BY <2>1, LastElements, Zenon
  <2>. QED
    BY <1>7, <2>2, Zenon
<1>. QED
  BY <1>3, <1>8

(* However often the ring has turned and whatever flows were selected, the *)
(* graph in the detail pane is of one flow: the last samples taken since   *)
(* it was selected, in order and half a second apart.                      *)
THEOREM RateGraphRight == TSpec => []RateGraphIsOneFlow
<1>1. TInit => TableInv /\ RateInv
  BY TableStarts, EmptyRingHolds DEF TInit, RateInv, SamplesAreApart, KeyIsSelected
<1>2. TableInv /\ [TNext]_tvars => TableInv'
  BY TableIsInductive
<1>3. TableInv /\ RateInv /\ [TNext]_tvars => RateInv'
  <2> SUFFICES ASSUME TableInv, RateInv, [TNext]_tvars PROVE RateInv'
    OBVIOUS
  <2>1. CASE Locate
    BY <2>1, LocateKeepsRate
  <2>2. CASE ClearCaptureView
    <3>1. /\ rateHistory' = EmptyRing /\ sampled' = <<>> /\ Len(<<>>) = 0
          /\ rateKey' = NoKey /\ lastSample' = lastSample /\ Holds(EmptyRing, <<>>)
      BY <2>2, EraseEmpties, EmptyRingHolds DEF ClearCaptureView, RateInv
    <3>. QED
      BY <3>1 DEF RateInv, SamplesAreApart, KeyIsSelected
  <2>3. CASE /\ UNCHANGED rate
             /\ \/ UNCHANGED <<now, selected>> /\ (step' = step \/ step = "draw")
                \/ step' \notin {"draw", "rows"}
    <3>1. UNCHANGED <<rateKey, rateHistory, lastSample, sampled>>
      BY <2>3 DEF rate
    <3>2. KeyIsSelected'
      BY <2>3, <3>1 DEF RateInv, KeyIsSelected
    <3>. QED
      BY <3>1, <3>2 DEF RateInv, SamplesAreApart
  <2>. QED
    BY <2>1, <2>2, <2>3 DEF TNext, tvars, rate, BeginRefresh, RefreshRow, EndRefresh,
      NoRefresh, DrawTable, TableHidden, ClickRow, ClearSelection, NoClick, TimePasses,
      PacketOf, FilterByPacket
<1>4. RateInv => RateGraphIsOneFlow
  <2> SUFFICES ASSUME RateInv PROVE RateGraphIsOneFlow
    OBVIOUS
  <2>1. PICK graph : graph = Linear(rateHistory)
    OBVIOUS
  <2>2. PICK n : n = Len(graph)
    OBVIOUS
  <2>3. /\ n = IF Len(sampled) < HistorySize THEN Len(sampled) ELSE HistorySize
        /\ graph = SubSeq(sampled, Len(sampled) - n + 1, Len(sampled))
    BY <2>1, <2>2, GraphIsLastSamples DEF RateInv
  <2>4. /\ sampled \in Seq(Samples) /\ Len(sampled) \in Nat /\ n \in Nat
        /\ n <= Len(sampled)
    <3>1. sampled \in Seq(Samples)
      BY DEF RateInv, Holds
    <3>2. Len(sampled) \in Nat /\ HistorySize \in Nat
      BY <3>1, LenProperties, TableAssumption
    <3>. QED
      BY <2>3, <3>1, <3>2
  <2>5. graph = [i \in 1 .. n |-> sampled[Len(sampled) - n + i]]
    <3>1. SubSeq(sampled, Len(sampled) - n + 1, Len(sampled))
            = [i \in 1 .. n |-> sampled[Len(sampled) - n + i]]
      BY <2>4, LastElements
    <3>. QED
      BY <2>3, <3>1
  <2>6. ASSUME NEW i \in 1 .. n
        PROVE  /\ graph[i].key = rateKey
               /\ i \in 2 .. n => graph[i].at - graph[i - 1].at >= Period
    <3> DEFINE j == Len(sampled) - n + i
    <3>1. j \in 1 .. Len(sampled) /\ j = Len(sampled) - n + i
      BY <2>4
    <3> HIDE DEF j
    <3>2. /\ sampled[j].key = rateKey
          /\ j > 1 => sampled[j].at - sampled[j - 1].at >= Period
      BY <3>1 DEF RateInv, SamplesAreApart
    <3>3. i \in 2 .. n =>
            i - 1 \in 1 .. n /\ j > 1 /\ Len(sampled) - n + (i - 1) = j - 1
      BY <2>4, <3>1
    <3>4. /\ graph[i] = sampled[j]
          /\ i - 1 \in 1 .. n => graph[i - 1] = sampled[Len(sampled) - n + (i - 1)]
      BY <2>5, <3>1
    <3>. QED
      BY <3>2, <3>3, <3>4
  <2>7. 2 .. n \subseteq 1 .. n
    BY <2>4
  <2>. QED
    BY <2>1, <2>2, <2>3, <2>6, <2>7 DEF RateInv, KeyIsSelected, RateGraphIsOneFlow
<1>. QED
  BY <1>1, <1>2, <1>3, <1>4, PTL DEF TSpec

---------------------------------------------------------------------------
(* Who has an endpoint now is remembered as of now.                        *)
OwnersAreKnown ==
  \A h \in Owned(sockets, procs) : h \in DOMAIN owners /\ owners[h] = clock

(* While the resolver's copy is fresh, whoever it gives an endpoint to is  *)
(* remembered to have had it when the copy was made, or later.             *)
CopyIsRemembered ==
  clock - lastRefresh <= RefreshPeriod =>
    \A e \in DOMAIN endpointToPid :
      \E h \in DOMAIN owners :
        h[1] = e /\ h[2] = endpointToPid[e] /\ owners[h] >= lastRefresh

(* Only running processes have sockets.                                    *)
SystemIsSound(socks, names) ==
  /\ names \in [Pids -> ProcNames \union {NoName}]
  /\ socks \in [Bindable -> Pids \union {NoPid}]
  /\ \A e \in Bindable : socks[e] # NoPid => names[socks[e]] # NoName

(* Every name in use, remembered or cached is one its identifier has had.  *)
NamesWereHad ==
  /\ Running(procs) \subseteq named
  /\ \A p \in DOMAIN pidToName : pidToName[p] # NoName => <<p, pidToName[p]>> \in named
  /\ \A h \in DOMAIN owners : <<h[2], h[3]>> \in named

(* The inductive invariant.                                                *)
ProcInv ==
  /\ clock \in Nat /\ lastRefresh \in Nat
  /\ \A h \in DOMAIN owners : owners[h] \in Nat /\ owners[h] <= clock
  /\ DOMAIN endpointToPid \subseteq Bindable
  /\ OwnersAreKnown /\ CopyIsRemembered
  /\ SystemIsSound(sockets, procs) /\ NamesWereHad

---------------------------------------------------------------------------
(* A copy made now gives every endpoint to who has it now.                 *)
LEMMA RefreshedIsOwned ==
  ASSUME NEW old, NEW e \in DOMAIN Refreshed(old)
  PROVE  /\ e \in Bindable /\ sockets[e] # NoPid /\ Refreshed(old)[e] = sockets[e]
         /\ <<e, Refreshed(old)[e], procs[sockets[e]]>> \in Owned(sockets, procs)
<1>1. DOMAIN Refreshed(old) = {x \in Bindable : sockets[x] # NoPid}
  BY DEF Refreshed
<1>2. e \in Bindable /\ sockets[e] # NoPid /\ Refreshed(old)[e] = sockets[e]
  BY <1>1 DEF Refreshed
<1>. QED
  BY <1>2 DEF Owned

(* Whoever has a socket runs under a name.                                 *)
LEMMA OwnersRun ==
  ASSUME NEW socks, NEW names, SystemIsSound(socks, names), NEW h \in Owned(socks, names)
  PROVE  <<h[2], h[3]>> \in Running(names)
<1>1. PICK e \in Bindable : socks[e] # NoPid /\ h = <<e, socks[e], names[socks[e]]>>
  BY DEF Owned
<1>2. socks[e] \in Pids /\ names[socks[e]] # NoName
  BY <1>1 DEF SystemIsSound
<1>. QED
  BY <1>1, <1>2 DEF Running

(* The system's own steps leave it sound.                                  *)
LEMMA SystemStaysSound ==
  ASSUME SystemIsSound(sockets, procs), NEW p \in Pids
  PROVE  /\ \A n \in ProcNames : Spawn(p, n) => SystemIsSound(sockets', procs')
         /\ \A e \in Bindable : Bind(e, p) => SystemIsSound(sockets', procs')
         /\ Exit(p) => SystemIsSound(sockets', procs')
<1>1. ASSUME NEW n \in ProcNames, Spawn(p, n) PROVE SystemIsSound(sockets', procs')
  <2>1. n # NoName /\ sockets' = sockets /\ procs' = [procs EXCEPT ![p] = n]
    BY <1>1, ProcAssumption DEF Spawn, SystemStep
  <2>. QED
    BY <2>1 DEF SystemIsSound
<1>2. ASSUME NEW e \in Bindable, Bind(e, p) PROVE SystemIsSound(sockets', procs')
  <2>1. procs[p] # NoName /\ procs' = procs /\ sockets' = [sockets EXCEPT ![e] = p]
    BY <1>2 DEF Bind, SystemStep
  <2>. QED
    BY <2>1 DEF SystemIsSound
<1>3. ASSUME Exit(p) PROVE SystemIsSound(sockets', procs')
  <2>1. /\ procs' = [procs EXCEPT ![p] = NoName]
        /\ sockets' = [e \in Bindable |-> IF sockets[e] = p THEN NoPid ELSE sockets[e]]
    BY <1>3 DEF Exit, SystemStep
  <2>. QED
    BY <2>1 DEF SystemIsSound
<1>. QED
  BY <1>1, <1>2, <1>3

(* When the system changes or time passes, the memory follows.             *)
LEMMA MemoryFollows ==
  ASSUME ProcInv, NEW socks, NEW names, SystemIsSound(socks, names),
         NEW t \in Nat, t >= clock,
         clock' = t, sockets' = socks, procs' = names,
         owners' = Remembered(socks, names, t), named' = named \union Running(names),
         UNCHANGED resolver
  PROVE  ProcInv'
<1>1. RefreshPeriod \in Nat
  BY ProcAssumption
<1>2. UNCHANGED <<endpointToPid, pidToName, lastRefresh>>
  BY DEF resolver
<1>3. OwnersAreKnown'
  <2>1. ASSUME NEW h \in Owned(socks, names)
        PROVE  h \in DOMAIN owners' /\ owners'[h] = t
    BY <2>1 DEF Remembered
  <2>2. Owned(sockets', procs') = Owned(socks, names)
    BY DEF Owned
  <2>. QED
    BY <2>1, <2>2 DEF OwnersAreKnown, Owned
<1>4. CopyIsRemembered'
  <2>1. ASSUME t - lastRefresh <= RefreshPeriod, NEW e \in DOMAIN endpointToPid
        PROVE  \E h \in DOMAIN owners' :
                 h[1] = e /\ h[2] = endpointToPid[e] /\ owners'[h] >= lastRefresh
    <3>1. clock - lastRefresh <= RefreshPeriod
      BY <1>1, <2>1 DEF ProcInv
    <3>2. PICK h \in DOMAIN owners :
            h[1] = e /\ h[2] = endpointToPid[e] /\ owners[h] >= lastRefresh
      BY <3>1 DEF ProcInv, CopyIsRemembered
    <3>3. t - owners[h] <= RefreshPeriod /\ owners[h] <= t
      BY <1>1, <2>1, <3>2 DEF ProcInv
    <3>4. h \in DOMAIN owners' /\ owners'[h] \in {t, owners[h]}
      BY <3>2, <3>3 DEF Remembered
    <3>. QED
      BY <3>2, <3>3, <3>4 DEF ProcInv
  <2>. QED
    BY <1>2, <2>1 DEF CopyIsRemembered
<1>5. \A h \in DOMAIN owners' : owners'[h] \in Nat /\ owners'[h] <= t
  BY DEF Remembered, ProcInv
<1>6. NamesWereHad'
  <2>1. Running(procs') = Running(names)
    BY DEF Running
  <2>2. ASSUME NEW h \in DOMAIN owners' PROVE <<h[2], h[3]>> \in named'
    <3>1. h \in Owned(socks, names) \/ h \in DOMAIN owners
      BY <2>2 DEF Remembered
    <3>. QED
      BY <3>1, OwnersRun DEF ProcInv, NamesWereHad
  <2>. QED
    BY <1>2, <2>1, <2>2 DEF ProcInv, NamesWereHad, Running
<1>. QED
  BY <1>2, <1>3, <1>4, <1>5, <1>6 DEF ProcInv

(* An answer with a name is that of an entry of the table that may have    *)
(* the packets of an endpoint of this host.                                *)
LEMMA AnswersAreEntries ==
  ASSUME NEW table, NEW names, NEW pkt, Resolved(table, names, pkt).name # NoName
  PROVE  LET a == Resolved(table, names, pkt)
         IN  /\ a.of.ip = Local
             /\ a.pid \in DOMAIN names /\ a.name = names[a.pid]
             /\ \E at \in DOMAIN table :
                  a.pid = table[at] /\ \E i \in 1 .. 3 : at = Candidates(a.of)[i]
<1>1. ASSUME NEW e, TryLookup(table, names, e).name # NoName
      PROVE  LET a == TryLookup(table, names, e)
             IN  /\ a.of.ip = Local
                 /\ a.pid \in DOMAIN names /\ a.name = names[a.pid]
                 /\ \E at \in DOMAIN table :
                      a.pid = table[at] /\ \E i \in 1 .. 3 : at = Candidates(a.of)[i]
  <2> DEFINE at == Entry(table, e)
  <2>1. /\ at # NoPid /\ e.ip = Local /\ table[at] \in DOMAIN names
        /\ TryLookup(table, names, e) = [name |-> names[table[at]], of |-> e, pid |-> table[at]]
    BY <1>1 DEF TryLookup, NoAnswer
  <2>2. at \in DOMAIN table /\ \E i \in 1 .. 3 : at = Candidates(e)[i]
    <3> DEFINE found == {i \in 1 .. 3 : Candidates(e)[i] \in DOMAIN table}
    <3>1. found # {} /\ at = Candidates(e)[CHOOSE i \in found : \A j \in found : i <= j]
      BY <2>1 DEF Entry
    <3>2. \E i \in found : \A j \in found : i <= j
      <4>1. CASE 1 \in found
        BY <4>1
      <4>2. CASE 1 \notin found /\ 2 \in found
        BY <4>2
      <4>3. CASE 1 \notin found /\ 2 \notin found
        BY <3>1, <4>3
      <4>. QED
        BY <4>1, <4>2, <4>3
    <3>. QED
      BY <3>1, <3>2
  <2> HIDE DEF at
  <2>. QED
    BY <2>1, <2>2
<1>2. \E e : /\ Resolved(table, names, pkt) = TryLookup(table, names, e)
             /\ TryLookup(table, names, e).name # NoName
  BY DEF Resolved, NoAnswer
<1>. QED
  BY <1>1, <1>2

(* A lookup that refreshes copies what is remembered as of now.            *)
LEMMA RefreshIsRemembered ==
  ASSUME ProcInv, NEW old, NEW e \in DOMAIN Refreshed(old)
  PROVE  \E h \in DOMAIN owners :
           h[1] = e /\ h[2] = Refreshed(old)[e] /\ owners[h] = clock
<1>1. PICK h : h = <<e, Refreshed(old)[e], procs[sockets[e]]>>
  OBVIOUS
<1>2. h \in Owned(sockets, procs)
  BY <1>1, RefreshedIsOwned
<1>. QED
  BY <1>1, <1>2 DEF ProcInv, OwnersAreKnown

LEMMA LookupRefreshingKeeps ==
  ASSUME ProcInv, NEW pkt, LookupRefreshing(pkt)
  PROVE  ProcInv'
<1>1. /\ endpointToPid' = Refreshed(endpointToPid) /\ lastRefresh' = clock
      /\ pidToName' \in NamesKnown(Refreshed(endpointToPid))
      /\ UNCHANGED <<clock, sockets, procs, owners, named>>
  BY DEF LookupRefreshing, system, history
<1>2. DOMAIN endpointToPid' \subseteq Bindable
  BY <1>1, RefreshedIsOwned
<1>3. CopyIsRemembered'
  <2>1. ASSUME NEW e \in DOMAIN endpointToPid'
        PROVE  \E h \in DOMAIN owners' :
                 h[1] = e /\ h[2] = endpointToPid'[e] /\ owners'[h] >= lastRefresh'
    <3>1. PICK h \in DOMAIN owners :
            h[1] = e /\ h[2] = endpointToPid'[e] /\ owners[h] = clock
      BY <1>1, <2>1, RefreshIsRemembered
    <3>. QED
      BY <1>1, <3>1 DEF ProcInv
  <2>. QED
    BY <2>1 DEF CopyIsRemembered
<1>4. OwnersAreKnown'
  BY <1>1 DEF ProcInv, OwnersAreKnown, Owned
<1>5. ASSUME NEW p \in DOMAIN pidToName', pidToName'[p] # NoName
      PROVE  <<p, pidToName'[p]>> \in named
  <2>1. PICK table : table = Refreshed(endpointToPid)
    OBVIOUS
  <2>2. /\ DOMAIN pidToName' = DOMAIN pidToName \union {table[e] : e \in DOMAIN table}
        /\ IF p \in DOMAIN pidToName THEN pidToName'[p] = pidToName[p]
           ELSE pidToName'[p] \in ReadProcessName(p)
    BY <1>1, <1>5, <2>1 DEF NamesKnown
  <2>3. CASE p \in DOMAIN pidToName
    BY <1>5, <2>2, <2>3 DEF ProcInv, NamesWereHad
  <2>4. CASE p \notin DOMAIN pidToName
    <3>1. PICK e \in DOMAIN table : p = table[e]
      BY <1>5, <2>2, <2>4
    <3>2. p \in Pids
      BY <2>1, <3>1, RefreshedIsOwned DEF ProcInv, SystemIsSound
    <3>3. pidToName'[p] = procs[p] /\ procs[p] # NoName
      BY <1>5, <2>2, <2>4 DEF ReadProcessName
    <3>. QED
      BY <3>2, <3>3 DEF ProcInv, NamesWereHad, Running
  <2>. QED
    BY <2>3, <2>4
<1>6. NamesWereHad'
  BY <1>1, <1>5 DEF ProcInv, NamesWereHad, Running
<1>7. SystemIsSound(sockets', procs')
  BY <1>1 DEF ProcInv
<1>. QED
  BY <1>1, <1>2, <1>3, <1>4, <1>6, <1>7 DEF ProcInv

---------------------------------------------------------------------------
(* What a lookup may say when its entry's process is remembered.           *)
LEMMA RememberedIsRecent ==
  ASSUME NEW a, NEW h \in DOMAIN owners, NEW at, NEW i \in 1 .. 3,
         at = Candidates(a.of)[i], h[1] = at, h[2] = a.pid,
         <<h[2], h[3]>> \in named, <<a.pid, a.name>> \in named
  PROVE  HadEndpoint(h, a.of) /\ (h[3] = a.name \/ Reused(a.pid))
<1>1. HadEndpoint(h, a.of)
  BY DEF HadEndpoint
<1>2. CASE h[3] # a.name
  <2> DEFINE one == <<h[2], h[3]>>
             two == <<a.pid, a.name>>
  <2>1. one[1] = a.pid /\ two[1] = a.pid /\ one[2] = h[3] /\ two[2] = a.name
    OBVIOUS
  <2>2. one # two /\ one \in named /\ two \in named
    BY <1>2, <2>1
  <2> HIDE DEF one, two
  <2>. QED
    BY <1>1, <2>1, <2>2 DEF Reused
<1>. QED
  BY <1>1, <1>2

(* Whatever the system does between lookups, a lookup answers only for an  *)
(* endpoint of this host, with a process that had it, or its port on every *)
(* address, for the packet's protocol and within the last refresh period,  *)
(* and with that process's name unless the identifier was used again.      *)
THEOREM OwnerRecent == PSpec => OwnerIsRecent
<1>1. PInit => ProcInv
  <2> SUFFICES ASSUME PInit PROVE ProcInv
    OBVIOUS
  <2>1. /\ clock = 0 /\ lastRefresh = 0 /\ endpointToPid = Refreshed(<<>>)
        /\ owners = [h \in Owned(sockets, procs) |-> 0]
        /\ pidToName = [p \in {endpointToPid[e] : e \in DOMAIN endpointToPid} |-> procs[p]]
        /\ named = Running(procs)
    BY DEF PInit
  <2>2. OwnersAreKnown /\ \A h \in DOMAIN owners : owners[h] = 0
    BY <2>1 DEF OwnersAreKnown
  <2>3. ASSUME NEW e \in DOMAIN endpointToPid
        PROVE  e \in Bindable
               /\ \E h \in DOMAIN owners :
                    h[1] = e /\ h[2] = endpointToPid[e] /\ owners[h] >= lastRefresh
    <3>1. PICK h : h = <<e, endpointToPid[e], procs[sockets[e]]>>
      OBVIOUS
    <3>2. e \in Bindable /\ h \in Owned(sockets, procs)
      BY <2>1, <3>1, RefreshedIsOwned
    <3>. QED
      BY <2>1, <3>1, <3>2
  <2>4. SystemIsSound(sockets, procs)
    BY ProcAssumption DEF PInit, SystemIsSound
  <2>5. ASSUME NEW p \in DOMAIN pidToName, pidToName[p] # NoName
        PROVE  <<p, pidToName[p]>> \in named
    <3>1. PICK e \in DOMAIN endpointToPid : p = endpointToPid[e]
      BY <2>1
    <3>2. p \in Pids
      BY <2>1, <2>4, <3>1, RefreshedIsOwned DEF SystemIsSound
    <3>. QED
      BY <2>1, <2>5, <3>2 DEF Running
  <2>6. NamesWereHad
    BY <2>1, <2>4, <2>5, OwnersRun DEF NamesWereHad
  <2>. QED
    BY <2>1, <2>2, <2>3, <2>4, <2>6 DEF ProcInv, CopyIsRemembered
<1>2. ProcInv /\ [PNext]_pvars => ProcInv'
  <2> SUFFICES ASSUME ProcInv, [PNext]_pvars PROVE ProcInv'
    OBVIOUS
  <2>1. ASSUME NEW socks, NEW names, SystemStep(socks, names), SystemIsSound(sockets', procs')
        PROVE  ProcInv'
    BY <2>1, MemoryFollows DEF SystemStep, ProcInv
  <2>2. CASE Tick
    <3>1. clock + 1 \in Nat /\ clock + 1 >= clock
      BY DEF ProcInv
    <3>2. SystemIsSound(sockets, procs) /\ named = named \union Running(procs)
      BY DEF ProcInv, NamesWereHad
    <3>. QED
      BY <2>2, <3>1, <3>2, MemoryFollows DEF Tick, system
  <2>3. ASSUME NEW pkt \in Packets, LookupRefreshing(pkt) PROVE ProcInv'
    BY <2>3, LookupRefreshingKeeps
  <2>4. CASE UNCHANGED <<clock, system, resolver, history>>
    BY <2>4 DEF system, resolver, history, ProcInv, OwnersAreKnown, CopyIsRemembered, Owned,
      NamesWereHad, Running
  <2>5. ASSUME NEW p \in Pids, NEW n \in ProcNames, Spawn(p, n) PROVE ProcInv'
    BY <2>1, <2>5, SystemStaysSound DEF Spawn, ProcInv
  <2>6. ASSUME NEW p \in Pids, NEW e \in Bindable, Bind(e, p) PROVE ProcInv'
    BY <2>1, <2>6, SystemStaysSound DEF Bind, ProcInv
  <2>7. ASSUME NEW p \in Pids, Exit(p) PROVE ProcInv'
    BY <2>1, <2>7, SystemStaysSound DEF Exit, ProcInv
  <2>. QED
    BY <2>2, <2>3, <2>4, <2>5, <2>6, <2>7 DEF PNext, LookupCached, LookupNothing, pvars
<1>3. ProcInv /\ [PNext]_pvars =>
        [answer'.name # NoName /\ answer' # answer =>
           /\ answer'.of.ip = Local
           /\ <<answer'.pid, answer'.name>> \in named
           /\ \E h \in DOMAIN owners :
                /\ HadEndpoint(h, answer'.of) /\ h[2] = answer'.pid
                /\ h[3] = answer'.name \/ Reused(answer'.pid)]_pvars
  <2> SUFFICES ASSUME ProcInv, PNext, answer'.name # NoName, answer' # answer
               PROVE  /\ answer'.of.ip = Local
                      /\ <<answer'.pid, answer'.name>> \in named
                      /\ \E h \in DOMAIN owners :
                           /\ HadEndpoint(h, answer'.of) /\ h[2] = answer'.pid
                           /\ h[3] = answer'.name \/ Reused(answer'.pid)
    OBVIOUS
  <2> PICK a : a = answer'
    OBVIOUS
  <2>1. PICK pkt \in Packets : LookupRefreshing(pkt) \/ LookupCached(pkt)
    <3>1. ~(\E pkt \in Packets : LookupNothing(pkt)) /\ answer' # answer
      BY DEF LookupNothing, NoAnswer
    <3>. QED
      BY <3>1 DEF PNext, Spawn, Bind, Exit, SystemStep, Tick
  <2>2. /\ a.of.ip = Local
        /\ a.pid \in DOMAIN pidToName' /\ a.name = pidToName'[a.pid]
        /\ \E at \in DOMAIN endpointToPid' :
             a.pid = endpointToPid'[at] /\ \E i \in 1 .. 3 : at = Candidates(a.of)[i]
    <3>1. a = Resolved(endpointToPid', pidToName', pkt)
      BY <2>1 DEF LookupRefreshing, LookupCached, resolver
    <3>2. a.name # NoName
      OBVIOUS
    <3>. QED
      BY <3>1, <3>2, AnswersAreEntries
  <2>3. PICK at \in DOMAIN endpointToPid', i \in 1 .. 3 :
          a.pid = endpointToPid'[at] /\ at = Candidates(a.of)[i]
    BY <2>2
  <2>4. \E h \in DOMAIN owners : h[1] = at /\ h[2] = a.pid
    <3>1. CASE LookupRefreshing(pkt)
      <4>1. endpointToPid' = Refreshed(endpointToPid)
        BY <3>1 DEF LookupRefreshing
      <4>. QED
        BY <2>3, <4>1, RefreshIsRemembered
    <3>2. CASE LookupCached(pkt)
      <4>1. endpointToPid' = endpointToPid /\ ~(clock - lastRefresh > RefreshPeriod)
        BY <3>2 DEF LookupCached, TooOld, resolver
      <4>2. clock - lastRefresh <= RefreshPeriod
        BY <4>1, ProcAssumption DEF ProcInv
      <4>. QED
        BY <2>3, <4>1, <4>2 DEF ProcInv, CopyIsRemembered
    <3>. QED
      BY <2>1, <3>1, <3>2
  <2>5. PICK h \in DOMAIN owners : h[1] = at /\ h[2] = a.pid
    BY <2>4
  <2>6. <<a.pid, a.name>> \in named
    <3>1. named' = named
      BY <2>1 DEF LookupRefreshing, LookupCached, history
    <3>2. ProcInv'
      BY <1>2
    <3>. QED
      BY <2>2, <3>1, <3>2 DEF ProcInv, NamesWereHad
  <2>7. <<h[2], h[3]>> \in named
    BY DEF ProcInv, NamesWereHad
  <2>8. HadEndpoint(h, a.of) /\ (h[3] = a.name \/ Reused(a.pid))
    BY <2>3, <2>5, <2>6, <2>7, RememberedIsRecent
  <2>. QED
    BY <2>2, <2>5, <2>6, <2>8
<1>. QED
  BY <1>1, <1>2, <1>3, PTL DEF PSpec, OwnerIsRecent

---------------------------------------------------------------------------
(* The functions of the model.                                             *)
LEMMA JoinedProperties ==
  ASSUME NEW S, NEW texts \in Seq(Seq(S))
  PROVE  /\ Joined(texts, 0) = <<>>
         /\ \A i \in 1 .. Len(texts) : Joined(texts, i) = Joined(texts, i - 1) \o texts[i]
         /\ \A i \in 0 .. Len(texts) : Joined(texts, i) \in Seq(S)
<1> DEFINE n == Len(texts)
           V == Seq(S)
           Rule(h) == h = [i \in 0 .. n |-> IF i = 0 THEN <<>> ELSE h[i - 1] \o texts[i]]
           to == CHOOSE h : Rule(h)
           move == [i \in 1 .. n |-> [v \in V |-> v \o texts[i]]]
<1>1. \A i : Joined(texts, i) = to[i]
  BY DEF Joined
<1>2. n \in Nat /\ <<>> \in V /\ move \in [1 .. n -> [V -> V]]
  BY ConcatProperties, EmptySeq
<1>3. \A v \in V, i \in 1 .. n : move[i][v] = v \o texts[i]
  OBVIOUS
<1> HIDE DEF n, V, move
<1>4. PICK h \in [0 .. n -> V] : StepByStep(h, n, <<>>, move)
  BY <1>2, StepsAreThere
<1>5. ASSUME NEW i \in 1 .. n PROVE i # 0 /\ i \in 0 .. n /\ h[i] = h[i - 1] \o texts[i]
  <2>1. h[i - 1] \in V /\ i # 0 /\ i \in 0 .. n
    BY <1>2
  <2>. QED
    BY <1>3, <1>4, <2>1 DEF StepByStep
<1>6. h[0] = <<>>
  BY <1>4 DEF StepByStep
<1>7. \A i \in 0 .. n : h[i] = IF i = 0 THEN <<>> ELSE h[i - 1] \o texts[i]
  <2>1. \A i \in 0 .. n : i # 0 => i \in 1 .. n
    BY <1>2
  <2>. QED
    BY <1>5, <1>6, <2>1
<1>8. Rule(h)
  BY <1>7
<1>9. Rule(to)
  BY <1>8
<1> HIDE DEF to
<1>10. 0 \in 0 .. n /\ \A i \in 1 .. n : i \in 0 .. n /\ i # 0
  BY <1>2
<1>11. to[0] = <<>> /\ \A i \in 1 .. n : to[i] = to[i - 1] \o texts[i]
  BY <1>9, <1>10
<1> DEFINE T == {i \in 0 .. n : to[i] \in V}
<1>12. 0 \in T
  BY <1>2, <1>11
<1>13. ASSUME NEW i \in 0 .. n - 1, i \in T PROVE i + 1 \in T
  <2>1. i + 1 \in 1 .. n /\ i + 1 \in 0 .. n /\ (i + 1) - 1 = i
    BY <1>2
  <2>2. move[i + 1][to[i]] \in V
    BY <1>2, <1>13, <2>1
  <2>3. to[i + 1] = to[i] \o texts[i + 1]
    BY <1>11, <2>1
  <2>. QED
    BY <1>3, <1>13, <2>1, <2>2, <2>3
<1> HIDE DEF T
<1>14. \A i \in 0 .. n : i \in T
  BY ONLY <1>2, <1>12, <1>13, Induction
<1>15. \A i \in 0 .. n : to[i] \in V
  BY <1>14 DEF T
<1>. QED
  BY <1>1, <1>11, <1>15 DEF n, V

(* The states of the readers.                                              *)
CsvStates ==
  [where : {"start", "within", "quoted", "behind", "wrong"}, out : Seq(Int)]

(* A reader of CSV keeps to its states.                                    *)
LEMMA CsvStepStates ==
  /\ CsvStates # {} /\ CsvState("start", <<>>) \in CsvStates
  /\ \A r \in CsvStates, b \in Byte : CsvStep(r, b) \in CsvStates
<1>1. CsvState("start", <<>>) \in CsvStates
  BY DEF CsvState, CsvStates
<1>2. ASSUME NEW r \in CsvStates, NEW b \in Byte PROVE CsvStep(r, b) \in CsvStates
  <2>1. b \in Int /\ -b \in Int /\ r.out \in Seq(Int)
    BY DEF Byte, CsvStates
  <2>2. Append(r.out, b) \in Seq(Int) /\ Append(r.out, -b) \in Seq(Int)
    BY <2>1
  <2>3. \A w \in {"start", "within", "quoted", "behind", "wrong"}, o \in Seq(Int) :
          CsvState(w, o) \in CsvStates
    BY DEF CsvState, CsvStates
  <2> QED
    BY <2>1, <2>2, <2>3 DEF CsvStep
<1> QED
  BY <1>1, <1>2

(* Where it is after each byte.                                            *)
LEMMA CsvReader ==
  ASSUME NEW s \in Seq(Byte)
  PROVE  /\ CsvAfter(s)[0] = CsvState("start", <<>>)
         /\ \A i \in 1 .. Len(s) : CsvAfter(s)[i] = CsvStep(CsvAfter(s)[i - 1], s[i])
<1> DEFINE n == Len(s)
           V == CsvStates
           start == CsvState("start", <<>>)
           Rule(h) == h = [i \in 0 .. n |-> IF i = 0 THEN start ELSE CsvStep(h[i - 1], s[i])]
           after == CHOOSE h : Rule(h)
           move == [i \in 1 .. n |-> [v \in V |-> CsvStep(v, s[i])]]
<1>1. CsvAfter(s) = after
  BY DEF CsvAfter
<1>2. n \in Nat /\ \A i \in 1 .. n : s[i] \in Byte
  BY ElementOfSeq
<1>3. start \in V /\ \A v \in V, i \in 1 .. n : CsvStep(v, s[i]) \in V
  BY <1>2, CsvStepStates
<1> HIDE DEF n, V, start
<1>4. move \in [1 .. n -> [V -> V]] /\ \A v \in V, i \in 1 .. n : move[i][v] = CsvStep(v, s[i])
  BY <1>3
<1> HIDE DEF move
<1>5. PICK h \in [0 .. n -> V] : StepByStep(h, n, start, move)
  BY <1>2, <1>3, <1>4, StepsAreThere
<1>6. ASSUME NEW i \in 1 .. n PROVE h[i] = CsvStep(h[i - 1], s[i])
  <2>1. h[i - 1] \in V
    BY <1>2
  <2>. QED
    BY <1>4, <1>5, <2>1 DEF StepByStep
<1>7. \A i \in 0 .. n : h[i] = IF i = 0 THEN start ELSE CsvStep(h[i - 1], s[i])
  <2>1. \A i \in 0 .. n : i # 0 => i \in 1 .. n
    BY <1>2
  <2>2. h[0] = start
    BY <1>5 DEF StepByStep
  <2>. QED
    BY <1>6, <2>1, <2>2
<1>8. Rule(h)
  BY <1>7
<1>9. Rule(after)
  BY <1>8
<1> HIDE DEF after
<1>10. 0 \in 0 .. n /\ \A i \in 1 .. n : i \in 0 .. n /\ i # 0
  BY <1>2
<1>11. after[0] = start /\ \A i \in 1 .. n : after[i] = CsvStep(after[i - 1], s[i])
  BY <1>9, <1>10
<1>. QED
  BY <1>1, <1>11 DEF n, start

JsonStates ==
  [where : {"outside", "inside", "escaped", "digits", "wrong"}, left : 0 .. 4, value : Int,
   out : Seq(Int)]

(* So does one of JSON.                                                    *)
LEMMA JsonStepStates ==
  /\ JsonStates # {} /\ JsonState("outside", 0, 0, <<>>) \in JsonStates
  /\ \A r \in JsonStates, b \in Byte : JsonStep(r, b) \in JsonStates
<1>1. JsonState("outside", 0, 0, <<>>) \in JsonStates
  BY DEF JsonState, JsonStates
<1>2. ASSUME NEW r \in JsonStates, NEW b \in Byte PROVE JsonStep(r, b) \in JsonStates
  <2> DEFINE value == 16 * r.value + Digit(b)
             escape == (CHOOSE e \in Escapes : e[1] = b)[2]
  <2>1. b \in Int /\ -b \in Int /\ r.out \in Seq(Int) /\ value \in Int /\ r.left \in 0 .. 4
    BY DEF Byte, JsonStates, Digit
  <2>2. (\E e \in Escapes : e[1] = b) => escape \in Int
    BY DEF Escapes
  <2> HIDE DEF value, escape
  <2>3. /\ Append(r.out, b) \in Seq(Int) /\ Append(r.out, -b) \in Seq(Int)
        /\ Append(r.out, value) \in Seq(Int)
        /\ (\E e \in Escapes : e[1] = b) => Append(r.out, escape) \in Seq(Int)
    BY <2>1, <2>2
  <2>4. \A w \in {"outside", "inside", "escaped", "digits", "wrong"}, o \in Seq(Int),
           l \in 0 .. 4, v \in Int : JsonState(w, l, v, o) \in JsonStates
    BY DEF JsonState, JsonStates
  <2>5. r.left > 1 => r.left - 1 \in 0 .. 4
    BY <2>1
  <2> DEFINE known == \E e \in Escapes : e[1] = b
  <2>6. /\ 0 \in 0 .. 4 /\ 4 \in 0 .. 4 /\ 0 \in Int
        /\ known => Append(r.out, escape) \in Seq(Int)
    BY <2>3
  <2> HIDE DEF JsonStates, known
  <2>9. /\ \A w \in {"outside", "inside"} : /\ JsonState(w, 0, 0, Append(r.out, b)) \in JsonStates
                                           /\ JsonState(w, 0, 0, Append(r.out, -b)) \in JsonStates
                                           /\ JsonState(w, 0, 0, Append(r.out, value)) \in JsonStates
        /\ JsonState("wrong", 0, 0, r.out) \in JsonStates
        /\ JsonState("escaped", 0, 0, r.out) \in JsonStates
        /\ JsonState("digits", 4, 0, r.out) \in JsonStates
    BY <2>1, <2>3, <2>4, <2>6
  <2>10. r.left > 1 => JsonState("digits", r.left - 1, value, r.out) \in JsonStates
    BY <2>1, <2>4, <2>5
  <2>11. known => JsonState("inside", 0, 0, Append(r.out, escape)) \in JsonStates
    BY <2>4, <2>6
  <2>7. CASE r.where = "escaped"
    BY <2>7, <2>9, <2>11 DEF JsonStep, escape, known
  <2>8. CASE r.where # "escaped"
    BY <2>8, <2>9, <2>10 DEF JsonStep, value
  <2> QED
    BY <2>7, <2>8
<1> QED
  BY <1>1, <1>2

(* Where that is after each byte.                                          *)
LEMMA JsonReader ==
  ASSUME NEW s \in Seq(Byte)
  PROVE  /\ JsonAfter(s)[0] = JsonState("outside", 0, 0, <<>>)
         /\ \A i \in 1 .. Len(s) : JsonAfter(s)[i] = JsonStep(JsonAfter(s)[i - 1], s[i])
<1> DEFINE n == Len(s)
           V == JsonStates
           start == JsonState("outside", 0, 0, <<>>)
           Rule(h) == h = [i \in 0 .. n |-> IF i = 0 THEN start ELSE JsonStep(h[i - 1], s[i])]
           after == CHOOSE h : Rule(h)
           move == [i \in 1 .. n |-> [v \in V |-> JsonStep(v, s[i])]]
<1>1. JsonAfter(s) = after
  BY DEF JsonAfter
<1>2. n \in Nat /\ \A i \in 1 .. n : s[i] \in Byte
  BY ElementOfSeq
<1>3. start \in V /\ \A v \in V, i \in 1 .. n : JsonStep(v, s[i]) \in V
  BY <1>2, JsonStepStates
<1> HIDE DEF n, V, start
<1>4. move \in [1 .. n -> [V -> V]] /\ \A v \in V, i \in 1 .. n : move[i][v] = JsonStep(v, s[i])
  BY <1>3
<1> HIDE DEF move
<1>5. PICK h \in [0 .. n -> V] : StepByStep(h, n, start, move)
  BY <1>2, <1>3, <1>4, StepsAreThere
<1>6. ASSUME NEW i \in 1 .. n PROVE h[i] = JsonStep(h[i - 1], s[i])
  <2>1. h[i - 1] \in V
    BY <1>2
  <2>. QED
    BY <1>4, <1>5, <2>1 DEF StepByStep
<1>7. \A i \in 0 .. n : h[i] = IF i = 0 THEN start ELSE JsonStep(h[i - 1], s[i])
  <2>1. \A i \in 0 .. n : i # 0 => i \in 1 .. n
    BY <1>2
  <2>2. h[0] = start
    BY <1>5 DEF StepByStep
  <2>. QED
    BY <1>6, <2>1, <2>2
<1>8. Rule(h)
  BY <1>7
<1>9. Rule(after)
  BY <1>8
<1> HIDE DEF after
<1>10. 0 \in 0 .. n /\ \A i \in 1 .. n : i \in 0 .. n /\ i # 0
  BY <1>2
<1>11. after[0] = start /\ \A i \in 1 .. n : after[i] = JsonStep(after[i - 1], s[i])
  BY <1>9, <1>10
<1>. QED
  BY <1>1, <1>11 DEF n, start

---------------------------------------------------------------------------
(* What the code accepts is what the standard's table has.                 *)
LEMMA FirstBytes ==
  ASSUME NEW b \in 128 .. 255
  PROVE  /\ b \div 32 = 6  <=> b \in 192 .. 223
         /\ b \div 16 = 14 <=> b \in 224 .. 239
         /\ b \div 8 = 30  <=> b \in 240 .. 247
<1>1. b \div 32 = 6 <=> 192 <= b /\ b < 224
  BY QuotientIs
<1>2. b \div 16 = 14 <=> 224 <= b /\ b < 240
  BY QuotientIs
<1>3. b \div 8 = 30 <=> 240 <= b /\ b < 248
  BY QuotientIs
<1> QED
  BY <1>1, <1>2, <1>3

(* The bytes of a sequence that begins with b.                             *)
LEMMA LengthIs ==
  ASSUME NEW b \in 128 .. 255
  PROVE  LengthOf(b) = IF b \in 192 .. 223 THEN 2 ELSE IF b \in 224 .. 239 THEN 3
                       ELSE IF b \in 240 .. 247 THEN 4 ELSE 0
<1>1. /\ b \div 32 = 6  <=> b \in 192 .. 223
      /\ b \div 16 = 14 <=> b \in 224 .. 239
      /\ b \div 8 = 30  <=> b \in 240 .. 247
  BY FirstBytes
<1>2. CASE b \in 192 .. 223
  <2>1. b \div 32 = 6 /\ b \div 16 # 14 /\ b \div 8 # 30
    BY <1>1, <1>2
  <2> QED
    BY <1>2, <2>1 DEF LengthOf
<1>3. CASE b \in 224 .. 239
  <2>1. b \div 32 # 6 /\ b \div 16 = 14 /\ b \div 8 # 30 /\ b \notin 192 .. 223
    BY <1>1, <1>3
  <2> QED
    BY <1>3, <2>1 DEF LengthOf
<1>4. CASE b \in 240 .. 247
  <2>1. b \div 32 # 6 /\ b \div 16 # 14 /\ b \div 8 = 30 /\ b \notin 192 .. 223
        /\ b \notin 224 .. 239
    BY <1>1, <1>4
  <2> QED
    BY <1>4, <2>1 DEF LengthOf
<1>5. CASE b \notin 192 .. 247
  <2>1. b \div 32 # 6 /\ b \div 16 # 14 /\ b \div 8 # 30 /\ b \notin 192 .. 223
        /\ b \notin 224 .. 239 /\ b \notin 240 .. 247
    BY <1>1, <1>5
  <2> QED
    BY <2>1 DEF LengthOf
<1> QED
  BY <1>2, <1>3, <1>4, <1>5

(* The row of the table that the bytes from the i-th on are of.            *)
OfRow(s, i, u) ==
  /\ i + u.n - 1 <= Len(s) /\ s[i] \in u.first /\ s[i + 1] \in u.second
  /\ \A k \in 2 .. u.n - 1 : s[i + k] \in 128 .. 191

(* The elements of a text are bytes, from the i-th on too.                 *)
LEMMA Elements ==
  ASSUME NEW s \in Seq(Byte), NEW i \in 1 .. Len(s)
  PROVE  /\ Len(s) \in Nat /\ s[i] \in 0 .. 255
         /\ \A k \in Nat : i + k <= Len(s) => s[i + k] \in 0 .. 255
<1>1. Len(s) \in Nat /\ \A j \in 1 .. Len(s) : s[j] \in 0 .. 255
  <2>1. \A j \in 1 .. Len(s) : s[j] \in Byte
    BY ElementOfSeq
  <2> QED
    BY <2>1 DEF Byte
<1>2. ASSUME NEW k \in Nat, i + k <= Len(s) PROVE i + k \in 1 .. Len(s)
  BY <1>1, <1>2
<1> QED
  BY <1>1, <1>2

(* What a byte of 10 and six more bits is.                                 *)
LEMMA Continues == \A x \in 0 .. 255 : Continuation(x) <=> x \in 128 .. 191
<1> TAKE x \in 0 .. 255
<1>1. x \div 64 = 2 <=> 128 <= x /\ x < 192
  BY QuotientIs
<1> QED
  BY <1>1 DEF Continuation

(* The bits that the bytes of a character carry.                           *)
LEMMA LowOfOther == \A x \in 128 .. 191 : x % 64 = x - 128
  BY QuotientIs

LEMMA LowOfTwo == \A b \in 192 .. 223 : b % 32 = b - 192
  BY QuotientIs

LEMMA LowOfThree == \A b \in 224 .. 239 : b % 16 = b - 224
  BY QuotientIs

LEMMA LowOfFour == \A b \in 240 .. 247 : b % 8 = b - 240
  BY QuotientIs

(* Bytes are what follows the i-th.                                        *)
BytesFrom(s, i) ==
  /\ Len(s) \in Nat /\ i \in 1 .. Len(s)
  /\ \A k \in Nat : i + k <= Len(s) => s[i + k] \in 0 .. 255

(* The bytes that begin two, three and four.                               *)
FirstOf2 == 192 .. 223
FirstOf3 == 224 .. 239
FirstOf4 == 240 .. 247

(* What the code makes of two bytes, of three and of four.                 *)
AcceptsTwo(s, i) == i + 1 <= Len(s) /\ s[i] \in 194 .. 223 /\ s[i + 1] \in 128 .. 191

SecondOfThree(b) == IF b = 224 THEN 160 .. 191 ELSE IF b = 237 THEN 128 .. 159 ELSE 128 .. 191

AcceptsThree(s, i) ==
  i + 2 <= Len(s) /\ s[i + 1] \in SecondOfThree(s[i]) /\ s[i + 2] \in 128 .. 191

SecondOfFour(b) == IF b = 240 THEN 144 .. 191 ELSE IF b = 244 THEN 128 .. 143
                   ELSE IF b < 244 THEN 128 .. 191 ELSE {}

AcceptsFour(s, i) ==
  /\ i + 3 <= Len(s) /\ s[i + 1] \in SecondOfFour(s[i])
  /\ s[i + 2] \in 128 .. 191 /\ s[i + 3] \in 128 .. 191

(* Of two bytes, the code accepts those the table has.                     *)
LEMMA TwoBytes ==
  ASSUME NEW s, NEW i \in Nat, BytesFrom(s, i), s[i] \in FirstOf2
  PROVE  (Valid(s, i) <=> AcceptsTwo(s, i)) /\ LengthOf(s[i]) = 2
<1> USE DEF FirstOf2
<1>1. s[i] \in 128 .. 255 /\ Len(s) \in Nat
  BY DEF BytesFrom
<1>2. LengthOf(s[i]) = 2
  BY <1>1, LengthIs
<1> DEFINE c == CodePoint(s, i, 2)
           Known == ~Overlong(c, 2) /\ ~Surrogate(c) /\ c <= 1114111
<1>3. Valid(s, i) <=> /\ i + 2 - 1 <= Len(s)
                      /\ \A k \in 1 .. 2 - 1 : Continuation(s[i + k])
                      /\ Known
  BY <1>2 DEF Valid
<1>4. Valid(s, i) <=> i + 1 <= Len(s) /\ Continuation(s[i + 1]) /\ Known
  <2>1. i + 2 - 1 = i + 1 /\ \A k : k \in 1 .. 2 - 1 <=> k = 1
    OBVIOUS
  <2> HIDE DEF Known
  <2> QED
    BY <1>3, <2>1, Zenon
<1>5. c = (s[i] % 32) * 64 + (s[i + 1] % 64) /\ (Overlong(c, 2) <=> c < 128)
      /\ (Surrogate(c) <=> 55296 <= c /\ c <= 57343)
  BY DEF CodePoint, Overlong, Surrogate
<1> HIDE DEF c
<1>6. ASSUME i + 1 <= Len(s)
      PROVE  Continuation(s[i + 1]) <=> s[i + 1] \in 128 .. 191
  <2>1. s[i + 1] \in 0 .. 255
    BY <1>6 DEF BytesFrom
  <2> QED
    BY <2>1, Continues
<1>7. ASSUME s[i + 1] \in 128 .. 191 PROVE Known <=> s[i] \in 194 .. 223
  <2>1. s[i] % 32 = s[i] - 192 /\ s[i + 1] % 64 = s[i + 1] - 128
    BY <1>7, LowOfTwo, LowOfOther
  <2> DEFINE a == s[i]
             x == s[i + 1]
  <2>2. a \in 192 .. 223 /\ x \in 128 .. 191 /\ c = (a - 192) * 64 + (x - 128)
    BY <1>5, <1>7, <2>1
  <2> HIDE DEF a, x
  <2>3. (c < 128 <=> a < 194) /\ c < 55296 /\ c <= 1114111
    BY <2>2
  <2>4. Known <=> a \in 194 .. 223
    BY <1>5, <2>2, <2>3
  <2> QED
    BY <2>4 DEF a
<1> HIDE DEF Known
<1> QED
  BY <1>2, <1>4, <1>6, <1>7 DEF AcceptsTwo

(* The first bytes of three and of four.                                   *)
LEMMA LengthOfThree == \A b \in 224 .. 239 : LengthOf(b) = 3
<1> TAKE b \in 224 .. 239
<1>1. b \in 128 .. 255 /\ b \notin 192 .. 223
  OBVIOUS
<1> QED
  BY <1>1, LengthIs

LEMMA LengthOfFour == \A b \in 240 .. 247 : LengthOf(b) = 4
<1> TAKE b \in 240 .. 247
<1>1. b \in 128 .. 255 /\ b \notin 192 .. 223 /\ b \notin 224 .. 239
  OBVIOUS
<1> QED
  BY <1>1, LengthIs

(* Of three bytes: no overlong character, and no surrogate.                *)
LEMMA ThreeBytes ==
  ASSUME NEW s, NEW i \in Nat, BytesFrom(s, i), s[i] \in FirstOf3
  PROVE  (Valid(s, i) <=> AcceptsThree(s, i)) /\ LengthOf(s[i]) = 3
<1> USE DEF FirstOf3
<1>1. Len(s) \in Nat
  BY DEF BytesFrom
<1>2. LengthOf(s[i]) = 3
  BY LengthOfThree
<1> DEFINE c == CodePoint(s, i, 3)
           Known == ~Overlong(c, 3) /\ ~Surrogate(c) /\ c <= 1114111
<1>3. Valid(s, i) <=> /\ i + 3 - 1 <= Len(s)
                      /\ \A k \in 1 .. 3 - 1 : Continuation(s[i + k])
                      /\ Known
  BY <1>2 DEF Valid
<1>4. Valid(s, i) <=> /\ i + 2 <= Len(s) /\ Continuation(s[i + 1]) /\ Continuation(s[i + 2])
                      /\ Known
  <2>1. i + 3 - 1 = i + 2 /\ \A k : k \in 1 .. 3 - 1 <=> k = 1 \/ k = 2
    OBVIOUS
  <2> HIDE DEF Known
  <2> QED
    BY <1>3, <2>1, Zenon
<1>5. c = (s[i] % 16) * 4096 + (s[i + 1] % 64) * 64 + (s[i + 2] % 64)
      /\ (Overlong(c, 3) <=> c < 2048) /\ (Surrogate(c) <=> 55296 <= c /\ c <= 57343)
  BY DEF CodePoint, Overlong, Surrogate
<1> HIDE DEF c
<1>6. ASSUME i + 2 <= Len(s)
      PROVE  /\ Continuation(s[i + 1]) <=> s[i + 1] \in 128 .. 191
             /\ Continuation(s[i + 2]) <=> s[i + 2] \in 128 .. 191
  <2>1. s[i + 1] \in 0 .. 255 /\ s[i + 2] \in 0 .. 255
    BY <1>1, <1>6 DEF BytesFrom
  <2> QED
    BY <2>1, Continues
<1>7. ASSUME s[i + 1] \in 128 .. 191, s[i + 2] \in 128 .. 191
      PROVE  Known <=> s[i + 1] \in SecondOfThree(s[i])
  <2>1. s[i] % 16 = s[i] - 224 /\ s[i + 1] % 64 = s[i + 1] - 128
        /\ s[i + 2] % 64 = s[i + 2] - 128
    BY <1>7, LowOfThree, LowOfOther
  <2> DEFINE a == s[i]
             x == s[i + 1]
             y == s[i + 2]
  <2>2. a \in 224 .. 239 /\ x \in 128 .. 191 /\ y \in 128 .. 191
        /\ c = (a - 224) * 4096 + (x - 128) * 64 + (y - 128)
    BY <1>5, <1>7, <2>1
  <2> HIDE DEF a, x, y
  <2>3. /\ c < 2048 <=> a = 224 /\ x < 160
        /\ 55296 <= c /\ c <= 57343 <=> a = 237 /\ x > 159
        /\ c <= 1114111
    BY <2>2
  <2>4. Known <=> x \in SecondOfThree(a)
    BY <1>5, <2>2, <2>3 DEF SecondOfThree
  <2> QED
    BY <2>4 DEF a, x
<1>8. s[i + 1] \in SecondOfThree(s[i]) => s[i + 1] \in 128 .. 191
  BY DEF SecondOfThree
<1> HIDE DEF Known
<1> QED
  BY <1>2, <1>4, <1>6, <1>7, <1>8 DEF AcceptsThree

(* Of four: no overlong character, and none above U+10FFFF.                *)
LEMMA FourBytes ==
  ASSUME NEW s, NEW i \in Nat, BytesFrom(s, i), s[i] \in FirstOf4
  PROVE  (Valid(s, i) <=> AcceptsFour(s, i)) /\ LengthOf(s[i]) = 4
<1> USE DEF FirstOf4
<1>1. Len(s) \in Nat
  BY DEF BytesFrom
<1>2. LengthOf(s[i]) = 4
  BY LengthOfFour
<1> DEFINE c == CodePoint(s, i, 4)
           Known == ~Overlong(c, 4) /\ ~Surrogate(c) /\ c <= 1114111
<1>3. Valid(s, i) <=> /\ i + 4 - 1 <= Len(s)
                      /\ \A k \in 1 .. 4 - 1 : Continuation(s[i + k])
                      /\ Known
  BY <1>2 DEF Valid
<1>4. Valid(s, i) <=> /\ i + 3 <= Len(s) /\ Continuation(s[i + 1]) /\ Continuation(s[i + 2])
                      /\ Continuation(s[i + 3]) /\ Known
  <2>1. i + 4 - 1 = i + 3 /\ \A k : k \in 1 .. 4 - 1 <=> k = 1 \/ k = 2 \/ k = 3
    OBVIOUS
  <2> HIDE DEF Known
  <2> QED
    BY <1>3, <2>1, Zenon
<1>5. c = (s[i] % 8) * 262144 + (s[i + 1] % 64) * 4096 + (s[i + 2] % 64) * 64 + (s[i + 3] % 64)
      /\ (Overlong(c, 4) <=> c < 65536) /\ (Surrogate(c) <=> 55296 <= c /\ c <= 57343)
  BY DEF CodePoint, Overlong, Surrogate
<1> HIDE DEF c
<1>6. ASSUME i + 3 <= Len(s)
      PROVE  /\ Continuation(s[i + 1]) <=> s[i + 1] \in 128 .. 191
             /\ Continuation(s[i + 2]) <=> s[i + 2] \in 128 .. 191
             /\ Continuation(s[i + 3]) <=> s[i + 3] \in 128 .. 191
  <2>0. i + 1 <= Len(s) /\ i + 2 <= Len(s)
    BY <1>1, <1>6
  <2>a. s[i + 1] \in 0 .. 255
    BY <2>0 DEF BytesFrom
  <2>b. s[i + 2] \in 0 .. 255
    BY <2>0 DEF BytesFrom
  <2>c. s[i + 3] \in 0 .. 255
    BY <1>6 DEF BytesFrom
  <2>1. s[i + 1] \in 0 .. 255 /\ s[i + 2] \in 0 .. 255 /\ s[i + 3] \in 0 .. 255
    BY <2>a, <2>b, <2>c
  <2> QED
    BY <2>1, Continues
<1>7. ASSUME s[i + 1] \in 128 .. 191, s[i + 2] \in 128 .. 191, s[i + 3] \in 128 .. 191
      PROVE  Known <=> s[i + 1] \in SecondOfFour(s[i])
  <2>1. s[i] % 8 = s[i] - 240 /\ s[i + 1] % 64 = s[i + 1] - 128
        /\ s[i + 2] % 64 = s[i + 2] - 128 /\ s[i + 3] % 64 = s[i + 3] - 128
    BY <1>7, LowOfFour, LowOfOther
  <2> DEFINE a == s[i]
             x == s[i + 1]
             y == s[i + 2]
             z == s[i + 3]
  <2>2. a \in 240 .. 247 /\ x \in 128 .. 191 /\ y \in 128 .. 191 /\ z \in 128 .. 191
        /\ c = (a - 240) * 262144 + (x - 128) * 4096 + (y - 128) * 64 + (z - 128)
    BY <1>5, <1>7, <2>1
  <2> HIDE DEF a, x, y, z
  <2>5. c < 65536 <=> a = 240 /\ x < 144
    BY <2>2
  <2>6. c <= 1114111 <=> a < 244 \/ (a = 244 /\ x <= 143)
    BY <2>2
  <2>7. c \in Int
    BY <2>2
  <2>3. /\ c < 65536 <=> a = 240 /\ x < 144
        /\ c < 65536 \/ c > 57343
        /\ c <= 1114111 <=> a < 244 \/ (a = 244 /\ x <= 143)
    BY <2>5, <2>6, <2>7
  <2>4. Known <=> x \in SecondOfFour(a)
    BY <1>5, <2>2, <2>3 DEF SecondOfFour
  <2> QED
    BY <2>4 DEF a, x
<1>8. s[i + 1] \in SecondOfFour(s[i]) => s[i + 1] \in 128 .. 191
  BY DEF SecondOfFour
<1> HIDE DEF Known
<1> QED
  BY <1>2, <1>4, <1>6, <1>7, <1>8 DEF AcceptsFour

(* A row of the table: the first bytes, the second, how many.              *)
Row(F, S, n) == [first |-> F, second |-> S, n |-> n]

(* The bytes are of a row of two, of three, of four.                       *)
OfTwo(s, i, F, S)   == i + 1 <= Len(s) /\ s[i] \in F /\ s[i + 1] \in S
OfThree(s, i, F, S) == i + 2 <= Len(s) /\ s[i] \in F /\ s[i + 1] \in S /\ s[i + 2] \in 128 .. 191
OfFour(s, i, F, S)  ==
  /\ i + 3 <= Len(s) /\ s[i] \in F /\ s[i + 1] \in S
  /\ s[i + 2] \in 128 .. 191 /\ s[i + 3] \in 128 .. 191

(* To be of such a row is to be of so many bytes.                          *)
LEMMA RowsOf ==
  ASSUME NEW s, NEW i \in Nat, NEW F, NEW S
  PROVE  /\ OfRow(s, i, Row(F, S, 2)) <=> OfTwo(s, i, F, S)
         /\ OfRow(s, i, Row(F, S, 3)) <=> OfThree(s, i, F, S)
         /\ OfRow(s, i, Row(F, S, 4)) <=> OfFour(s, i, F, S)
<1>1. i + 2 - 1 = i + 1 /\ \A k : k \notin 2 .. 2 - 1
  OBVIOUS
<1>2. i + 3 - 1 = i + 2 /\ \A k : k \in 2 .. 3 - 1 <=> k = 2
  OBVIOUS
<1>3. i + 4 - 1 = i + 3 /\ \A k : k \in 2 .. 4 - 1 <=> k = 2 \/ k = 3
  OBVIOUS
<1>4. OfRow(s, i, Row(F, S, 2)) <=> OfTwo(s, i, F, S)
  BY <1>1, Zenon DEF OfRow, Row, OfTwo
<1>5. OfRow(s, i, Row(F, S, 3)) <=> OfThree(s, i, F, S)
  BY <1>2, ZenonT(30) DEF OfRow, Row, OfThree
<1>6. OfRow(s, i, Row(F, S, 4)) <=> OfFour(s, i, F, S)
  <2>1. (\A k \in 2 .. 4 - 1 : s[i + k] \in 128 .. 191)
          <=> s[i + 2] \in 128 .. 191 /\ s[i + 3] \in 128 .. 191
    <3>1. ASSUME \A k \in 2 .. 4 - 1 : s[i + k] \in 128 .. 191
          PROVE  s[i + 2] \in 128 .. 191 /\ s[i + 3] \in 128 .. 191
      <4>1. 2 \in 2 .. 4 - 1 /\ 3 \in 2 .. 4 - 1
        OBVIOUS
      <4>. QED
        BY <3>1, <4>1
    <3>2. ASSUME s[i + 2] \in 128 .. 191, s[i + 3] \in 128 .. 191, NEW k \in 2 .. 4 - 1
          PROVE  s[i + k] \in 128 .. 191
      <4>1. k = 2 \/ k = 3
        OBVIOUS
      <4>. QED
        BY <3>2, <4>1
    <3>. QED
      BY <3>1, <3>2
  <2>. QED
    BY <1>3, <2>1, Zenon DEF OfRow, Row, OfFour
<1> QED
  BY <1>4, <1>5, <1>6, Zenon

(* The sets of the rows by name.                                           *)
Others == 128 .. 191
Two    == 194 .. 223
Three  == (225 .. 239) \ {237}
Four   == 241 .. 243
Upper3 == 160 .. 191
Lower3 == 128 .. 159
Upper4 == 144 .. 191
Lower4 == 128 .. 143

Row2  == Row(Two, Others, 2)
Row3a == Row({224}, Upper3, 3)
Row3b == Row(Three, Others, 3)
Row3c == Row({237}, Lower3, 3)
Row4a == Row({240}, Upper4, 4)
Row4b == Row(Four, Others, 4)
Row4c == Row({244}, Lower4, 4)

(* They are the table.                                                     *)
LEMMA TheRows ==
  WellFormed = {Row2, Row3a, Row3b, Row3c, Row4a, Row4b, Row4c}
  BY Zenon DEF WellFormed, Row, Row2, Row3a, Row3b, Row3c, Row4a, Row4b, Row4c, Others, Two,
               Three, Four, Upper3, Lower3, Upper4, Lower4

(* How many bytes each is of.                                              *)
LEMMA RowLengths ==
  /\ Row2.n = 2 /\ Row3a.n = 3 /\ Row3b.n = 3 /\ Row3c.n = 3
  /\ Row4a.n = 4 /\ Row4b.n = 4 /\ Row4c.n = 4
  BY Zenon DEF Row, Row2, Row3a, Row3b, Row3c, Row4a, Row4b, Row4c

(* The code accepts what is of a row.                                      *)
LEMMA TwoAreOfRow ==
  ASSUME NEW s, NEW i \in Nat
  PROVE  AcceptsTwo(s, i) <=> OfRow(s, i, Row2)
<1>1. AcceptsTwo(s, i) <=> OfTwo(s, i, Two, Others)
  BY DEF OfTwo, AcceptsTwo, Two, Others
<1>2. OfRow(s, i, Row2) <=> OfTwo(s, i, Two, Others)
  BY RowsOf, Zenon DEF Row2
<1> QED
  BY <1>1, <1>2

LEMMA ThreeAreOfRow ==
  ASSUME NEW s, NEW i \in Nat, s[i] \in FirstOf3
  PROVE  AcceptsThree(s, i) <=>
           OfRow(s, i, Row3a) \/ OfRow(s, i, Row3b) \/ OfRow(s, i, Row3c)
<1>1. /\ OfRow(s, i, Row3a) <=> OfThree(s, i, {224}, Upper3)
      /\ OfRow(s, i, Row3b) <=> OfThree(s, i, Three, Others)
      /\ OfRow(s, i, Row3c) <=> OfThree(s, i, {237}, Lower3)
  BY RowsOf, Zenon DEF Row3a, Row3b, Row3c
<1>2. \A b \in FirstOf3 :
        \/ b \in {224} /\ b \notin Three /\ b \notin {237} /\ SecondOfThree(b) = Upper3
        \/ b \notin {224} /\ b \in Three /\ b \notin {237} /\ SecondOfThree(b) = Others
        \/ b \notin {224} /\ b \notin Three /\ b \in {237} /\ SecondOfThree(b) = Lower3
  BY DEF FirstOf3, SecondOfThree, Three, Upper3, Lower3, Others
<1>3. AcceptsThree(s, i) <=>
        i + 2 <= Len(s) /\ s[i + 1] \in SecondOfThree(s[i]) /\ s[i + 2] \in Others
  BY DEF AcceptsThree, Others
<1>4. \A F, S : OfThree(s, i, F, S) <=>
        i + 2 <= Len(s) /\ s[i] \in F /\ s[i + 1] \in S /\ s[i + 2] \in Others
  BY DEF OfThree, Others
<1> DEFINE A == s[i] \in {224}
           B == s[i] \in Three
           C == s[i] \in {237}
           T == SecondOfThree(s[i])
<1>5. \/ A /\ ~B /\ ~C /\ T = Upper3
      \/ ~A /\ B /\ ~C /\ T = Others
      \/ ~A /\ ~B /\ C /\ T = Lower3
  BY <1>2
<1> DEFINE Y == i + 2 <= Len(s) /\ s[i + 2] \in Others
           x == s[i + 1]
<1>6. /\ AcceptsThree(s, i) <=> Y /\ x \in T
      /\ OfRow(s, i, Row3a) <=> Y /\ A /\ x \in Upper3
      /\ OfRow(s, i, Row3b) <=> Y /\ B /\ x \in Others
      /\ OfRow(s, i, Row3c) <=> Y /\ C /\ x \in Lower3
  BY <1>1, <1>3, <1>4
<1> HIDE DEF A, B, C, T, Y, x
<1> QED
  BY <1>5, <1>6

LEMMA FourAreOfRow ==
  ASSUME NEW s, NEW i \in Nat, s[i] \in FirstOf4
  PROVE  AcceptsFour(s, i) <=>
           OfRow(s, i, Row4a) \/ OfRow(s, i, Row4b) \/ OfRow(s, i, Row4c)
<1>1. /\ OfRow(s, i, Row4a) <=> OfFour(s, i, {240}, Upper4)
      /\ OfRow(s, i, Row4b) <=> OfFour(s, i, Four, Others)
      /\ OfRow(s, i, Row4c) <=> OfFour(s, i, {244}, Lower4)
  BY RowsOf, Zenon DEF Row4a, Row4b, Row4c
<1>2. \A b \in FirstOf4 :
        \/ b \in {240} /\ b \notin Four /\ b \notin {244} /\ SecondOfFour(b) = Upper4
        \/ b \notin {240} /\ b \in Four /\ b \notin {244} /\ SecondOfFour(b) = Others
        \/ b \notin {240} /\ b \notin Four /\ b \in {244} /\ SecondOfFour(b) = Lower4
        \/ b \notin {240} /\ b \notin Four /\ b \notin {244} /\ SecondOfFour(b) = {}
  BY DEF FirstOf4, SecondOfFour, Four, Upper4, Lower4, Others
<1>3. AcceptsFour(s, i) <=>
        /\ i + 3 <= Len(s) /\ s[i + 1] \in SecondOfFour(s[i])
        /\ s[i + 2] \in Others /\ s[i + 3] \in Others
  BY DEF AcceptsFour, Others
<1>4. \A F, S : OfFour(s, i, F, S) <=>
        /\ i + 3 <= Len(s) /\ s[i] \in F /\ s[i + 1] \in S
        /\ s[i + 2] \in Others /\ s[i + 3] \in Others
  BY DEF OfFour, Others
<1> DEFINE A == s[i] \in {240}
           B == s[i] \in Four
           C == s[i] \in {244}
           T == SecondOfFour(s[i])
<1>5. \/ A /\ ~B /\ ~C /\ T = Upper4
      \/ ~A /\ B /\ ~C /\ T = Others
      \/ ~A /\ ~B /\ C /\ T = Lower4
      \/ ~A /\ ~B /\ ~C /\ T = {}
  BY <1>2
<1> DEFINE Y == i + 3 <= Len(s) /\ s[i + 2] \in Others /\ s[i + 3] \in Others
           x == s[i + 1]
<1>6. /\ AcceptsFour(s, i) <=> Y /\ x \in T
      /\ OfRow(s, i, Row4a) <=> Y /\ A /\ x \in Upper4
      /\ OfRow(s, i, Row4b) <=> Y /\ B /\ x \in Others
      /\ OfRow(s, i, Row4c) <=> Y /\ C /\ x \in Lower4
  BY <1>1, <1>3, <1>4
<1> HIDE DEF A, B, C, T, Y, x
<1> QED
  BY <1>5, <1>6

(* Which a byte can be the first of.                                       *)
LEMMA RowsOfByte ==
  ASSUME NEW s, NEW i, NEW u \in WellFormed, OfRow(s, i, u)
  PROVE  \/ u = Row2 /\ s[i] \in FirstOf2
         \/ u \in {Row3a, Row3b, Row3c} /\ s[i] \in FirstOf3
         \/ u \in {Row4a, Row4b, Row4c} /\ s[i] \in FirstOf4
<1>1. s[i] \in u.first
  BY Zenon DEF OfRow
<1>2. /\ u = Row2 => u.first = Two
      /\ u = Row3a => u.first = {224}
      /\ u = Row3b => u.first = Three
      /\ u = Row3c => u.first = {237}
      /\ u = Row4a => u.first = {240}
      /\ u = Row4b => u.first = Four
      /\ u = Row4c => u.first = {244}
  <2>1. \A F, S, n : Row(F, S, n).first = F
    BY DEF Row
  <2> QED
    BY <2>1 DEF Row2, Row3a, Row3b, Row3c, Row4a, Row4b, Row4c
<1>3. u = Row2 \/ u = Row3a \/ u = Row3b \/ u = Row3c \/ u = Row4a \/ u = Row4b \/ u = Row4c
  BY TheRows
<1>4. /\ Two \subseteq FirstOf2 /\ {224} \subseteq FirstOf3 /\ Three \subseteq FirstOf3
      /\ {237} \subseteq FirstOf3 /\ {240} \subseteq FirstOf4 /\ Four \subseteq FirstOf4
      /\ {244} \subseteq FirstOf4
  BY DEF Two, Three, Four, FirstOf2, FirstOf3, FirstOf4
<1>5. u = Row2 => s[i] \in FirstOf2
  BY <1>1, <1>2, <1>4
<1>6. u = Row3a \/ u = Row3b \/ u = Row3c => s[i] \in FirstOf3
  BY <1>1, <1>2, <1>4
<1>7. u = Row4a \/ u = Row4b \/ u = Row4c => s[i] \in FirstOf4
  BY <1>1, <1>2, <1>4
<1> QED
  BY <1>3, <1>5, <1>6, <1>7

(* The code keeps the bytes from the i-th on just if they are of a row, of *)
(* which there is then one.                                                *)
KeptAsRow(s, i) ==
  IF Valid(s, i)
  THEN /\ \E u \in WellFormed : OfRow(s, i, u)
       /\ \A u \in WellFormed : OfRow(s, i, u) => u.n = LengthOf(s[i])
  ELSE \A u \in WellFormed : ~OfRow(s, i, u)

(* It does, whatever the bytes are: the arithmetic of CodePoint and its    *)
(* bounds come to the ranges of the table.                                 *)
LEMMA LikeTheTable ==
  ASSUME NEW s, NEW i \in Nat, BytesFrom(s, i), s[i] \in 128 .. 255
  PROVE  KeptAsRow(s, i)
<1>1. \A b \in 128 .. 255 :
        \/ b \in FirstOf2 /\ b \notin FirstOf3 /\ b \notin FirstOf4
        \/ b \notin FirstOf2 /\ b \in FirstOf3 /\ b \notin FirstOf4
        \/ b \notin FirstOf2 /\ b \notin FirstOf3 /\ b \in FirstOf4
        \/ b \notin FirstOf2 /\ b \notin FirstOf3 /\ b \notin FirstOf4 /\ LengthOf(b) = 0
  BY LengthIs DEF FirstOf2, FirstOf3, FirstOf4
<1>2. \A u \in WellFormed : OfRow(s, i, u) =>
        \/ u = Row2 /\ s[i] \in FirstOf2
        \/ u \in {Row3a, Row3b, Row3c} /\ s[i] \in FirstOf3
        \/ u \in {Row4a, Row4b, Row4c} /\ s[i] \in FirstOf4
  BY RowsOfByte
<1>3. s[i] \in FirstOf2 => /\ Valid(s, i) <=> OfRow(s, i, Row2)
                         /\ LengthOf(s[i]) = 2
  BY TwoBytes, TwoAreOfRow, Zenon
<1>4. s[i] \in FirstOf3 =>
        /\ Valid(s, i) <=> OfRow(s, i, Row3a) \/ OfRow(s, i, Row3b) \/ OfRow(s, i, Row3c)
        /\ LengthOf(s[i]) = 3
  BY ThreeBytes, ThreeAreOfRow, Zenon
<1>5. s[i] \in FirstOf4 =>
        /\ Valid(s, i) <=> OfRow(s, i, Row4a) \/ OfRow(s, i, Row4b) \/ OfRow(s, i, Row4c)
        /\ LengthOf(s[i]) = 4
  BY FourBytes, FourAreOfRow, Zenon
<1>6. LengthOf(s[i]) = 0 => ~Valid(s, i)
  BY SMT DEF Valid
<1> DEFINE A == s[i] \in FirstOf2
           B == s[i] \in FirstOf3
           C == s[i] \in FirstOf4
           n == LengthOf(s[i])
           V == Valid(s, i)
           R(u) == OfRow(s, i, u)
<1>7. \/ A /\ ~B /\ ~C
      \/ ~A /\ B /\ ~C
      \/ ~A /\ ~B /\ C
      \/ ~A /\ ~B /\ ~C /\ n = 0
  BY <1>1
<1>8. \A u \in WellFormed : R(u) => (u = Row2 /\ A) \/ (u \in {Row3a, Row3b, Row3c} /\ B)
                                    \/ (u \in {Row4a, Row4b, Row4c} /\ C)
  BY <1>2
<1>9. /\ A => (V <=> R(Row2)) /\ n = 2
      /\ B => (V <=> R(Row3a) \/ R(Row3b) \/ R(Row3c)) /\ n = 3
      /\ C => (V <=> R(Row4a) \/ R(Row4b) \/ R(Row4c)) /\ n = 4
      /\ n = 0 => ~V
  BY <1>3, <1>4, <1>5, <1>6
<1>10. {Row2, Row3a, Row3b, Row3c, Row4a, Row4b, Row4c} \subseteq WellFormed
  BY TheRows
<1> DEFINE kept == IF V THEN (\E u \in WellFormed : R(u)) /\ (\A u \in WellFormed : R(u) => u.n = n)
                   ELSE \A u \in WellFormed : ~R(u)
<1> HIDE DEF A, B, C, n, V, R
<1>11. ASSUME A PROVE kept
  <2>1. (V <=> R(Row2)) /\ n = 2 /\ \A u \in WellFormed : R(u) => u = Row2
    BY <1>7, <1>8, <1>9, <1>11
  <2> QED
    BY <1>10, <2>1, RowLengths
<1>12. ASSUME B PROVE kept
  <2>1. /\ V <=> R(Row3a) \/ R(Row3b) \/ R(Row3c)
        /\ n = 3 /\ \A u \in WellFormed : R(u) => u \in {Row3a, Row3b, Row3c}
    BY <1>7, <1>8, <1>9, <1>12
  <2> QED
    BY <1>10, <2>1, RowLengths
<1>13. ASSUME C PROVE kept
  <2>1. /\ V <=> R(Row4a) \/ R(Row4b) \/ R(Row4c)
        /\ n = 4 /\ \A u \in WellFormed : R(u) => u \in {Row4a, Row4b, Row4c}
    BY <1>7, <1>8, <1>9, <1>13
  <2> QED
    BY <1>10, <2>1, RowLengths
<1>14. ASSUME ~A /\ ~B /\ ~C PROVE kept
  BY <1>7, <1>8, <1>9, <1>14
<1>15. kept
  BY <1>7, <1>11, <1>12, <1>13, <1>14
<1> QED
  BY <1>15 DEF KeptAsRow, R, V, n

(* So the characters are those the code keeps.                             *)
LEMMA CharactersAre ==
  ASSUME NEW s \in Seq(Byte), NEW i \in 1 .. Len(s)
  PROVE  Characters(s, i) =
           IF s[i] < 128 THEN {<<s[i]>>}
           ELSE IF Valid(s, i) THEN {SubSeq(s, i, i + LengthOf(s[i]) - 1)} ELSE {}
<1>1. CASE s[i] < 128
  BY <1>1 DEF Characters
<1>2. CASE ~(s[i] < 128)
  <2>1. BytesFrom(s, i)
    BY Elements DEF BytesFrom
  <2>2. s[i] \in 0 .. 255
    BY Elements
  <2>8. \A b \in 0 .. 255 : ~(b < 128) => b \in 128 .. 255
    OBVIOUS
  <2>7. s[i] \in 128 .. 255
    BY <1>2, <2>2, <2>8, Zenon
  <2>9. i \in Nat
    OBVIOUS
  <2>3. KeptAsRow(s, i)
    BY <2>1, <2>7, <2>9, LikeTheTable, Zenon
  <2> DEFINE sub(n) == SubSeq(s, i, i + n - 1)
  <2>4. Characters(s, i) = {sub(t.n) : t \in {u \in WellFormed : OfRow(s, i, u)}}
    BY <1>2, Zenon DEF Characters, OfRow
  <2> HIDE DEF sub
  <2>5. CASE Valid(s, i)
    <3>1. Characters(s, i) = {sub(LengthOf(s[i]))}
      BY <2>3, <2>4, <2>5 DEF KeptAsRow
    <3> QED
      BY <1>2, <2>5, <3>1 DEF sub
  <2>6. CASE ~Valid(s, i)
    <3>1. Characters(s, i) = {}
      BY <2>3, <2>4, <2>6 DEF KeptAsRow
    <3> QED
      BY <1>2, <2>6, <3>1
  <2> QED
    BY <2>5, <2>6
<1> QED
  BY <1>1, <1>2

---------------------------------------------------------------------------
(* Escaping.                                                               *)

LEMMA ShortIs ==
  ASSUME NEW b \in DOMAIN Short
  PROVE  /\ b \in {34, 92, 8, 12, 10, 13, 9}
         /\ Short[b] = IF b = 8 THEN 98 ELSE IF b = 12 THEN 102 ELSE IF b = 10 THEN 110
                       ELSE IF b = 13 THEN 114 ELSE IF b = 9 THEN 116 ELSE b
<1>1. b \in {34, 92, 8, 12, 10, 13, 9}
  BY DEF Short, Quote, Backslash
<1>. QED
  BY <1>1 DEF Short, Quote, Backslash

LEMMA PairIsText == ASSUME NEW S, NEW a \in S, NEW b \in S PROVE <<a, b>> \in Seq(S)
  OBVIOUS

(* What is written for a character of one byte.                            *)
LEMMA AsciiIsText == \A b \in 0 .. 127 : Ascii(b) \in Seq(Byte)
<1> TAKE b \in 0 .. 127
<1>1. CASE b \in DOMAIN Short
  <2>1. Short[b] \in Byte /\ Backslash \in Byte
    BY <1>1, ShortIs DEF Byte, Backslash
  <2>2. <<Backslash, Short[b]>> \in Seq(Byte)
    BY <2>1, PairIsText
  <2>3. Ascii(b) = <<Backslash, Short[b]>>
    BY <1>1, Zenon DEF Ascii
  <2>. QED
    BY <2>2, <2>3, Zenon
<1>2. CASE b \notin DOMAIN Short /\ b < 32
  <2>1. b \div 16 \in 0 .. 1 /\ b % 16 \in 0 .. 15
    BY <1>2, DivMod
  <2>2. \A h \in 0 .. 15 : Hex(h) \in Byte
    BY DEF Hex, Byte
  <2>3. Hex(b \div 16) \in Byte /\ Hex(b % 16) \in Byte
    BY <2>1, <2>2
  <2>4. Backslash \in Byte /\ 117 \in Byte /\ 48 \in Byte
    BY DEF Backslash, Byte
  <2>. QED
    BY <1>2, <2>3, <2>4 DEF Ascii
<1>3. CASE b \notin DOMAIN Short /\ ~(b < 32)
  <2>1. b \in Byte
    BY DEF Byte
  <2>. QED
    BY <1>3, <2>1 DEF Ascii
<1>. QED
  BY <1>1, <1>2, <1>3

(* The first byte of more has a length.                                    *)
LEMMA LengthIsNat == \A b \in 0 .. 255 : ~(b < 128) => b >= 128 /\ LengthOf(b) \in Nat
<1> TAKE b \in 0 .. 255
<1>1. ASSUME b \in 128 .. 255 PROVE LengthOf(b) \in Nat
  <2>1. LengthOf(b) = 2 \/ LengthOf(b) = 3 \/ LengthOf(b) = 4 \/ LengthOf(b) = 0
    BY <1>1, LengthIs
  <2>. QED
    BY <2>1
<1>. QED
  BY <1>1

(* Something is written for each byte, and one at least is taken.          *)
LEMMA WrittenIsText ==
  ASSUME NEW s \in Seq(Byte), NEW i \in 1 .. Len(s)
  PROVE  /\ Written(s, i) \in Seq(Byte)
         /\ Taken(s, i) \in Nat \ {0} /\ i + Taken(s, i) <= Len(s) + 1
<1>1. Len(s) \in Nat
  BY LenProperties
<1>2. CASE s[i] < 128
  <2>1. s[i] \in 0 .. 255
    BY Elements
  <2>2. \A b \in 0 .. 255 : b < 128 => b \in 0 .. 127 /\ ~(b >= 128)
    OBVIOUS
  <2>3. s[i] \in 0 .. 127 /\ ~(s[i] >= 128)
    BY <1>2, <2>1, <2>2, Zenon
  <2>4. Written(s, i) \in Seq(Byte)
    BY <1>2, <2>3, AsciiIsText, Zenon DEF Written
  <2>5. Taken(s, i) = 1
    BY <2>3, Zenon DEF Taken
  <2>. QED
    BY <1>1, <2>4, <2>5
<1>3. CASE ~(s[i] < 128) /\ Valid(s, i)
  <2> DEFINE n == LengthOf(s[i])
  <2>1. s[i] \in 0 .. 255
    BY Elements
  <2>3. s[i] >= 128 /\ n \in Nat
    BY <1>3, <2>1, LengthIsNat, Zenon
  <2>4. n # 0 /\ i + n - 1 <= Len(s)
    BY <1>3, SMT DEF Valid
  <2> HIDE DEF n
  <2>5. Taken(s, i) = n
    BY <1>3, <2>3, Zenon DEF Taken, n
  <2>6. SubSeq(s, i, i + n - 1) \in Seq(Byte)
    BY <1>1, <2>3, <2>4, SubSeqProperties
  <2>7. Written(s, i) = SubSeq(s, i, i + n - 1)
    BY <1>3, Zenon DEF Written, n
  <2>. QED
    BY <1>1, <2>3, <2>4, <2>5, <2>6, <2>7
<1>4. CASE ~(s[i] < 128) /\ ~Valid(s, i)
  <2>1. Written(s, i) = Replacement /\ Taken(s, i) = 1
    BY <1>4, Zenon DEF Written, Taken
  <2>2. Replacement \in Seq(Byte)
    BY DEF Replacement, Byte
  <2>. QED
    BY <1>1, <2>1, <2>2
<1>. QED
  BY <1>2, <1>3, <1>4

(* A string is escaped piece by piece.                                     *)
LEMMA EscapedIs ==
  ASSUME NEW s \in Seq(Byte)
  PROVE  \E f : /\ Escaped(s) = f[1] /\ f[Len(s) + 1] = <<>>
                /\ \A i \in 1 .. Len(s) : f[i] = Written(s, i) \o f[i + Taken(s, i)]
<1> DEFINE n == Len(s)
           piece == [i \in 1 .. n |-> Written(s, i)]
           move == [i \in 1 .. n |-> Taken(s, i)]
           Rule(h) == h = [i \in 1 .. n + 1 |->
                             IF i > n THEN <<>> ELSE Written(s, i) \o h[i + Taken(s, i)]]
           from == CHOOSE h : Rule(h)
<1>1. Escaped(s) = from[1]
  BY DEF Escaped
<1>2. n \in Nat
  BY LenProperties
<1>3. \A i \in 1 .. n : /\ Written(s, i) \in Seq(Byte)
                        /\ Taken(s, i) \in Nat \ {0} /\ i + Taken(s, i) <= n + 1
  BY WrittenIsText
<1>4. \A i \in 1 .. n : piece[i] = Written(s, i) /\ move[i] = Taken(s, i)
  OBVIOUS
<1> HIDE DEF n
<1>5. piece \in [1 .. n -> Seq(Byte)] /\ move \in [1 .. n -> Nat \ {0}]
  BY <1>3
<1> HIDE DEF piece, move
<1>6. Pieces(n, Byte, piece, move)
  BY <1>2, <1>3, <1>4, <1>5 DEF Pieces
<1>7. PICK f \in [1 .. n + 1 -> Seq(Byte)] : Chains(f, 1, n, piece, move)
  BY <1>6, ChainIsThere
<1>8. \A i \in 1 .. n + 1 : f[i] = IF i > n THEN <<>> ELSE Written(s, i) \o f[i + Taken(s, i)]
  <2> TAKE i \in 1 .. n + 1
  <2>1. CASE i > n
    <3>1. i = n + 1
      BY <1>2, <2>1
    <3>. QED
      BY <1>7, <2>1, <3>1 DEF Chains
  <2>2. CASE ~(i > n)
    <3>1. i \in 1 .. n
      BY <1>2, <2>2
    <3>. QED
      BY <1>4, <1>7, <2>2, <3>1 DEF Chains
  <2>. QED
    BY <2>1, <2>2
<1>9. Rule(f)
  BY <1>8
<1>10. Rule(from)
  BY <1>9
<1> HIDE DEF from
<1>11. n + 1 \in 1 .. n + 1 /\ n + 1 > n /\ \A i \in 1 .. n : i \in 1 .. n + 1 /\ ~(i > n)
  BY <1>2
<1>12. from[n + 1] = <<>> /\ \A i \in 1 .. n : from[i] = Written(s, i) \o from[i + Taken(s, i)]
  BY <1>10, <1>11
<1>. QED
  BY <1>1, <1>12 DEF n

(* What the i-th byte, with those taken with it, stands for.               *)
Meaning(s, i) ==
  IF Characters(s, i) = {} THEN <<239, 191, 189>> ELSE CHOOSE c \in Characters(s, i) : TRUE

(* It is what was taken: the byte, the character, or U+FFFD for a byte of  *)
(* none.                                                                   *)
LEMMA MeaningIs ==
  ASSUME NEW s \in Seq(Byte), NEW i \in 1 .. Len(s)
  PROVE  /\ Meaning(s, i) = IF s[i] < 128 THEN <<s[i]>>
                            ELSE IF Valid(s, i) THEN SubSeq(s, i, i + LengthOf(s[i]) - 1)
                            ELSE <<239, 191, 189>>
         /\ Taken(s, i) = IF Characters(s, i) = {} THEN 1 ELSE Len(Meaning(s, i))
         /\ Meaning(s, i) \in Seq(Byte)
<1>1. \A c : (CHOOSE x \in {c} : TRUE) = c
  OBVIOUS
<1>2. Len(s) \in Nat /\ s[i] \in 0 .. 255 /\ s[i] \in Byte
  BY Elements, LenProperties DEF Byte
<1>3. CASE s[i] < 128
  <2>1. Characters(s, i) = {<<s[i]>>}
    BY <1>3, CharactersAre
  <2>2. Meaning(s, i) = <<s[i]>>
    BY <1>1, <2>1 DEF Meaning
  <2>3. \A b \in 0 .. 255 : b < 128 => ~(b >= 128)
    OBVIOUS
  <2>4. Taken(s, i) = 1
    BY <1>2, <1>3, <2>3, Zenon DEF Taken
  <2>5. <<s[i]>> \in Seq(Byte) /\ Len(<<s[i]>>) = 1
    BY <1>2
  <2>. QED
    BY <1>3, <2>1, <2>2, <2>4, <2>5, Zenon
<1>4. CASE ~(s[i] < 128) /\ Valid(s, i)
  <2> DEFINE n == LengthOf(s[i])
             c == SubSeq(s, i, i + n - 1)
  <2>1. Characters(s, i) = {c}
    BY <1>4, CharactersAre
  <2>2. Meaning(s, i) = c
    BY <1>1, <2>1, Zenon DEF Meaning
  <2>3. s[i] >= 128 /\ n \in Nat
    BY <1>2, <1>4, LengthIsNat, Zenon
  <2>4. n # 0 /\ i + n - 1 <= Len(s)
    BY <1>4, SMT DEF Valid
  <2>5. Taken(s, i) = n
    BY <1>4, <2>3, Zenon DEF Taken
  <2> HIDE DEF n
  <2>6. c \in Seq(Byte) /\ Len(c) = n
    BY <1>2, <2>3, <2>4, SubSeqProperties
  <2>7. Meaning(s, i) = SubSeq(s, i, i + LengthOf(s[i]) - 1)
    BY <2>2 DEF n
  <2> HIDE DEF c
  <2>8. Characters(s, i) # {}
    BY <2>1
  <2>. QED
    BY <1>4, <2>2, <2>5, <2>6, <2>7, <2>8, Zenon
<1>5. CASE ~(s[i] < 128) /\ ~Valid(s, i)
  <2>1. Characters(s, i) = {}
    BY <1>5, CharactersAre
  <2>2. Meaning(s, i) = <<239, 191, 189>> /\ Taken(s, i) = 1
    BY <1>5, <2>1 DEF Meaning, Taken
  <2>3. <<239, 191, 189>> \in Seq(Byte)
    BY DEF Byte
  <2>. QED
    BY <1>5, <2>1, <2>2, <2>3, Zenon
<1>. QED
  BY <1>3, <1>4, <1>5

(* The text is read off piece by piece, of the same bytes.                 *)
LEMMA TextIs ==
  ASSUME NEW s \in Seq(Byte)
  PROVE  \E f : /\ Text(s) = f[1] /\ f[Len(s) + 1] = <<>>
                /\ \A i \in 1 .. Len(s) : f[i] = Meaning(s, i) \o f[i + Taken(s, i)]
<1> DEFINE n == Len(s)
           piece == [i \in 1 .. n |-> Meaning(s, i)]
           move == [i \in 1 .. n |-> Taken(s, i)]
           E(i, h) == IF i > n THEN <<>>
                      ELSE IF Characters(s, i) = {} THEN <<239, 191, 189>> \o h[i + 1]
                      ELSE LET c == CHOOSE c \in Characters(s, i) : TRUE IN c \o h[i + Len(c)]
           Rule(h) == h = [i \in 1 .. n + 1 |-> E(i, h)]
           from == CHOOSE h : Rule(h)
<1>1. Text(s) = from[1]
  BY DEF Text
<1>2. n \in Nat
  BY LenProperties
<1>3. \A i \in 1 .. n : /\ Meaning(s, i) \in Seq(Byte)
                        /\ Taken(s, i) \in Nat \ {0} /\ i + Taken(s, i) <= n + 1
  BY WrittenIsText, MeaningIs
<1>4. \A i \in 1 .. n : piece[i] = Meaning(s, i) /\ move[i] = Taken(s, i)
  OBVIOUS
<1>a. \A i \in 1 .. n : \A h : i > n \/ E(i, h) = Meaning(s, i) \o h[i + Taken(s, i)]
  <2> TAKE i \in 1 .. n
  <2> TAKE h
  <2>1. Taken(s, i) = IF Characters(s, i) = {} THEN 1 ELSE Len(Meaning(s, i))
    BY MeaningIs
  <2>2. CASE Characters(s, i) = {}
    BY <2>1, <2>2 DEF Meaning
  <2>3. CASE Characters(s, i) # {}
    <3>1. /\ Meaning(s, i) = CHOOSE c \in Characters(s, i) : TRUE
          /\ Taken(s, i) = Len(Meaning(s, i))
      BY <2>1, <2>3, Zenon DEF Meaning
    <3>2. i > n \/ E(i, h) = Meaning(s, i) \o h[i + Len(Meaning(s, i))]
      BY <2>3, <3>1, Zenon
    <3>. QED
      BY <3>1, <3>2, Zenon
  <2>. QED
    BY <2>2, <2>3
<1>b. \A i : \A h : i > n => E(i, h) = <<>>
  OBVIOUS
<1> HIDE DEF n, E
<1>5. piece \in [1 .. n -> Seq(Byte)] /\ move \in [1 .. n -> Nat \ {0}]
  BY <1>3
<1> HIDE DEF piece, move
<1>6. Pieces(n, Byte, piece, move)
  BY <1>2, <1>3, <1>4, <1>5 DEF Pieces
<1>7. PICK f \in [1 .. n + 1 -> Seq(Byte)] : Chains(f, 1, n, piece, move)
  BY <1>6, ChainIsThere
<1>8. \A i \in 1 .. n + 1 : f[i] = E(i, f)
  <2> TAKE i \in 1 .. n + 1
  <2>1. CASE i > n
    <3>1. i = n + 1
      BY <1>2, <2>1
    <3>. QED
      BY <1>7, <1>b, <2>1, <3>1 DEF Chains
  <2>2. CASE ~(i > n)
    <3>1. i \in 1 .. n
      BY <1>2, <2>2
    <3>2. f[i] = Meaning(s, i) \o f[i + Taken(s, i)]
      BY <1>4, <1>7, <3>1 DEF Chains
    <3>. QED
      BY <1>a, <2>2, <3>1, <3>2
  <2>. QED
    BY <2>1, <2>2
<1>9. Rule(f)
  BY <1>8
<1>10. Rule(from)
  BY <1>9
<1> HIDE DEF from
<1>11. n + 1 \in 1 .. n + 1 /\ n + 1 > n /\ \A i \in 1 .. n : i \in 1 .. n + 1 /\ ~(i > n)
  BY <1>2
<1>12. \A i \in 1 .. n + 1 : from[i] = E(i, from)
  BY <1>10
<1>13. from[n + 1] = <<>> /\ \A i \in 1 .. n : from[i] = Meaning(s, i) \o from[i + Taken(s, i)]
  BY <1>11, <1>12, <1>a, <1>b
<1>. QED
  BY <1>1, <1>13 DEF n

---------------------------------------------------------------------------
(* Reading.  What a reader has after k bytes of a text T is where it is    *)
(* and what it has seen; R is the set of all <<T, k, where, seen>>.        *)
IsAt(R, T, k, where, out) == <<T, k, where, out>> \in R

Occurs(T, k, w) == k + Len(w) <= Len(T) /\ \A j \in 1 .. Len(w) : T[k + j] = w[j]

(* Whatever it has seen so far, w takes it from a to b and shows it m.     *)
Reads(R, a, w, m, b) ==
  \A T \in Seq(Byte), k \in Nat, out \in Seq(Int) :
    Occurs(T, k, w) /\ IsAt(R, T, k, a, out) => IsAt(R, T, k + Len(w), b, out \o m)

(* Where two texts occur, one behind the other, each does.                 *)
LEMMA OccursParts ==
  ASSUME NEW T \in Seq(Byte), NEW k \in Nat, NEW v \in Seq(Byte), NEW w \in Seq(Byte),
         Occurs(T, k, v \o w)
  PROVE  /\ Occurs(T, k, v) /\ Occurs(T, k + Len(v), w)
         /\ k + Len(v) \in Nat /\ k + Len(v \o w) = (k + Len(v)) + Len(w)
<1>1. Len(v) \in Nat /\ Len(w) \in Nat /\ Len(T) \in Nat /\ Len(v \o w) = Len(v) + Len(w)
  BY LenProperties, ConcatProperties
<1>2. \A j \in 1 .. Len(v) : T[k + j] = v[j]
  <2> TAKE j \in 1 .. Len(v)
  <2>1. j \in 1 .. Len(v \o w) /\ j \in 1 .. Len(v) + Len(w) /\ j <= Len(v)
    BY <1>1
  <2>2. (v \o w)[j] = v[j]
    BY <2>1, ConcatProperties
  <2>3. T[k + j] = (v \o w)[j]
    BY <2>1 DEF Occurs
  <2>. QED
    BY <2>2, <2>3
<1>3. \A j \in 1 .. Len(w) : T[(k + Len(v)) + j] = w[j]
  <2> TAKE j \in 1 .. Len(w)
  <2> DEFINE i == Len(v) + j
  <2>1. i \in 1 .. Len(v \o w) /\ i \in 1 .. Len(v) + Len(w) /\ ~(i <= Len(v)) /\ i - Len(v) = j
        /\ k + i = (k + Len(v)) + j
    BY <1>1
  <2> HIDE DEF i
  <2>2. (v \o w)[i] = w[i - Len(v)]
    BY <2>1, ConcatProperties
  <2>3. T[k + i] = (v \o w)[i]
    BY <2>1 DEF Occurs
  <2>. QED
    BY <2>1, <2>2, <2>3
<1>4. k + Len(v \o w) <= Len(T)
  BY DEF Occurs
<1>5. /\ k + Len(v) \in Nat /\ k + Len(v \o w) = (k + Len(v)) + Len(w)
      /\ k + Len(v) <= Len(T) /\ (k + Len(v)) + Len(w) <= Len(T)
  BY <1>1, <1>4
<1>6. Occurs(T, k, v)
  BY <1>2, <1>5, Zenon DEF Occurs
<1>7. Occurs(T, k + Len(v), w)
  BY <1>3, <1>5, Zenon DEF Occurs
<1>. QED
  BY <1>5, <1>6, <1>7

(* Three texts joined either way.                                          *)
LEMMA ThreeTexts == \A x, y, z \in Seq(Int) : (x \o y) \o z = x \o (y \o z)
<1>1. ASSUME NEW S, NEW x \in Seq(S), NEW y \in Seq(S), NEW z \in Seq(S)
      PROVE  (x \o y) \o z = x \o (y \o z)
  BY ConcatAssociative
<1> TAKE x, y, z \in Seq(Int)
<1>. QED
  BY <1>1, SMTT(30)

(* One text and then another.                                              *)
LEMMA ReadsThen ==
  ASSUME NEW R, NEW a, NEW b, NEW c,
         NEW v \in Seq(Byte), NEW w \in Seq(Byte), NEW m \in Seq(Int), NEW n \in Seq(Int),
         Reads(R, a, v, m, b), Reads(R, b, w, n, c)
  PROVE  Reads(R, a, v \o w, m \o n, c)
<1> SUFFICES ASSUME NEW T \in Seq(Byte), NEW k \in Nat, NEW out \in Seq(Int),
                    Occurs(T, k, v \o w), IsAt(R, T, k, a, out)
             PROVE  IsAt(R, T, k + Len(v \o w), c, out \o (m \o n))
  BY Zenon DEF Reads
<1>1. /\ Occurs(T, k, v) /\ Occurs(T, k + Len(v), w)
      /\ k + Len(v) \in Nat /\ k + Len(v \o w) = (k + Len(v)) + Len(w)
  BY OccursParts
<1>2. IsAt(R, T, k + Len(v), b, out \o m)
  BY <1>1 DEF Reads
<1>3. out \o m \in Seq(Int) /\ (out \o m) \o n = out \o (m \o n)
  <2>1. out \o m \in Seq(Int)
    BY ConcatProperties
  <2>2. (out \o m) \o n = out \o (m \o n)
    BY ThreeTexts
  <2>. QED
    BY <2>1, <2>2
<1> DEFINE l == k + Len(v)
           q == out \o m
<1>4. IsAt(R, T, l + Len(w), c, q \o n)
  <2>1. l \in Nat /\ q \in Seq(Int) /\ Occurs(T, l, w) /\ IsAt(R, T, l, b, q)
    BY <1>1, <1>2, <1>3
  <2> HIDE DEF l, q
  <2>. QED
    BY <2>1 DEF Reads
<1>. QED
  BY <1>1, <1>3, <1>4

(* No text at all.                                                         *)
LEMMA ReadsNothing ==
  ASSUME NEW R, NEW a
  PROVE  Reads(R, a, <<>>, <<>>, a)
<1> SUFFICES ASSUME NEW T \in Seq(Byte), NEW k \in Nat, NEW out \in Seq(Int),
                    IsAt(R, T, k, a, out)
             PROVE  IsAt(R, T, k + Len(<<>>), a, out \o <<>>)
  BY DEF Reads
<1>1. k + Len(<<>>) = k /\ out \o <<>> = out
  OBVIOUS
<1>. QED
  BY <1>1

(* It does, and it and what it shows are texts.                           *)
Spells(R, a, w, m, b) == w \in Seq(Byte) /\ m \in Seq(Int) /\ Reads(R, a, w, m, b)

(* One and then another.                                                   *)
LEMMA SpellsThen ==
  \A R, a, b, c, v, w, m, n :
    Spells(R, a, v, m, b) /\ Spells(R, b, w, n, c) => Spells(R, a, v \o w, m \o n, c)
<1> SUFFICES ASSUME NEW R, NEW a, NEW b, NEW c, NEW v, NEW w, NEW m, NEW n,
                    Spells(R, a, v, m, b), Spells(R, b, w, n, c)
             PROVE  Spells(R, a, v \o w, m \o n, c)
  OBVIOUS
<1>1. /\ v \in Seq(Byte) /\ m \in Seq(Int) /\ Reads(R, a, v, m, b)
      /\ w \in Seq(Byte) /\ n \in Seq(Int) /\ Reads(R, b, w, n, c)
  BY Zenon DEF Spells
<1>2. v \o w \in Seq(Byte)
  BY <1>1, ConcatProperties
<1>3. m \o n \in Seq(Int)
  BY <1>1, ConcatProperties
<1>4. Reads(R, a, v \o w, m \o n, c)
  BY <1>1, ReadsThen
<1>. QED
  BY <1>2, <1>3, <1>4, Zenon DEF Spells

(* And none.                                                               *)
LEMMA SpellsNothing == \A R, a : Spells(R, a, <<>>, <<>>, a)
  BY ReadsNothing DEF Spells

(* A text is built byte by byte.                                           *)
LEMMA Prefixes ==
  \A s \in Seq(Byte) :
    /\ SubSeq(s, 1, 0) = <<>> /\ SubSeq(s, 1, Len(s)) = s /\ Len(s) \in Nat
    /\ \A k \in 0 .. Len(s) - 1 : /\ SubSeq(s, 1, k + 1) = SubSeq(s, 1, k) \o <<s[k + 1]>>
                                  /\ s[k + 1] \in Byte
<1> TAKE s \in Seq(Byte)
<1>1. Len(s) \in Nat /\ \A i \in 1 .. Len(s) : s[i] \in Byte
  BY ElementOfSeq, LenProperties
<1> HIDE DEF Byte
<1>2. SubSeq(s, 1, 0) = <<>> /\ SubSeq(s, 1, Len(s)) = s
  BY <1>1
<1>3. ASSUME NEW k \in 0 .. Len(s) - 1
      PROVE  SubSeq(s, 1, k + 1) = SubSeq(s, 1, k) \o <<s[k + 1]>> /\ s[k + 1] \in Byte
  BY <1>1
<1>. QED
  BY <1>1, <1>2, <1>3

(* A text is read as it is when each of its bytes is.                      *)
LEMMA SpellsPlainly ==
  ASSUME NEW R, NEW a, NEW s \in Seq(Byte),
         \A i \in 1 .. Len(s) : Spells(R, a, <<s[i]>>, <<s[i]>>, a)
  PROVE  Spells(R, a, s, s, a)
<1> DEFINE n == Len(s)
           S == {k \in 0 .. n : Spells(R, a, SubSeq(s, 1, k), SubSeq(s, 1, k), a)}
<1>1. n \in Nat /\ SubSeq(s, 1, 0) = <<>> /\ SubSeq(s, 1, n) = s
  BY Prefixes
<1>2. 0 \in S
  <2>1. Spells(R, a, SubSeq(s, 1, 0), SubSeq(s, 1, 0), a)
    BY <1>1, SpellsNothing
  <2>2. 0 \in 0 .. n
    BY <1>1
  <2>. QED
    BY <2>1, <2>2
<1>3. ASSUME NEW k \in 0 .. n - 1, k \in S PROVE k + 1 \in S
  <2>1. k + 1 \in 1 .. n /\ k + 1 \in 0 .. n
    BY <1>1
  <2>2. SubSeq(s, 1, k + 1) = SubSeq(s, 1, k) \o <<s[k + 1]>>
    BY Prefixes
  <2>3. Spells(R, a, <<s[k + 1]>>, <<s[k + 1]>>, a)
    BY <2>1
  <2>4. Spells(R, a, SubSeq(s, 1, k), SubSeq(s, 1, k), a)
    BY <1>3
  <2>5. Spells(R, a, SubSeq(s, 1, k + 1), SubSeq(s, 1, k + 1), a)
    BY <2>2, <2>3, <2>4, SpellsThen
  <2>. QED
    BY <2>1, <2>5
<1> HIDE DEF S
<1>4. \A k \in 0 .. n : k \in S
  BY ONLY <1>1, <1>2, <1>3, Induction
<1>5. n \in S
  BY <1>1, <1>4
<1>. QED
  BY <1>1, <1>5 DEF S

(* For the readers of JSON, out of a string and within one, and of CSV.    *)
JsonAt ==
  {p \in Seq(Byte) \X Nat \X {"outside", "inside"} \X Seq(Int) :
     JsonAfter(p[1])[p[2]] = JsonState(p[3], 0, 0, p[4])}

CsvAt ==
  {p \in Seq(Byte) \X Nat \X {"start", "within", "quoted", "behind"} \X Seq(Int) :
     CsvAfter(p[1])[p[2]] = CsvState(p[3], p[4])}

(* That a reader is there, said of its state.                              *)
LEMMA AtJson ==
  ASSUME NEW T \in Seq(Byte), NEW k \in Nat, NEW a \in {"outside", "inside"}, NEW out \in Seq(Int)
  PROVE  IsAt(JsonAt, T, k, a, out) <=> JsonAfter(T)[k] = JsonState(a, 0, 0, out)
  BY DEF IsAt, JsonAt

LEMMA AtCsv ==
  ASSUME NEW T \in Seq(Byte), NEW k \in Nat, NEW a \in {"start", "within", "quoted", "behind"},
         NEW out \in Seq(Int)
  PROVE  IsAt(CsvAt, T, k, a, out) <=> CsvAfter(T)[k] = CsvState(a, out)
  BY DEF IsAt, CsvAt

(* What b does to a reader that is at a: it sees m and is at c.            *)
JsonTurns(a, b, m, c) ==
  \A out \in Seq(Int) : JsonStep(JsonState(a, 0, 0, out), b) = JsonState(c, 0, 0, out \o m)

CsvTurns(a, b, m, c) ==
  \A out \in Seq(Int) : CsvStep(CsvState(a, out), b) = CsvState(c, out \o m)

(* The next byte is the next step.                                         *)
LEMMA NextByte ==
  ASSUME NEW T \in Seq(Byte), NEW k \in Nat, NEW b, Occurs(T, k, <<b>>)
  PROVE  /\ JsonAfter(T)[k + 1] = JsonStep(JsonAfter(T)[k], b)
         /\ CsvAfter(T)[k + 1] = CsvStep(CsvAfter(T)[k], b)
         /\ Len(<<b>>) = 1
<1>1. Len(<<b>>) = 1 /\ <<b>>[1] = b /\ 1 \in 1 .. 1
  OBVIOUS
<1>2. k + 1 <= Len(T) /\ T[k + 1] = b
  BY <1>1, Zenon DEF Occurs
<1> DEFINE i == k + 1
<1>3. i \in 1 .. Len(T) /\ i - 1 = k
  BY <1>2, LenProperties
<1> HIDE DEF i
<1>4. JsonAfter(T)[i] = JsonStep(JsonAfter(T)[i - 1], T[i])
  BY <1>3, JsonReader
<1>5. CsvAfter(T)[i] = CsvStep(CsvAfter(T)[i - 1], T[i])
  BY <1>3, CsvReader
<1>. QED
  BY <1>1, <1>2, <1>3, <1>4, <1>5, Zenon DEF i

(* A byte is read as it turns the reader.                                  *)
LEMMA JsonReadsByte ==
  ASSUME NEW a \in {"outside", "inside"}, NEW b, NEW m \in Seq(Int), NEW c \in {"outside", "inside"},
         JsonTurns(a, b, m, c)
  PROVE  Reads(JsonAt, a, <<b>>, m, c)
<1> SUFFICES ASSUME NEW T \in Seq(Byte), NEW k \in Nat, NEW out \in Seq(Int),
                    Occurs(T, k, <<b>>), IsAt(JsonAt, T, k, a, out)
             PROVE  IsAt(JsonAt, T, k + Len(<<b>>), c, out \o m)
  BY DEF Reads
<1>1. JsonAfter(T)[k + 1] = JsonStep(JsonAfter(T)[k], b) /\ Len(<<b>>) = 1
  BY NextByte
<1>2. JsonAfter(T)[k] = JsonState(a, 0, 0, out)
  BY AtJson
<1>3. JsonAfter(T)[k + 1] = JsonState(c, 0, 0, out \o m)
  BY <1>1, <1>2 DEF JsonTurns
<1>4. out \o m \in Seq(Int) /\ k + 1 \in Nat
  BY ConcatProperties
<1>5. IsAt(JsonAt, T, k + 1, c, out \o m)
  BY <1>3, <1>4, AtJson
<1>. QED
  BY <1>1, <1>5

LEMMA CsvReadsByte ==
  ASSUME NEW a \in {"start", "within", "quoted", "behind"}, NEW b, NEW m \in Seq(Int),
         NEW c \in {"start", "within", "quoted", "behind"}, CsvTurns(a, b, m, c)
  PROVE  Reads(CsvAt, a, <<b>>, m, c)
<1> SUFFICES ASSUME NEW T \in Seq(Byte), NEW k \in Nat, NEW out \in Seq(Int),
                    Occurs(T, k, <<b>>), IsAt(CsvAt, T, k, a, out)
             PROVE  IsAt(CsvAt, T, k + Len(<<b>>), c, out \o m)
  BY DEF Reads
<1>1. CsvAfter(T)[k + 1] = CsvStep(CsvAfter(T)[k], b) /\ Len(<<b>>) = 1
  BY NextByte
<1>2. CsvAfter(T)[k] = CsvState(a, out)
  BY AtCsv
<1>3. CsvAfter(T)[k + 1] = CsvState(c, out \o m)
  BY <1>1, <1>2 DEF CsvTurns
<1>4. out \o m \in Seq(Int) /\ k + 1 \in Nat
  BY ConcatProperties
<1>5. IsAt(CsvAt, T, k + 1, c, out \o m)
  BY <1>3, <1>4, AtCsv
<1>. QED
  BY <1>1, <1>5

(* Appending is joining.                                                   *)
LEMMA SeenLast == \A out \in Seq(Int), x \in Int : Append(out, x) = out \o <<x>>
  OBVIOUS

(* What each byte does.                                                    *)
LEMMA JsonSteps ==
  ASSUME NEW out \in Seq(Int)
  PROVE  /\ \A b \in Byte : b >= 32 /\ b # Quote /\ b # Backslash =>
              JsonStep(JsonState("inside", 0, 0, out), b) = JsonState("inside", 0, 0, Append(out, b))
         /\ JsonStep(JsonState("outside", 0, 0, out), Quote)
              = JsonState("inside", 0, 0, Append(out, -Quote))
         /\ JsonStep(JsonState("inside", 0, 0, out), Quote)
              = JsonState("outside", 0, 0, Append(out, -Quote))
         /\ \A b \in Byte : b # Quote =>
              JsonStep(JsonState("outside", 0, 0, out), b) = JsonState("outside", 0, 0, Append(out, -b))
  BY DEF JsonStep, JsonState, Byte, Quote, Backslash

(* So a reader of JSON sees a plain byte within a string, and the signs    *)
(* without.                                                                *)
LEMMA JsonBytes ==
  /\ \A b \in Byte : b >= 32 /\ b # Quote /\ b # Backslash => JsonTurns("inside", b, <<b>>, "inside")
  /\ JsonTurns("outside", Quote, <<-Quote>>, "inside")
  /\ JsonTurns("inside", Quote, <<-Quote>>, "outside")
  /\ \A b \in Byte : b # Quote => JsonTurns("outside", b, <<-b>>, "outside")
<1>1. \A out \in Seq(Int), b \in Byte : Append(out, b) = out \o <<b>> /\ Append(out, -b) = out \o <<-b>>
  BY SeenLast DEF Byte
<1>2. Quote \in Byte
  BY DEF Quote, Byte
<1>. QED
  BY <1>1, <1>2, JsonSteps, Zenon DEF JsonTurns

LEMMA CsvSteps ==
  ASSUME NEW out \in Seq(Int)
  PROVE  /\ \A b \in Byte : b # Quote =>
              CsvStep(CsvState("quoted", out), b) = CsvState("quoted", Append(out, b))
         /\ CsvStep(CsvState("quoted", out), Quote) = CsvState("behind", out)
         /\ CsvStep(CsvState("behind", out), Quote) = CsvState("quoted", Append(out, Quote))
         /\ CsvStep(CsvState("start", out), Quote) = CsvState("quoted", out)
         /\ \A b \in Byte \ {Quote, Comma, Newline} :
              /\ CsvStep(CsvState("start", out), b) = CsvState("within", Append(out, b))
              /\ CsvStep(CsvState("within", out), b) = CsvState("within", Append(out, b))
         /\ \A b \in {Comma, Newline}, a \in {"start", "within", "behind"} :
              CsvStep(CsvState(a, out), b) = CsvState("start", Append(out, -b))
  BY DEF CsvStep, CsvState, Byte, Quote, Comma, Newline

(* So one of CSV sees a byte within quotes, one without, and the signs.    *)
LEMMA CsvBytes ==
  /\ \A b \in Byte : b # Quote => CsvTurns("quoted", b, <<b>>, "quoted")
  /\ CsvTurns("quoted", Quote, <<>>, "behind") /\ CsvTurns("behind", Quote, <<Quote>>, "quoted")
  /\ CsvTurns("start", Quote, <<>>, "quoted")
  /\ \A b \in Byte \ {Quote, Comma, Newline} :
       CsvTurns("start", b, <<b>>, "within") /\ CsvTurns("within", b, <<b>>, "within")
  /\ \A b \in {Comma, Newline}, a \in {"start", "within", "behind"} :
       CsvTurns(a, b, <<-b>>, "start")
<1>1. \A out \in Seq(Int), b \in Byte : Append(out, b) = out \o <<b>> /\ Append(out, -b) = out \o <<-b>>
  BY SeenLast DEF Byte
<1>2. Quote \in Byte /\ (\A b \in {Comma, Newline} : b \in Byte)
  BY DEF Quote, Byte, Comma, Newline
<1>3. ASSUME NEW b \in Byte, b # Quote PROVE CsvTurns("quoted", b, <<b>>, "quoted")
  <2>1. \A out \in Seq(Int) : CsvStep(CsvState("quoted", out), b) = CsvState("quoted", Append(out, b))
    BY <1>3, CsvSteps
  <2>. QED
    BY <1>1, <2>1, Zenon DEF CsvTurns
<1>4. CsvTurns("quoted", Quote, <<>>, "behind") /\ CsvTurns("start", Quote, <<>>, "quoted")
  <2>1. \A out \in Seq(Int) : out \o <<>> = out
    OBVIOUS
  <2>. QED
    BY <2>1, CsvSteps, Zenon DEF CsvTurns
<1>5. CsvTurns("behind", Quote, <<Quote>>, "quoted")
  BY <1>1, <1>2, CsvSteps, Zenon DEF CsvTurns
<1>6. ASSUME NEW b \in Byte \ {Quote, Comma, Newline}
      PROVE  CsvTurns("start", b, <<b>>, "within") /\ CsvTurns("within", b, <<b>>, "within")
  <2>1. \A out \in Seq(Int) :
          /\ CsvStep(CsvState("start", out), b) = CsvState("within", Append(out, b))
          /\ CsvStep(CsvState("within", out), b) = CsvState("within", Append(out, b))
    BY CsvSteps
  <2>2. b \in Byte
    OBVIOUS
  <2>. QED
    BY <1>1, <2>1, <2>2, Zenon DEF CsvTurns
<1>7. ASSUME NEW b \in {Comma, Newline}, NEW a \in {"start", "within", "behind"}
      PROVE  CsvTurns(a, b, <<-b>>, "start")
  <2>1. \A out \in Seq(Int) : CsvStep(CsvState(a, out), b) = CsvState("start", Append(out, -b))
    BY CsvSteps
  <2>. QED
    BY <1>1, <1>2, <2>1, Zenon DEF CsvTurns
<1>. QED
  BY <1>3, <1>4, <1>5, <1>6, <1>7

(* A longer text is read byte by byte.                                     *)
LEMMA ByteAt ==
  ASSUME NEW T \in Seq(Byte), NEW k \in Nat, NEW w \in Seq(Byte), Occurs(T, k, w),
         NEW j \in 1 .. Len(w)
  PROVE  JsonAfter(T)[k + j] = JsonStep(JsonAfter(T)[k + j - 1], w[j])
<1>1. k + Len(w) <= Len(T) /\ T[k + j] = w[j]
  BY DEF Occurs
<1> DEFINE i == k + j
<1>2. i \in 1 .. Len(T) /\ i - 1 = k + j - 1
  BY <1>1, LenProperties
<1> HIDE DEF i
<1>3. JsonAfter(T)[i] = JsonStep(JsonAfter(T)[i - 1], T[i])
  BY <1>2, JsonReader
<1>. QED
  BY <1>1, <1>2, <1>3, Zenon DEF i

(* The short escapes are undone.                                           *)
LEMMA Unescaped ==
  \A b \in DOMAIN Short :
    /\ \E e \in Escapes : e[1] = Short[b]
    /\ (CHOOSE e \in Escapes : e[1] = Short[b])[2] = b
    /\ Short[b] # 117 /\ Short[b] \in Byte /\ b \in Int
<1> TAKE b \in DOMAIN Short
<1>1. /\ \E e \in Escapes : e[1] = Short[b] /\ e[2] = b
      /\ \A e \in Escapes : e[1] = Short[b] => e[2] = b
      /\ Short[b] # 117 /\ Short[b] \in Byte /\ b \in Int
  <2>1. b \in {34, 92, 8, 12, 10, 13, 9}
    BY ShortIs
  <2>2. Short[b] = IF b = 8 THEN 98 ELSE IF b = 12 THEN 102 ELSE IF b = 10 THEN 110
                   ELSE IF b = 13 THEN 114 ELSE IF b = 9 THEN 116 ELSE b
    BY ShortIs
  <2>3. <<Short[b], b>> \in Escapes /\ <<Short[b], b>>[1] = Short[b] /\ <<Short[b], b>>[2] = b
    BY <2>1, <2>2 DEF Escapes
  <2>4. \A d, e \in Escapes : d[1] = e[1] => d[2] = e[2]
    BY DEF Escapes
  <2>5. Short[b] # 117 /\ Short[b] \in Byte /\ b \in Int
    BY <2>1, <2>2 DEF Byte
  <2>. QED
    BY <2>3, <2>4, <2>5
<1> DEFINE c == CHOOSE e \in Escapes : e[1] = Short[b]
<1>2. c \in Escapes /\ c[1] = Short[b]
  BY <1>1, Zenon
<1> HIDE DEF c
<1>3. c[2] = b
  BY <1>1, <1>2, Zenon
<1>. QED
  BY <1>1, <1>3, Zenon DEF c

(* A character with a short escape is read back.                           *)
LEMMA ReadsShort ==
  ASSUME NEW b \in DOMAIN Short
  PROVE  Reads(JsonAt, "inside", <<Backslash, Short[b]>>, <<b>>, "inside")
<1> DEFINE w == <<Backslash, Short[b]>>
<1> SUFFICES ASSUME NEW T \in Seq(Byte), NEW k \in Nat, NEW out \in Seq(Int),
                    Occurs(T, k, w), IsAt(JsonAt, T, k, "inside", out)
             PROVE  IsAt(JsonAt, T, k + Len(w), "inside", out \o <<b>>)
  BY DEF Reads
<1>1. /\ \E e \in Escapes : e[1] = Short[b]
      /\ (CHOOSE e \in Escapes : e[1] = Short[b])[2] = b
      /\ Short[b] # 117 /\ Short[b] \in Byte /\ b \in Int
  BY Unescaped
<1>2. w \in Seq(Byte) /\ Len(w) = 2 /\ w[1] = Backslash /\ w[2] = Short[b]
  BY <1>1 DEF Byte, Backslash
<1> HIDE DEF w
<1>3. JsonAfter(T)[k] = JsonState("inside", 0, 0, out)
  BY AtJson
<1>4. /\ JsonAfter(T)[k + 1] = JsonStep(JsonAfter(T)[k + 1 - 1], Backslash)
      /\ JsonAfter(T)[k + 2] = JsonStep(JsonAfter(T)[k + 2 - 1], Short[b])
      /\ k + 1 - 1 = k /\ k + 2 - 1 = k + 1
  <2> DEFINE one == 1
             two == 2
  <2>3. one \in 1 .. Len(w) /\ two \in 1 .. Len(w)
    BY <1>2
  <2> HIDE DEF one, two
  <2>1. JsonAfter(T)[k + one] = JsonStep(JsonAfter(T)[k + one - 1], w[one])
    BY <1>2, <2>3, ByteAt
  <2>2. JsonAfter(T)[k + two] = JsonStep(JsonAfter(T)[k + two - 1], w[two])
    BY <1>2, <2>3, ByteAt
  <2>. QED
    BY <1>2, <2>1, <2>2 DEF one, two
<1>5. JsonAfter(T)[k + 1] = JsonState("escaped", 0, 0, out)
  <2>1. JsonStep(JsonState("inside", 0, 0, out), Backslash) = JsonState("escaped", 0, 0, out)
    BY DEF JsonStep, JsonState, Backslash, Quote
  <2>. QED
    BY <1>3, <1>4, <2>1
<1>6. JsonAfter(T)[k + 2] = JsonState("inside", 0, 0, Append(out, b))
  <2>1. JsonStep(JsonState("escaped", 0, 0, out), Short[b]) = JsonState("inside", 0, 0, Append(out, b))
    <3> DEFINE c == (CHOOSE e \in Escapes : e[1] = Short[b])[2]
    <3>1. c = b /\ Short[b] # 117 /\ \E e \in Escapes : e[1] = Short[b]
      BY <1>1
    <3> HIDE DEF c
    <3>2. JsonStep(JsonState("escaped", 0, 0, out), Short[b]) = JsonState("inside", 0, 0, Append(out, c))
      BY <3>1 DEF JsonStep, JsonState, c
    <3>. QED
      BY <3>1, <3>2
  <2>. QED
    BY <1>4, <1>5, <2>1
<1>7. out \o <<b>> \in Seq(Int) /\ Append(out, b) = out \o <<b>> /\ k + Len(w) = k + 2 /\ k + 2 \in Nat
  BY <1>1, <1>2, SeenLast
<1>8. IsAt(JsonAt, T, k + 2, "inside", out \o <<b>>)
  BY <1>6, <1>7, AtJson
<1>. QED
  BY <1>7, <1>8

(* The digits.                                                             *)
Hexes == (48 .. 57) \union (97 .. 102)

(* The digits are those the reader takes them for.                         *)
LEMMA HexIsRead == \A n \in 0 .. 15 : Hex(n) \in Hexes /\ Hex(n) \in Byte /\ Digit(Hex(n)) = n
  BY DEF Hex, Digit, Hexes, Byte

(* What the reader makes of the digits.                                    *)
LEMMA DigitSteps ==
  ASSUME NEW out \in Seq(Int), NEW b \in Hexes, NEW v \in Nat
  PROVE  /\ JsonStep(JsonState("escaped", 0, 0, out), 117) = JsonState("digits", 4, 0, out)
         /\ \A l \in 2 .. 4 : JsonStep(JsonState("digits", l, v, out), b)
                                = JsonState("digits", l - 1, 16 * v + Digit(b), out)
         /\ 16 * v + Digit(b) < 128 =>
              JsonStep(JsonState("digits", 1, v, out), b)
                = JsonState("inside", 0, 0, Append(out, 16 * v + Digit(b)))
<1>1. JsonStep(JsonState("escaped", 0, 0, out), 117) = JsonState("digits", 4, 0, out)
  BY DEF JsonStep, JsonState
<1> DEFINE x == 16 * v + Digit(b)
<1>2. ASSUME NEW l \in 2 .. 4
      PROVE  JsonStep(JsonState("digits", l, v, out), b) = JsonState("digits", l - 1, x, out)
  BY DEF JsonStep, JsonState, Hexes
<1>3. ASSUME x < 128
      PROVE  JsonStep(JsonState("digits", 1, v, out), b) = JsonState("inside", 0, 0, Append(out, x))
  BY <1>3 DEF JsonStep, JsonState, Hexes
<1>. QED
  BY <1>1, <1>2, <1>3

(* A control is read back from its four digits.                            *)
LEMMA ReadsControl ==
  ASSUME NEW b \in 0 .. 31
  PROVE  Reads(JsonAt, "inside", <<Backslash, 117, 48, 48, Hex(b \div 16), Hex(b % 16)>>, <<b>>,
               "inside")
<1> DEFINE c == Hex(b \div 16)
           d == Hex(b % 16)
           w == <<Backslash, 117, 48, 48, c, d>>
<1>1. b = 16 * (b \div 16) + (b % 16) /\ b \div 16 \in 0 .. 1 /\ b % 16 \in 0 .. 15
  BY DivMod
<1>2. /\ c \in Hexes /\ c \in Byte /\ Digit(c) = b \div 16
      /\ d \in Hexes /\ d \in Byte /\ Digit(d) = b % 16
  BY <1>1, HexIsRead
<1>3. Backslash \in Byte /\ 117 \in Byte /\ 48 \in Byte
  BY DEF Byte, Backslash
<1> HIDE DEF c, d
<1>4. /\ w \in Seq(Byte) /\ Len(w) = 6
      /\ w[1] = Backslash /\ w[2] = 117 /\ w[3] = 48 /\ w[4] = 48 /\ w[5] = c /\ w[6] = d
  BY <1>2, <1>3
<1>a. w = <<Backslash, 117, 48, 48, Hex(b \div 16), Hex(b % 16)>>
  BY DEF c, d
<1> HIDE DEF w
<1> SUFFICES ASSUME NEW T \in Seq(Byte), NEW k \in Nat, NEW out \in Seq(Int),
                    Occurs(T, k, w), IsAt(JsonAt, T, k, "inside", out)
             PROVE  IsAt(JsonAt, T, k + Len(w), "inside", out \o <<b>>)
  BY <1>a DEF Reads
<1> DEFINE r == [j \in 0 .. 6 |-> JsonAfter(T)[k + j]]
<1>5. \A j \in 1 .. 6 : r[j] = JsonStep(r[j - 1], w[j])
  <2> TAKE j \in 1 .. 6
  <2>a. w \in Seq(Byte)
    BY <1>4
  <2>1. j \in 1 .. Len(w) /\ k + (j - 1) = k + j - 1 /\ j \in 0 .. 6 /\ j - 1 \in 0 .. 6
    BY <1>4
  <2>2. JsonAfter(T)[k + j] = JsonStep(JsonAfter(T)[k + j - 1], w[j])
    BY <2>a, <2>1, ByteAt
  <2>. QED
    BY <2>1, <2>2
<1>6. r[0] = JsonState("inside", 0, 0, out) /\ r[6] = JsonAfter(T)[k + 6]
  <2>1. JsonAfter(T)[k] = JsonState("inside", 0, 0, out)
    BY AtJson
  <2>. QED
    BY <2>1
<1> HIDE DEF r
<1>7. /\ r[1] = JsonStep(r[0], Backslash) /\ r[2] = JsonStep(r[1], 117) /\ r[3] = JsonStep(r[2], 48)
      /\ r[4] = JsonStep(r[3], 48) /\ r[5] = JsonStep(r[4], c) /\ r[6] = JsonStep(r[5], d)
  BY <1>4, <1>5
<1>8. r[1] = JsonState("escaped", 0, 0, out)
  <2>1. JsonStep(JsonState("inside", 0, 0, out), Backslash) = JsonState("escaped", 0, 0, out)
    BY DEF JsonStep, JsonState, Backslash, Quote
  <2>. QED
    BY <1>6, <1>7, <2>1
<1>9. 48 \in Hexes /\ 16 * 0 + Digit(48) = 0
  BY DEF Hexes, Digit
<1>10. r[2] = JsonState("digits", 4, 0, out)
  BY <1>7, <1>8, <1>9, DigitSteps
<1>11. r[3] = JsonState("digits", 3, 0, out)
  <2>1. JsonStep(JsonState("digits", 4, 0, out), 48) = JsonState("digits", 4 - 1, 16 * 0 + Digit(48), out)
    BY <1>9, DigitSteps
  <2>. QED
    BY <1>7, <1>9, <1>10, <2>1
<1>12. r[4] = JsonState("digits", 2, 0, out)
  <2>1. JsonStep(JsonState("digits", 3, 0, out), 48) = JsonState("digits", 3 - 1, 16 * 0 + Digit(48), out)
    BY <1>9, DigitSteps
  <2>. QED
    BY <1>7, <1>9, <1>11, <2>1
<1>13. r[5] = JsonState("digits", 1, b \div 16, out)
  <2>1. JsonStep(JsonState("digits", 2, 0, out), c) = JsonState("digits", 2 - 1, 16 * 0 + Digit(c), out)
    BY <1>2, DigitSteps
  <2>2. 16 * 0 + Digit(c) = b \div 16
    BY <1>1, <1>2
  <2>. QED
    BY <1>7, <1>12, <2>1, <2>2
<1>14. r[6] = JsonState("inside", 0, 0, Append(out, b))
  <2>1. 16 * (b \div 16) + Digit(d) = b /\ b < 128 /\ b \div 16 \in Nat
    BY <1>1, <1>2
  <2> DEFINE q == b \div 16
  <2>2. 16 * q + Digit(d) = b /\ 16 * q + Digit(d) < 128 /\ q \in Nat
    BY <2>1
  <2> HIDE DEF q
  <2>3. JsonStep(JsonState("digits", 1, q, out), d) = JsonState("inside", 0, 0, Append(out, 16 * q + Digit(d)))
    BY <1>2, <2>2, DigitSteps
  <2>. QED
    BY <1>7, <1>13, <2>2, <2>3 DEF q
<1>15. out \o <<b>> \in Seq(Int) /\ Append(out, b) = out \o <<b>> /\ k + Len(w) = k + 6 /\ k + 6 \in Nat
  BY <1>4, SeenLast
<1>16. IsAt(JsonAt, T, k + 6, "inside", out \o <<b>>)
  BY <1>6, <1>14, <1>15, AtJson
<1>. QED
  BY <1>15, <1>16

(* Every character of one byte is read back.                               *)
LEMMA ReadsAscii ==
  ASSUME NEW b \in 0 .. 127
  PROVE  Reads(JsonAt, "inside", Ascii(b), <<b>>, "inside")
<1>1. CASE b \in DOMAIN Short
  BY <1>1, ReadsShort DEF Ascii
<1>2. CASE b \notin DOMAIN Short /\ b < 32
  <2>1. b \in 0 .. 31
    BY <1>2
  <2>2. Reads(JsonAt, "inside", <<Backslash, 117, 48, 48, Hex(b \div 16), Hex(b % 16)>>, <<b>>, "inside")
    BY <2>1, ReadsControl
  <2>. QED
    BY <1>2, <2>2, Zenon DEF Ascii
<1>3. CASE b \notin DOMAIN Short /\ ~(b < 32)
  <2>1. b \in Byte /\ b \in Int /\ b >= 32 /\ b # Quote /\ b # Backslash
    BY <1>3 DEF Byte, Short
  <2>2. JsonTurns("inside", b, <<b>>, "inside")
    BY <2>1, JsonBytes
  <2>3. <<b>> \in Seq(Int)
    BY <2>1
  <2>4. Reads(JsonAt, "inside", <<b>>, <<b>>, "inside")
    BY <2>2, <2>3, JsonReadsByte
  <2>. QED
    BY <1>3, <2>4, Zenon DEF Ascii
<1>. QED
  BY <1>1, <1>2, <1>3

(* Bytes above them are read as they are.                                  *)
LEMMA ReadsHigh ==
  ASSUME NEW w \in Seq(Byte), \A i \in 1 .. Len(w) : w[i] >= 128
  PROVE  Reads(JsonAt, "inside", w, w, "inside")
<1>1. ASSUME NEW b \in Byte, b >= 128 PROVE Spells(JsonAt, "inside", <<b>>, <<b>>, "inside")
  <2>1. b \in Int /\ b >= 32 /\ b # Quote /\ b # Backslash
    BY <1>1 DEF Byte, Quote, Backslash
  <2>2. JsonTurns("inside", b, <<b>>, "inside")
    BY <2>1, JsonBytes
  <2>3. <<b>> \in Seq(Int) /\ <<b>> \in Seq(Byte)
    BY <2>1
  <2>4. Reads(JsonAt, "inside", <<b>>, <<b>>, "inside")
    BY <2>2, <2>3, JsonReadsByte
  <2>. QED
    BY <2>3, <2>4, Zenon DEF Spells
<1>2. \A i \in 1 .. Len(w) : w[i] \in Byte
  BY ElementOfSeq
<1>3. Spells(JsonAt, "inside", w, w, "inside")
  BY <1>1, <1>2, SpellsPlainly
<1>. QED
  BY <1>3, Zenon DEF Spells

(* Of bytes.                                                               *)
LEMMA ReadsLow ==
  \A b \in Byte : b < 128 => Reads(JsonAt, "inside", Ascii(b), <<b>>, "inside")
<1> TAKE b \in Byte
<1>1. ASSUME b < 128 PROVE Reads(JsonAt, "inside", Ascii(b), <<b>>, "inside")
  <2>1. b \in 0 .. 127
    BY <1>1 DEF Byte
  <2>. QED
    BY <2>1, ReadsAscii
<1>. QED
  BY <1>1

(* The bytes that follow are above them.                                   *)
LEMMA ContinuationIsHigh == \A x \in Byte : Continuation(x) => x >= 128
<1> TAKE x \in Byte
<1>1. x \in 0 .. 255
  BY DEF Byte
<1>2. Continuation(x) => x \in 128 .. 191
  BY <1>1, Continues
<1>. QED
  BY <1>2

(* What is written for a byte is read as what it means.                    *)
LEMMA ReadsWritten ==
  ASSUME NEW s \in Seq(Byte), NEW i \in 1 .. Len(s)
  PROVE  Reads(JsonAt, "inside", Written(s, i), Meaning(s, i), "inside")
<1>1. Len(s) \in Nat /\ s[i] \in 0 .. 255
  BY Elements, LenProperties
<1>2. CASE s[i] < 128
  <2>2. s[i] \in Byte
    BY ElementOfSeq
  <2>3. Meaning(s, i) = <<s[i]>>
    BY <1>2, MeaningIs, Zenon
  <2>4. Written(s, i) = Ascii(s[i])
    BY <1>2, Zenon DEF Written
  <2>. QED
    BY <1>2, <2>2, <2>3, <2>4, ReadsLow, Zenon
<1>3. CASE ~(s[i] < 128) /\ Valid(s, i)
  <2> DEFINE n == LengthOf(s[i])
             c == SubSeq(s, i, i + n - 1)
  <2>a. \A b \in Byte : ~(b < 128) => b >= 128 /\ LengthOf(b) \in Nat
    BY LengthIsNat DEF Byte
  <2>b. s[i] \in Byte
    BY ElementOfSeq
  <2>1. Meaning(s, i) = c /\ Written(s, i) = c
    <3>1. Meaning(s, i) = c
      BY <1>3, MeaningIs
    <3>2. Written(s, i) = c
      BY <1>3, Zenon DEF Written
    <3>. QED
      BY <3>1, <3>2
  <2>2. s[i] >= 128 /\ n \in Nat
    BY <1>3, <2>a, <2>b, Zenon
  <2>3. n # 0 /\ i + n - 1 <= Len(s)
    BY <1>3, SMT DEF Valid
  <2>4. \A k \in 1 .. n - 1 : Continuation(s[i + k])
    BY <1>3, SMT DEF Valid
  <2> HIDE DEF n
  <2>5. c \in Seq(Byte) /\ Len(c) = n /\ \A j \in 1 .. n : c[j] = s[i + j - 1]
    <3> DEFINE m == i + n - 1
    <3>1. i \in Int /\ m \in Int /\ m - i + 1 = n /\ i <= m /\ \A j \in i .. m : j \in 1 .. Len(s)
      BY <1>1, <2>2, <2>3
    <3> HIDE DEF m
    <3>2. \A j \in i .. m : s[j] \in Byte
      BY <3>1, ElementOfSeq
    <3>3. /\ SubSeq(s, i, m) \in Seq(Byte)
          /\ Len(SubSeq(s, i, m)) = IF i <= m THEN m - i + 1 ELSE 0
          /\ \A j \in 1 .. m - i + 1 : SubSeq(s, i, m)[j] = s[i + j - 1]
      BY <3>1, <3>2, SubSeqProperties
    <3>. QED
      BY <3>1, <3>3 DEF m
  <2> HIDE DEF c
  <2>6. ASSUME NEW j \in 1 .. n PROVE c[j] >= 128
    <3>1. CASE j = 1
      <4>1. c[1] = s[i + 1 - 1] /\ i + 1 - 1 = i
        BY <2>5, <3>1
      <4>. QED
        BY <2>2, <3>1, <4>1, Zenon
    <3>2. CASE j # 1
      <4> DEFINE k == j - 1
      <4>1. k \in 1 .. n - 1 /\ i + k \in 1 .. Len(s) /\ i + j - 1 = i + k
        BY <1>1, <2>2, <2>3, <3>2
      <4> HIDE DEF k
      <4>2. c[j] = s[i + k]
        BY <2>5, <4>1, Zenon
      <4>3. s[i + k] \in Byte
        BY <4>1, ElementOfSeq
      <4>. QED
        BY <2>4, <4>1, <4>2, <4>3, ContinuationIsHigh, Zenon
    <3>. QED
      BY <3>1, <3>2, Zenon
  <2>7. Reads(JsonAt, "inside", c, c, "inside")
    BY <2>5, <2>6, ReadsHigh, Zenon
  <2>. QED
    BY <2>1, <2>7, Zenon
<1>4. CASE ~(s[i] < 128) /\ ~Valid(s, i)
  <2> DEFINE c == <<239, 191, 189>>
  <2>1. c \in Seq(Byte) /\ \A j \in 1 .. Len(c) : c[j] >= 128
    BY DEF Byte
  <2>2. Reads(JsonAt, "inside", c, c, "inside")
    <3> HIDE DEF c
    <3>. QED
      BY <2>1, ReadsHigh
  <2>3. Meaning(s, i) = c /\ Written(s, i) = c
    <3>1. Written(s, i) = Replacement
      BY <1>4 DEF Written
    <3>2. Meaning(s, i) = <<239, 191, 189>>
      BY <1>4, MeaningIs
    <3>. QED
      BY <3>1, <3>2 DEF Replacement
  <2>. QED
    BY <2>2, <2>3, Zenon
<1>. QED
  BY <1>2, <1>3, <1>4, Zenon

(* A text of bytes is one of numbers.                                      *)
LEMMA BytesAreNumbers == \A w \in Seq(Byte) : w \in Seq(Int)
<1> TAKE w \in Seq(Byte)
<1>1. \A b \in Byte : b \in Int
  BY DEF Byte
<1>2. \A i \in 1 .. Len(w) : w[i] \in Byte
  BY ElementOfSeq
<1>3. \A i \in 1 .. Len(w) : w[i] \in Int
  BY <1>1, <1>2
<1> HIDE DEF Byte
<1>4. Len(w) \in Nat /\ w = [i \in 1 .. Len(w) |-> w[i]]
  BY LenProperties
<1>. QED
  BY <1>3, <1>4, IsASeq

(* The same, with the types.                                               *)
LEMMA SpellsWritten ==
  \A s \in Seq(Byte) : \A i \in 1 .. Len(s) :
    Spells(JsonAt, "inside", Written(s, i), Meaning(s, i), "inside")
<1> SUFFICES ASSUME NEW s \in Seq(Byte), NEW i \in 1 .. Len(s)
             PROVE  Spells(JsonAt, "inside", Written(s, i), Meaning(s, i), "inside")
  OBVIOUS
<1>1. Written(s, i) \in Seq(Byte)
  BY WrittenIsText
<1>2. Meaning(s, i) \in Seq(Int)
  BY MeaningIs, BytesAreNumbers
<1>3. Reads(JsonAt, "inside", Written(s, i), Meaning(s, i), "inside")
  BY ReadsWritten
<1>. QED
  BY <1>1, <1>2, <1>3, Zenon DEF Spells

(* Escaped, a string reads as its text.                                    *)
LEMMA SpellsEscaped ==
  ASSUME NEW s \in Seq(Byte)
  PROVE  Spells(JsonAt, "inside", Escaped(s), Text(s), "inside")
<1> DEFINE n == Len(s)
           Fine(u, v) == Spells(JsonAt, "inside", u, v, "inside")
<1>1. n \in Nat /\ \A i \in 1 .. n : Taken(s, i) \in Nat \ {0} /\ i + Taken(s, i) <= n + 1
  BY WrittenIsText, LenProperties
<1>2. PICK f : /\ Escaped(s) = f[1] /\ f[n + 1] = <<>>
               /\ \A i \in 1 .. n : f[i] = Written(s, i) \o f[i + Taken(s, i)]
  BY EscapedIs
<1>3. PICK g : /\ Text(s) = g[1] /\ g[n + 1] = <<>>
               /\ \A i \in 1 .. n : g[i] = Meaning(s, i) \o g[i + Taken(s, i)]
  BY TextIs
<1>4. \A i \in 1 .. n : Fine(Written(s, i), Meaning(s, i))
  BY SpellsWritten
<1>5. \A u, v, x, y : Fine(u, v) /\ Fine(x, y) => Fine(u \o x, v \o y)
  BY SpellsThen
<1>6. Fine(<<>>, <<>>)
  BY SpellsNothing
<1> HIDE DEF n, Fine
<1> DEFINE S == {k \in 0 .. n : \A i \in n + 1 - k .. n + 1 : Fine(f[i], g[i])}
<1>7. 0 \in S
  <2>1. 0 \in 0 .. n /\ \A i \in n + 1 - 0 .. n + 1 : i = n + 1
    BY <1>1
  <2>2. Fine(f[n + 1], g[n + 1])
    BY <1>2, <1>3, <1>6
  <2>. QED
    BY <2>1, <2>2
<1>8. ASSUME NEW k \in 0 .. n - 1, k \in S PROVE k + 1 \in S
  <2> DEFINE j == n - k
  <2>1. k + 1 \in 0 .. n /\ j \in 1 .. n
    BY <1>1
  <2>2. j + Taken(s, j) \in n + 1 - k .. n + 1
    BY <1>1, <2>1
  <2>3. Fine(f[j + Taken(s, j)], g[j + Taken(s, j)])
    BY <1>8, <2>2
  <2>4. Fine(f[j], g[j])
    <3> HIDE DEF j
    <3>1. f[j] = Written(s, j) \o f[j + Taken(s, j)] /\ g[j] = Meaning(s, j) \o g[j + Taken(s, j)]
      BY <1>2, <1>3, <2>1
    <3>2. Fine(Written(s, j), Meaning(s, j))
      BY <1>4, <2>1
    <3>. QED
      BY <1>5, <2>3, <3>1, <3>2
  <2>5. \A i \in n + 1 - (k + 1) .. n + 1 : i = j \/ i \in n + 1 - k .. n + 1
    BY <1>1
  <2>. QED
    BY <1>8, <2>1, <2>4, <2>5
<1> HIDE DEF S
<1>9. \A k \in 0 .. n : k \in S
  BY ONLY <1>1, <1>7, <1>8, Induction
<1>10. n \in 0 .. n /\ 1 \in n + 1 - n .. n + 1
  BY <1>1
<1>11. Fine(f[1], g[1])
  BY <1>9, <1>10 DEF S
<1>. QED
  BY <1>2, <1>3, <1>11 DEF Fine

(* A byte that turns the reader spells what it sees.                       *)
LEMMA SpellsByte ==
  /\ \A b \in Byte, m \in Seq(Int), a, c \in {"outside", "inside"} :
       JsonTurns(a, b, m, c) => Spells(JsonAt, a, <<b>>, m, c)
  /\ \A b \in Byte, m \in Seq(Int), a, c \in {"start", "within", "quoted", "behind"} :
       CsvTurns(a, b, m, c) => Spells(CsvAt, a, <<b>>, m, c)
<1>1. ASSUME NEW b \in Byte, NEW m \in Seq(Int), NEW a \in {"outside", "inside"},
             NEW c \in {"outside", "inside"}, JsonTurns(a, b, m, c)
      PROVE  Spells(JsonAt, a, <<b>>, m, c)
  <2>1. Reads(JsonAt, a, <<b>>, m, c)
    BY <1>1, JsonReadsByte
  <2>2. <<b>> \in Seq(Byte)
    OBVIOUS
  <2>. QED
    BY <2>1, <2>2 DEF Spells
<1>2. ASSUME NEW b \in Byte, NEW m \in Seq(Int), NEW a \in {"start", "within", "quoted", "behind"},
             NEW c \in {"start", "within", "quoted", "behind"}, CsvTurns(a, b, m, c)
      PROVE  Spells(CsvAt, a, <<b>>, m, c)
  <2>1. Reads(CsvAt, a, <<b>>, m, c)
    BY <1>2, CsvReadsByte
  <2>2. <<b>> \in Seq(Byte)
    OBVIOUS
  <2>. QED
    BY <2>1, <2>2 DEF Spells
<1>. QED
  BY <1>1, <1>2

(* For each reader.                                                        *)
JsonSpells(a, w, m, b) == Spells(JsonAt, a, w, m, b)
CsvSpells(a, w, m, b) == Spells(CsvAt, a, w, m, b)

(* In quotes, it does from without.                                        *)
LEMMA SpellsString ==
  ASSUME NEW s \in Seq(Byte)
  PROVE  JsonSpells("outside", JsonString(s), <<-Quote>> \o Text(s) \o <<-Quote>>, "outside")
<1>1. Quote \in Byte /\ <<-Quote>> \in Seq(Int)
  BY DEF Quote, Byte
<1>2. Spells(JsonAt, "outside", <<Quote>>, <<-Quote>>, "inside")
  BY <1>1, JsonBytes, SpellsByte
<1>3. Spells(JsonAt, "inside", <<Quote>>, <<-Quote>>, "outside")
  BY <1>1, JsonBytes, SpellsByte
<1>4. Spells(JsonAt, "inside", Escaped(s), Text(s), "inside")
  BY SpellsEscaped
<1>5. Spells(JsonAt, "outside", <<Quote>> \o Escaped(s), <<-Quote>> \o Text(s), "inside")
  BY <1>2, <1>4, SpellsThen
<1>. QED
  BY <1>3, <1>5, SpellsThen DEF JsonSpells, JsonString

(* Joined, texts that each show a byte show these bytes.                   *)
LEMMA SpellsPrefixes ==
  ASSUME NEW s \in Seq(Byte), NEW v \in Seq(Seq(Byte)), Len(v) = Len(s),
         \A i \in 1 .. Len(s) : Spells(CsvAt, "quoted", v[i], <<s[i]>>, "quoted")
  PROVE  Spells(CsvAt, "quoted", Joined(v, Len(s)), s, "quoted")
<1> DEFINE n == Len(s)
           S == {k \in 0 .. n : Spells(CsvAt, "quoted", Joined(v, k), SubSeq(s, 1, k), "quoted")}
<1>1. n \in Nat /\ SubSeq(s, 1, 0) = <<>> /\ SubSeq(s, 1, n) = s
  BY Prefixes
<1>2. 0 \in S
  <2>1. Joined(v, 0) = <<>>
    BY JoinedProperties
  <2>2. Spells(CsvAt, "quoted", Joined(v, 0), SubSeq(s, 1, 0), "quoted")
    BY <1>1, <2>1, SpellsNothing
  <2>3. 0 \in 0 .. n
    BY <1>1
  <2>. QED
    BY <2>2, <2>3
<1>3. ASSUME NEW k \in 0 .. n - 1, k \in S PROVE k + 1 \in S
  <2>1. k + 1 \in 1 .. n /\ (k + 1) - 1 = k /\ k + 1 \in 0 .. n
    BY <1>1
  <2>2. Joined(v, k + 1) = Joined(v, k) \o v[k + 1]
    BY <2>1, JoinedProperties
  <2>3. SubSeq(s, 1, k + 1) = SubSeq(s, 1, k) \o <<s[k + 1]>>
    BY Prefixes
  <2>4. Spells(CsvAt, "quoted", v[k + 1], <<s[k + 1]>>, "quoted")
    BY <2>1
  <2>5. Spells(CsvAt, "quoted", Joined(v, k), SubSeq(s, 1, k), "quoted")
    BY <1>3
  <2>6. Spells(CsvAt, "quoted", Joined(v, k + 1), SubSeq(s, 1, k + 1), "quoted")
    BY <2>2, <2>3, <2>4, <2>5, SpellsThen
  <2>. QED
    BY <2>1, <2>6
<1> HIDE DEF S
<1>4. \A k \in 0 .. n : k \in S
  BY ONLY <1>1, <1>2, <1>3, Induction
<1>5. n \in S
  BY <1>1, <1>4
<1>. QED
  BY <1>1, <1>5 DEF S

(* A field that needs no quotes is read as it is.                          *)
LEMMA SpellsPlain ==
  ASSUME NEW s \in Seq(Byte), ~NeedsQuotes(s)
  PROVE  \E a \in {"start", "within"} : Spells(CsvAt, "start", s, s, a)
<1> DEFINE n == Len(s)
           S == {k \in 0 .. n : \E a \in {"start", "within"} :
                                  Spells(CsvAt, "start", SubSeq(s, 1, k), SubSeq(s, 1, k), a)}
<1>1. n \in Nat /\ SubSeq(s, 1, 0) = <<>> /\ SubSeq(s, 1, n) = s
  BY Prefixes
<1>2. 0 \in S
  <2>1. Spells(CsvAt, "start", SubSeq(s, 1, 0), SubSeq(s, 1, 0), "start")
    BY <1>1, SpellsNothing
  <2>2. 0 \in 0 .. n
    BY <1>1
  <2>. QED
    BY <2>1, <2>2
<1>3. ASSUME NEW k \in 0 .. n - 1, k \in S PROVE k + 1 \in S
  <2>1. k + 1 \in 1 .. n /\ k + 1 \in 0 .. n
    BY <1>1
  <2>2. SubSeq(s, 1, k + 1) = SubSeq(s, 1, k) \o <<s[k + 1]>> /\ s[k + 1] \in Byte
    BY Prefixes
  <2> DEFINE b == s[k + 1]
  <2>3. b \in Byte \ {Quote, Comma, Newline}
    BY <2>1, <2>2 DEF NeedsQuotes
  <2>4. PICK a \in {"start", "within"} :
               Spells(CsvAt, "start", SubSeq(s, 1, k), SubSeq(s, 1, k), a)
    BY <1>3
  <2> HIDE DEF b
  <2>5. <<b>> \in Seq(Int)
    BY <2>3 DEF Byte
  <2>6. Spells(CsvAt, a, <<b>>, <<b>>, "within")
    <3>1. CsvTurns(a, b, <<b>>, "within")
      BY <2>3, CsvBytes
    <3>2. b \in Byte /\ a \in {"start", "within", "quoted", "behind"}
      BY <2>3
    <3>. QED
      BY <2>5, <3>1, <3>2, SpellsByte
  <2>7. Spells(CsvAt, "start", SubSeq(s, 1, k) \o <<b>>, SubSeq(s, 1, k) \o <<b>>, "within")
    BY <2>4, <2>6, SpellsThen
  <2>. QED
    BY <2>1, <2>2, <2>7 DEF b
<1> HIDE DEF S
<1>4. \A k \in 0 .. n : k \in S
  BY ONLY <1>1, <1>2, <1>3, Induction
<1>5. n \in S
  BY <1>1, <1>4
<1>. QED
  BY <1>1, <1>5 DEF S

(* Two quotes.                                                             *)
LEMMA TwoOfThem == <<Quote>> \o <<Quote>> = <<Quote, Quote>> /\ <<>> \o <<Quote>> = <<Quote>>
<1>1. Quote \in Int
  BY DEF Quote
<1> DEFINE q == <<Quote>>
           u == q \o q
           v == <<Quote, Quote>>
<1>2. q \in Seq(Int) /\ v \in Seq(Int) /\ Len(q) = 1 /\ Len(v) = 2
      /\ q[1] = Quote /\ v[1] = Quote /\ v[2] = Quote
  BY <1>1
<1> HIDE DEF q, v
<1>3. u \in Seq(Int) /\ Len(u) = 2 /\ \A i \in 1 .. 2 : u[i] = IF i <= 1 THEN q[i] ELSE q[i - 1]
  <2>1. /\ u \in Seq(Int) /\ Len(u) = Len(q) + Len(q)
        /\ \A i \in 1 .. Len(q) + Len(q) : u[i] = IF i <= Len(q) THEN q[i] ELSE q[i - Len(q)]
    BY <1>2, ConcatProperties
  <2> HIDE DEF u
  <2>. QED
    BY <1>2, <2>1
<1>4. \A i \in 1 .. 2 : u[i] = v[i]
  <2>1. \A i \in 1 .. 2 : i = 1 \/ (i = 2 /\ ~(i <= 1) /\ i - 1 = 1)
    OBVIOUS
  <2>. QED
    BY <1>2, <1>3, <2>1
<1> HIDE DEF u
<1>5. u = v
  BY <1>2, <1>3, <1>4, SeqEqual
<1>6. <<>> \o q = q
  BY <1>2, ConcatEmptySeq
<1>. QED
  BY <1>5, <1>6 DEF u, v, q

(* Within its quotes, a field with the quotes doubled is read as it was.   *)
LEMMA SpellsDoubled ==
  ASSUME NEW s \in Seq(Byte)
  PROVE  Spells(CsvAt, "quoted", Doubled(s), s, "quoted")
<1> DEFINE v == [i \in 1 .. Len(s) |-> IF s[i] = Quote THEN <<Quote, Quote>> ELSE <<s[i]>>]
<1>1. Quote \in Byte /\ <<Quote>> \in Seq(Int) /\ <<>> \in Seq(Int)
  BY DEF Quote, Byte
<1>2. ASSUME NEW b \in Byte
      PROVE  Spells(CsvAt, "quoted", IF b = Quote THEN <<Quote, Quote>> ELSE <<b>>, <<b>>, "quoted")
  <2>1. CASE b = Quote
    <3>1. Spells(CsvAt, "quoted", <<Quote>>, <<>>, "behind")
      BY <1>1, CsvBytes, SpellsByte
    <3>2. Spells(CsvAt, "behind", <<Quote>>, <<Quote>>, "quoted")
      BY <1>1, CsvBytes, SpellsByte
    <3>3. Spells(CsvAt, "quoted", <<Quote>> \o <<Quote>>, <<>> \o <<Quote>>, "quoted")
      BY <3>1, <3>2, SpellsThen
    <3>4. <<Quote>> \o <<Quote>> = <<Quote, Quote>> /\ <<>> \o <<Quote>> = <<Quote>>
      BY TwoOfThem
    <3>. QED
      BY <2>1, <3>3, <3>4
  <2>2. CASE b # Quote
    <3>1. <<b>> \in Seq(Int)
      BY DEF Byte
    <3>2. CsvTurns("quoted", b, <<b>>, "quoted")
      BY <2>2, CsvBytes
    <3>3. Spells(CsvAt, "quoted", <<b>>, <<b>>, "quoted")
      BY <3>1, <3>2, SpellsByte
    <3>. QED
      BY <2>2, <3>3
  <2>. QED
    BY <2>1, <2>2
<1>3. \A i \in 1 .. Len(s) : s[i] \in Byte
  BY ElementOfSeq
<1>4. \A i \in 1 .. Len(s) : Spells(CsvAt, "quoted", v[i], <<s[i]>>, "quoted")
  BY <1>2, <1>3
<1>5. v \in Seq(Seq(Byte)) /\ Len(v) = Len(s)
  <2>1. \A i \in 1 .. Len(s) : v[i] \in Seq(Byte)
    BY <1>4, Zenon DEF Spells
  <2>2. Len(s) \in Nat /\ v = [i \in 1 .. Len(s) |-> v[i]]
    BY LenProperties
  <2> HIDE DEF v, Byte
  <2>. QED
    BY <2>1, <2>2, IsASeq
<1> HIDE DEF v
<1>6. Spells(CsvAt, "quoted", Joined(v, Len(s)), s, "quoted")
  BY <1>4, <1>5, SpellsPrefixes
<1>. QED
  BY <1>6 DEF Doubled, v

(* Any field is read back, up to what ends it.                             *)
LEMMA SpellsField ==
  ASSUME NEW s \in Seq(Byte)
  PROVE  \E a \in {"start", "within", "behind"} : Spells(CsvAt, "start", CsvEscape(s), s, a)
<1>1. Quote \in Byte /\ <<>> \in Seq(Int)
  BY DEF Quote, Byte
<1>2. CASE ~NeedsQuotes(s)
  BY <1>2, SpellsPlain DEF CsvEscape
<1>3. CASE NeedsQuotes(s)
  <2>2. CsvEscape(s) = <<Quote>> \o Doubled(s) \o <<Quote>>
    BY <1>3 DEF CsvEscape
  <2>3. Spells(CsvAt, "start", <<Quote>>, <<>>, "quoted")
    BY <1>1, CsvBytes, SpellsByte
  <2>4. Spells(CsvAt, "quoted", <<Quote>>, <<>>, "behind")
    BY <1>1, CsvBytes, SpellsByte
  <2>5. Spells(CsvAt, "quoted", Doubled(s), s, "quoted")
    BY SpellsDoubled
  <2>6. Spells(CsvAt, "start", <<Quote>> \o Doubled(s), <<>> \o s, "quoted")
    BY <2>3, <2>5, SpellsThen
  <2>7. Spells(CsvAt, "start", CsvEscape(s), (<<>> \o s) \o <<>>, "behind")
    BY <2>2, <2>4, <2>6, SpellsThen
  <2>8. (<<>> \o s) \o <<>> = s
    BY ConcatEmptySeq
  <2>. QED
    BY <2>7, <2>8
<1>. QED
  BY <1>2, <1>3

(* What ends it leaves the reader at the start of the next.                *)
LEMMA SpellsEnd ==
  \A a \in {"start", "within", "behind"}, end \in {Comma, Newline} :
    Spells(CsvAt, a, <<end>>, <<-end>>, "start")
<1> TAKE a \in {"start", "within", "behind"}, end \in {Comma, Newline}
<1>1. end \in Byte /\ <<-end>> \in Seq(Int)
  BY DEF Quote, Byte, Comma, Newline
<1>2. CsvTurns(a, end, <<-end>>, "start")
  BY CsvBytes
<1>. QED
  BY <1>1, <1>2, SpellsByte

---------------------------------------------------------------------------
(* Rows.                                                                   *)

(* A flow.                                                                 *)
Fields == [hostname : Seq(Byte), process : Seq(Byte), dstIP : Seq(Byte \ {Newline, Quote, Comma})]

(* The fields are texts, and an address needs no quotes.                   *)
LEMMA FieldsAreText ==
  ASSUME NEW f \in Fields
  PROVE  /\ f.hostname \in Seq(Byte) /\ f.process \in Seq(Byte) /\ f.dstIP \in Seq(Byte)
         /\ ~NeedsQuotes(f.dstIP) /\ Host(f) \in Seq(Byte)
<1> DEFINE Plain == Byte \ {Newline, Quote, Comma}
           d == f.dstIP
<1>1. f.hostname \in Seq(Byte) /\ f.process \in Seq(Byte) /\ d \in Seq(Plain)
  BY DEF Fields
<1>2. \A b \in Plain : b \in Byte /\ b \notin {Comma, Quote, Newline}
  OBVIOUS
<1> HIDE DEF Plain, d, Byte
<1>3. Len(d) \in Nat /\ d = [i \in 1 .. Len(d) |-> d[i]] /\ \A i \in 1 .. Len(d) : d[i] \in Plain
  BY <1>1, ElementOfSeq, LenProperties
<1>4. d \in Seq(Byte)
  BY <1>2, <1>3, IsASeq
<1>5. ~NeedsQuotes(d)
  BY <1>2, <1>3 DEF NeedsQuotes
<1>. QED
  BY <1>1, <1>4, <1>5 DEF d, Host

(* A row of the CSV text is read back, field by field.                     *)
LEMMA CsvRowReadsBack ==
  ASSUME NEW f \in Fields
  PROVE  CsvSpells("start", CsvRow(f), CsvRowSeen(f), "start")
<1> DEFINE h == Host(f)
           d == f.dstIP
           p == f.process
           h1 == CsvEscape(h)
           p1 == CsvEscape(p)
<1>1. h \in Seq(Byte) /\ d \in Seq(Byte) /\ p \in Seq(Byte) /\ ~NeedsQuotes(d)
  BY FieldsAreText
<1>2. CsvRow(f) = h1 \o <<Comma>> \o d \o <<Comma>> \o p1 \o <<Newline>>
  BY DEF CsvRow
<1>3. CsvRowSeen(f) = h \o <<-Comma>> \o d \o <<-Comma>> \o p \o <<-Newline>>
  BY DEF CsvRowSeen
<1> HIDE DEF h, d, p
<1>4. PICK a \in {"start", "within", "behind"} : Spells(CsvAt, "start", h1, h, a)
  BY <1>1, SpellsField
<1>5. PICK b \in {"start", "within"} : Spells(CsvAt, "start", d, d, b)
  BY <1>1, SpellsPlain
<1>6. PICK c \in {"start", "within", "behind"} : Spells(CsvAt, "start", p1, p, c)
  BY <1>1, SpellsField
<1>7. /\ Spells(CsvAt, a, <<Comma>>, <<-Comma>>, "start")
      /\ Spells(CsvAt, b, <<Comma>>, <<-Comma>>, "start")
      /\ Spells(CsvAt, c, <<Newline>>, <<-Newline>>, "start")
  BY SpellsEnd
<1> HIDE DEF h1, p1
<1>8. Spells(CsvAt, "start", h1 \o <<Comma>>, h \o <<-Comma>>, "start")
  BY <1>4, <1>7, SpellsThen
<1>9. Spells(CsvAt, "start", h1 \o <<Comma>> \o d, h \o <<-Comma>> \o d, b)
  BY <1>5, <1>8, SpellsThen
<1>10. Spells(CsvAt, "start", h1 \o <<Comma>> \o d \o <<Comma>>,
                              h \o <<-Comma>> \o d \o <<-Comma>>, "start")
  BY <1>7, <1>9, SpellsThen
<1>11. Spells(CsvAt, "start", h1 \o <<Comma>> \o d \o <<Comma>> \o p1,
                              h \o <<-Comma>> \o d \o <<-Comma>> \o p, c)
  BY <1>6, <1>10, SpellsThen
<1>. QED
  BY <1>2, <1>3, <1>7, <1>11, SpellsThen DEF CsvSpells

(* The signs between strings are read as such.                             *)
LEMMA SpellsSign ==
  \A x \in {Comma, List.open, List.close, Object.open, Object.close} :
    JsonSpells("outside", <<x>>, <<-x>>, "outside")
<1> TAKE x \in {Comma, List.open, List.close, Object.open, Object.close}
<1>1. x \in Byte /\ x # Quote /\ <<-x>> \in Seq(Int)
  BY DEF Byte, Quote, Comma, List, Object
<1>2. JsonTurns("outside", x, <<-x>>, "outside")
  BY <1>1, JsonBytes
<1>. QED
  BY <1>1, <1>2, SpellsByte DEF JsonSpells

(* An object of the JSON text is read back, string by string.              *)
LEMMA JsonRowReadsBack ==
  ASSUME NEW f \in Fields, NEW first \in BOOLEAN
  PROVE  JsonSpells("outside", JsonRow(f, first), JsonRowSeen(f, first), "outside")
<1> DEFINE Fine(v, m) == JsonSpells("outside", v, m, "outside")
           seen(s) == <<-Quote>> \o Text(s) \o <<-Quote>>
           c == <<Comma>>
           x == <<-Comma>>
           d == JsonString(f.dstIP)
           h == JsonString(f.hostname)
           p == JsonString(f.process)
           d1 == seen(f.dstIP)
           h1 == seen(f.hostname)
           p1 == seen(f.process)
           o == <<Object.open>>
           o1 == <<-Object.open>>
           e == <<Object.close>>
           e1 == <<-Object.close>>
           z == IF first THEN <<>> ELSE c
           z1 == IF first THEN <<>> ELSE x
<1>1. JsonRow(f, first) = z \o o \o d \o c \o h \o c \o p \o e
  BY DEF JsonRow
<1>2. JsonRowSeen(f, first) = z1 \o o1 \o d1 \o x \o h1 \o x \o p1 \o e1
  BY DEF JsonRowSeen
<1>3. f.hostname \in Seq(Byte) /\ f.process \in Seq(Byte) /\ f.dstIP \in Seq(Byte)
  BY FieldsAreText
<1>4. Fine(d, d1) /\ Fine(h, h1) /\ Fine(p, p1)
  BY <1>3, SpellsString
<1>5. Fine(c, x) /\ Fine(o, o1) /\ Fine(e, e1)
  BY SpellsSign
<1>6. Fine(z, z1)
  BY <1>5, SpellsNothing DEF JsonSpells
<1>7. \A v, m, w, n : Fine(v, m) /\ Fine(w, n) => Fine(v \o w, m \o n)
  BY SpellsThen DEF JsonSpells
<1> HIDE DEF Fine, c, x, d, h, p, d1, h1, p1, o, o1, e, e1, z, z1
<1>8. Fine(z \o o \o d, z1 \o o1 \o d1)
  BY <1>4, <1>5, <1>6, <1>7
<1>9. Fine(z \o o \o d \o c \o h, z1 \o o1 \o d1 \o x \o h1)
  BY <1>4, <1>5, <1>7, <1>8
<1>10. Fine(z \o o \o d \o c \o h \o c \o p, z1 \o o1 \o d1 \o x \o h1 \o x \o p1)
  BY <1>4, <1>5, <1>7, <1>9
<1>11. Fine(JsonRow(f, first), JsonRowSeen(f, first))
  BY <1>1, <1>2, <1>5, <1>7, <1>10
<1>. QED
  BY <1>11 DEF Fine

(* What the reader makes of a whole text.                                  *)
LEMMA ReadersSee ==
  ASSUME NEW w, NEW m
  PROVE  /\ CsvSpells("start", w, m, "start") => ReadCsv(w) = m
         /\ JsonSpells("outside", w, m, "outside") => ReadJson(w) = m
<1>1. ASSUME w \in Seq(Byte), m \in Seq(Int)
      PROVE  Occurs(w, 0, w) /\ 0 + Len(w) = Len(w) /\ Len(w) \in Nat /\ <<>> \o m = m
             /\ \A i \in 1 .. Len(w) : 0 + i = i
  <2>1. Len(w) \in Nat /\ <<>> \o m = m
    BY <1>1, LenProperties, ConcatEmptySeq
  <2>2. 0 + Len(w) = Len(w) /\ \A i \in 1 .. Len(w) : 0 + i = i
    BY <2>1
  <2>. QED
    BY <2>1, <2>2 DEF Occurs
<1>2. ASSUME CsvSpells("start", w, m, "start") PROVE ReadCsv(w) = m
  <2>1. w \in Seq(Byte) /\ m \in Seq(Int) /\ Reads(CsvAt, "start", w, m, "start")
    BY <1>2, Zenon DEF CsvSpells, Spells
  <2>2. CsvAfter(w)[0] = CsvState("start", <<>>)
    BY <2>1, CsvReader
  <2>3. IsAt(CsvAt, w, 0, "start", <<>>)
    BY <2>1, <2>2, EmptySeq, AtCsv
  <2>4. IsAt(CsvAt, w, 0 + Len(w), "start", <<>> \o m)
    <3>1. Occurs(w, 0, w) /\ 0 \in Nat /\ <<>> \in Seq(Int)
      BY <1>1, <2>1
    <3>. QED
      BY <2>1, <2>3, <3>1, Zenon DEF Reads
  <2>5. IsAt(CsvAt, w, Len(w), "start", m) /\ Len(w) \in Nat
    BY <1>1, <2>1, <2>4
  <2>6. CsvAfter(w)[Len(w)] = CsvState("start", m)
    BY <2>1, <2>5, AtCsv
  <2>. QED
    BY <2>6 DEF ReadCsv, CsvState
<1>3. ASSUME JsonSpells("outside", w, m, "outside") PROVE ReadJson(w) = m
  <2>1. w \in Seq(Byte) /\ m \in Seq(Int) /\ Reads(JsonAt, "outside", w, m, "outside")
    BY <1>3, Zenon DEF JsonSpells, Spells
  <2>2. JsonAfter(w)[0] = JsonState("outside", 0, 0, <<>>)
    BY <2>1, JsonReader
  <2>3. IsAt(JsonAt, w, 0, "outside", <<>>)
    BY <2>1, <2>2, EmptySeq, AtJson
  <2>4. IsAt(JsonAt, w, 0 + Len(w), "outside", <<>> \o m)
    <3>1. Occurs(w, 0, w) /\ 0 \in Nat /\ <<>> \in Seq(Int)
      BY <1>1, <2>1
    <3>. QED
      BY <2>1, <2>3, <3>1, Zenon DEF Reads
  <2>5. IsAt(JsonAt, w, Len(w), "outside", m) /\ Len(w) \in Nat
    BY <1>1, <2>1, <2>4
  <2>6. JsonAfter(w)[Len(w)] = JsonState("outside", 0, 0, m)
    BY <2>1, <2>5, AtJson
  <2>. QED
    BY <2>6 DEF ReadJson, JsonState
<1>. QED
  BY <1>2, <1>3

(* What they should see, row by row.                                       *)
LEMMA SeenRowByRow ==
  ASSUME NEW list \in Seq(Fields)
  PROVE  /\ CsvSeen(list, 0) = <<>> /\ JsonSeen(list, 0) = <<-List.open>>
         /\ \A n \in 0 .. Len(list) - 1 :
              /\ CsvSeen(list, n + 1) = CsvSeen(list, n) \o CsvRowSeen(list[n + 1])
              /\ JsonSeen(list, n + 1) = JsonSeen(list, n) \o JsonRowSeen(list[n + 1], n = 0)
<1> DEFINE l == Len(list)
           c == [i \in 1 .. l |-> CsvRowSeen(list[i])]
           j == [i \in 1 .. l |-> JsonRowSeen(list[i], i = 1)]
           open == <<-List.open>>
<1>1. l \in Nat /\ \A i \in 1 .. l : list[i] \in Fields
  BY ElementOfSeq, LenProperties
<1>2. \A i \in 1 .. l : c[i] = CsvRowSeen(list[i]) /\ j[i] = JsonRowSeen(list[i], i = 1)
  OBVIOUS
<1>3. \A i \in 1 .. l : CsvRowSeen(list[i]) \in Seq(Int)
  BY <1>1, CsvRowReadsBack DEF CsvSpells, Spells
<1>4. \A i \in 1 .. l : JsonRowSeen(list[i], i = 1) \in Seq(Int)
  BY <1>1, JsonRowReadsBack DEF JsonSpells, Spells
<1>5. \A n : CsvSeen(list, n) = Joined(c, n) /\ JsonSeen(list, n) = open \o Joined(j, n)
  BY DEF CsvSeen, JsonSeen
<1>6. open \in Seq(Int)
  BY DEF List
<1> HIDE DEF l, open
<1>7. c \in Seq(Seq(Int)) /\ Len(c) = l
  BY <1>1, <1>3
<1>8. j \in Seq(Seq(Int)) /\ Len(j) = l
  BY <1>1, <1>4
<1> HIDE DEF c, j
<1>9. /\ Joined(c, 0) = <<>>
      /\ \A i \in 1 .. l : Joined(c, i) = Joined(c, i - 1) \o c[i]
  BY <1>7, JoinedProperties
<1>10. /\ Joined(j, 0) = <<>>
       /\ \A i \in 1 .. l : Joined(j, i) = Joined(j, i - 1) \o j[i]
       /\ \A i \in 0 .. l : Joined(j, i) \in Seq(Int)
  BY <1>8, JoinedProperties
<1>11. CsvSeen(list, 0) = <<>> /\ JsonSeen(list, 0) = open
  <2>1. open \o <<>> = open
    BY <1>6, ConcatEmptySeq
  <2>. QED
    BY <1>5, <1>9, <1>10, <2>1
<1>12. ASSUME NEW n \in 0 .. l - 1
       PROVE  /\ CsvSeen(list, n + 1) = CsvSeen(list, n) \o CsvRowSeen(list[n + 1])
              /\ JsonSeen(list, n + 1) = JsonSeen(list, n) \o JsonRowSeen(list[n + 1], n = 0)
  <2> DEFINE i == n + 1
  <2>1. i \in 1 .. l /\ i - 1 = n /\ n \in 0 .. l /\ ((i = 1) <=> (n = 0))
    BY <1>1
  <2>a. ((i = 1) = (n = 0))
    BY <2>1
  <2> HIDE DEF i
  <2>2. Joined(c, i) = Joined(c, n) \o c[i] /\ Joined(j, i) = Joined(j, n) \o j[i]
    BY <1>9, <1>10, <2>1
  <2>3. c[i] = CsvRowSeen(list[i]) /\ j[i] = JsonRowSeen(list[i], n = 0)
    BY <1>2, <2>1, <2>a
  <2>4. Joined(j, n) \in Seq(Int) /\ j[i] \in Seq(Int)
    <3>1. j[i] = JsonRowSeen(list[i], i = 1)
      BY <1>2, <2>1
    <3>. QED
      BY <1>4, <1>10, <2>1, <3>1
  <2>5. open \o (Joined(j, n) \o j[i]) = (open \o Joined(j, n)) \o j[i]
    BY <1>6, <2>4, ThreeTexts
  <2>6. CsvSeen(list, i) = CsvSeen(list, n) \o CsvRowSeen(list[i])
    BY <1>5, <2>2, <2>3
  <2>7. JsonSeen(list, i) = JsonSeen(list, n) \o JsonRowSeen(list[i], n = 0)
    BY <1>5, <2>2, <2>3, <2>5
  <2>. QED
    BY <2>6, <2>7 DEF i
<1>. QED
  BY <1>11, <1>12 DEF l, open

(* The text so far shows a reader the rows written, and leaves it ready    *)
(* for the next.                                                           *)
XInv ==
  /\ exported \in Seq(Fields) /\ rows \in 0 .. Len(exported)
  /\ complete => rows = Len(exported)
  /\ format = "csv" => CsvSpells("start", document, CsvSeen(exported, rows), "start")
  /\ format # "csv" /\ ~complete =>
       JsonSpells("outside", document, JsonSeen(exported, rows), "outside")
  /\ format # "csv" /\ complete =>
       JsonSpells("outside", document, Append(JsonSeen(exported, rows), -List.close), "outside")

(* It holds at the start,                                                  *)
LEMMA XInvInit == XInit => XInv
<1> SUFFICES ASSUME XInit PROVE XInv
  OBVIOUS
<1>1. exported \in Seq(Fields)
  BY FlowsAssumption DEF XInit, Fields
<1>2. rows = 0 /\ 0 \in 0 .. Len(exported) /\ ~complete
  BY <1>1, LenProperties DEF XInit
<1>3. format = "csv" => CsvSpells("start", document, CsvSeen(exported, rows), "start")
  BY <1>1, <1>2, SeenRowByRow, SpellsNothing DEF XInit, CsvSpells
<1>4. format # "csv" => JsonSpells("outside", document, JsonSeen(exported, rows), "outside")
  BY <1>1, <1>2, SeenRowByRow, SpellsSign DEF XInit
<1>. QED
  BY <1>1, <1>2, <1>3, <1>4 DEF XInv

(* and every row keeps it.                                                 *)
LEMMA XInvNext == XInv /\ [XNext]_xvars => XInv'
<1> SUFFICES ASSUME XInv, [XNext]_xvars PROVE XInv'
  OBVIOUS
<1>1. CASE WriteRow
  <2> DEFINE f == exported[rows + 1]
  <2>1. /\ exported' = exported /\ format' = format /\ complete' = complete /\ rows' = rows + 1
        /\ exported \in Seq(Fields) /\ rows \in 0 .. Len(exported) - 1 /\ Len(exported) \in Nat
        /\ rows + 1 \in 1 .. Len(exported) /\ ~complete
        /\ document' = document \o (IF format = "csv" THEN CsvRow(f) ELSE JsonRow(f, rows = 0))
    <3>1. Len(exported) \in Nat
      BY LenProperties DEF XInv
    <3>. QED
      BY <1>1, <3>1 DEF WriteRow, XInv
  <2>2. f \in Fields
    BY <2>1, ElementOfSeq
  <2>3. /\ CsvSeen(exported, rows + 1) = CsvSeen(exported, rows) \o CsvRowSeen(f)
        /\ JsonSeen(exported, rows + 1) = JsonSeen(exported, rows) \o JsonRowSeen(f, rows = 0)
    BY <2>1, SeenRowByRow
  <2> HIDE DEF f
  <2>4. ASSUME format = "csv"
        PROVE  CsvSpells("start", document', CsvSeen(exported', rows'), "start")
    <3>1. CsvSpells("start", document, CsvSeen(exported, rows), "start")
      BY <2>4 DEF XInv
    <3>2. CsvSpells("start", CsvRow(f), CsvRowSeen(f), "start")
      BY <2>2, CsvRowReadsBack
    <3>3. CsvSpells("start", document \o CsvRow(f), CsvSeen(exported, rows) \o CsvRowSeen(f), "start")
      BY <3>1, <3>2, SpellsThen DEF CsvSpells
    <3>. QED
      BY <2>1, <2>3, <2>4, <3>3
  <2>5. ASSUME format # "csv"
        PROVE  JsonSpells("outside", document', JsonSeen(exported', rows'), "outside")
    <3> DEFINE first == rows = 0
    <3>1. JsonSpells("outside", document, JsonSeen(exported, rows), "outside")
      BY <2>1, <2>5 DEF XInv
    <3>2. JsonSpells("outside", JsonRow(f, first), JsonRowSeen(f, first), "outside")
      <4>1. first \in BOOLEAN
        OBVIOUS
      <4> HIDE DEF first
      <4>. QED
        BY <2>2, <4>1, JsonRowReadsBack
    <3>3. JsonSpells("outside", document \o JsonRow(f, first),
                     JsonSeen(exported, rows) \o JsonRowSeen(f, first), "outside")
      BY <3>1, <3>2, SpellsThen DEF JsonSpells
    <3>. QED
      BY <2>1, <2>3, <2>5, <3>3
  <2>6. rows' \in 0 .. Len(exported')
    BY <2>1
  <2>. QED
    BY <2>1, <2>4, <2>5, <2>6 DEF XInv
<1>2. CASE EndDocument
  <2>1. /\ exported' = exported /\ format' = format /\ rows' = rows /\ complete'
        /\ ~complete /\ rows = Len(exported)
        /\ document' = IF format = "csv" THEN document ELSE Append(document, List.close)
    BY <1>2 DEF EndDocument
  <2>2. ASSUME format # "csv"
        PROVE  JsonSpells("outside", document', Append(JsonSeen(exported, rows), -List.close),
                          "outside")
    <3>1. JsonSpells("outside", document, JsonSeen(exported, rows), "outside")
      BY <2>1, <2>2 DEF XInv
    <3>2. JsonSpells("outside", <<List.close>>, <<-List.close>>, "outside")
      BY SpellsSign
    <3>3. JsonSpells("outside", document \o <<List.close>>,
                     JsonSeen(exported, rows) \o <<-List.close>>, "outside")
      BY <3>1, <3>2, SpellsThen DEF JsonSpells
    <3>4. document \in Seq(Int) /\ JsonSeen(exported, rows) \in Seq(Int)
      BY <3>1, BytesAreNumbers DEF JsonSpells, Spells
    <3>5. List.close \in Int /\ -List.close \in Int
      BY DEF List
    <3>6. Append(document, List.close) = document \o <<List.close>>
      BY <3>4, <3>5, SeenLast
    <3>7. Append(JsonSeen(exported, rows), -List.close) = JsonSeen(exported, rows) \o <<-List.close>>
      BY <3>4, <3>5, SeenLast
    <3>. QED
      BY <2>1, <2>2, <3>3, <3>6, <3>7
  <2>. QED
    BY <2>1, <2>2 DEF XInv
<1>3. CASE Ended \/ UNCHANGED xvars
  BY <1>3 DEF Ended, xvars, XInv
<1>. QED
  BY <1>1, <1>2, <1>3 DEF XNext

(* ExportReadsBack, for all flows and whatever bytes their names hold: a   *)
(* reader of the CSV text gets every field back, and one of the JSON text  *)
(* every character, with U+FFFD for each byte that is of none; no field    *)
(* breaks the record, or the next.                                         *)
THEOREM ExportsReadBack == XSpec => []ExportReadsBack
<1>1. XInit => XInv
  BY XInvInit
<1>2. XInv /\ [XNext]_xvars => XInv'
  BY XInvNext
<1>3. XInv => ExportReadsBack
  <2> SUFFICES ASSUME XInv, complete PROVE ExportReadsBack
    BY DEF ExportReadsBack
  <2>1. rows = Len(exported)
    BY DEF XInv
  <2>2. format = "csv" => ReadCsv(document) = CsvSeen(exported, Len(exported))
    BY <2>1, ReadersSee DEF XInv
  <2>3. format # "csv" =>
          ReadJson(document) = Append(JsonSeen(exported, Len(exported)), -List.close)
    BY <2>1, ReadersSee DEF XInv
  <2>. QED
    BY <2>2, <2>3 DEF ExportReadsBack
<1>. QED
  BY <1>1, <1>2, <1>3, PTL DEF XSpec
===============================================================================
