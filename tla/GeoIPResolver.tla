--------------------------- MODULE GeoIPResolver ---------------------------
(***************************************************************************)
(* core::GeoIPResolver (src/core/GeoIPResolver.cpp): the country and the   *)
(* network of an address, read from two databases that are looked for in   *)
(* two places, behind a cache that keeps the addresses used last.          *)
(*                                                                         *)
(* The cache is a std::list of nodes and a map of iterators into it.  An   *)
(* iterator is modelled as the number of the node it points at; a new node *)
(* gets a number that is free, that of an erased node again.               *)
(***************************************************************************)
EXTENDS Integers, Sequences

CONSTANTS
  Addresses,
  CacheCapacity,  (* as the constructor is given it                        *)
  Situations      (* what the two places hold: [Places -> [Kinds -> File]] *)

Places == {"primary", "legacy"}
Kinds  == {"country", "asn"}
File   == {"missing", "unreadable", "database"}

ASSUME GeoAssumption ==
  /\ CacheCapacity \in Nat
  /\ Situations \subseteq [Places -> [Kinds -> File]]

VARIABLES
  files,       (* what the two places hold, fixed                          *)
  opened,      (* m_database: the place and the databases opened there     *)
  cache,       (* m_cache, the most recent first                           *)
  cacheIndex,  (* m_cacheIndex: address -> node                            *)
  recency      (* history: all addresses looked up, the last one first     *)

geo == <<files, opened, cache, cacheIndex, recency>>

Capacity == IF CacheCapacity > 0 THEN CacheCapacity ELSE 1
Nodes    == 1 .. Capacity + 1

---------------------------------------------------------------------------
(* Database(): each of the two is opened on its own.                       *)
Opens(f, place)  == {k \in Kinds : f[place][k] = "database"}
Exists(f, place) == \E k \in Kinds : f[place][k] # "missing"

(* The place the constructor settles on.                                   *)
Located(f) ==
  IF Exists(f, "primary") /\ Opens(f, "primary") # {} THEN "primary"
  ELSE IF Exists(f, "legacy") /\ Opens(f, "legacy") # {} THEN "legacy"
  ELSE "primary"

(* What the open databases say of an address: the facts of each kind.      *)
Query(ip) == {<<k, opened.place, ip>> : k \in opened.kinds}

GeoInit ==
  /\ files \in Situations
  /\ opened = [place |-> Located(files), kinds |-> Opens(files, Located(files))]
  /\ cache = <<>> /\ cacheIndex = [ip \in {} |-> 0] /\ recency = <<>>

---------------------------------------------------------------------------
(* s with its p-th element first; with e before it.                        *)
ToFront(s, p) ==
  [i \in 1 .. Len(s) |-> IF i = 1 THEN s[p] ELSE IF i <= p THEN s[i - 1] ELSE s[i]]
Before(e, s) == [i \in 1 .. Len(s) + 1 |-> IF i = 1 THEN e ELSE s[i - 1]]

(* The history of lookups after one more.                                  *)
Recalled(ip) ==
  IF \E p \in 1 .. Len(recency) : recency[p] = ip
  THEN ToFront(recency, CHOOSE p \in 1 .. Len(recency) : recency[p] = ip)
  ELSE Before(ip, recency)

(* Where in the list the node is that an iterator points at.               *)
At(node) == CHOOSE p \in 1 .. Len(cache) : cache[p].node = node

(* A cached address: its node moves to the front.                          *)
Hit(ip) ==
  /\ ip \in DOMAIN cacheIndex
  /\ cache' = ToFront(cache, At(cacheIndex[ip]))
  /\ UNCHANGED cacheIndex

(* Mutant: the address that is evicted stays in the index.                 *)
Unindexed_Kept(index, ip) == index

(* The index without the address that is evicted.                          *)
Unindexed(index, ip) == [x \in DOMAIN index \ {ip} |-> index[x]]

FreeNode == CHOOSE n \in Nodes : \A p \in 1 .. Len(cache) : cache[p].node # n

(* An address not cached: a node for it, and past the capacity the last    *)
(* node and its entry go.                                                  *)
Miss(ip) ==
  LET longer  == Before([node |-> FreeNode, ip |-> ip, info |-> Query(ip)], cache)
      indexed == [x \in DOMAIN cacheIndex \union {ip} |->
                    IF x = ip THEN FreeNode ELSE cacheIndex[x]]
  IN  /\ ip \notin DOMAIN cacheIndex
      /\ IF Len(longer) > Capacity
         THEN /\ cacheIndex' = Unindexed(indexed, longer[Len(longer)].ip)
              /\ cache' = [i \in 1 .. Len(longer) - 1 |-> longer[i]]
         ELSE cacheIndex' = indexed /\ cache' = longer

Lookup(ip) ==
  /\ Hit(ip) \/ Miss(ip)
  /\ recency' = Recalled(ip)
  /\ UNCHANGED <<files, opened>>

(* What lookup(ip) returns in this state.                                  *)
Answer(ip) ==
  IF ip \in DOMAIN cacheIndex THEN cache[At(cacheIndex[ip])].info ELSE Query(ip)

GeoNext == \E ip \in Addresses : Lookup(ip)
GeoSpec == GeoInit /\ [][GeoNext]_geo

---------------------------------------------------------------------------
(* The facts the installed databases hold of an address: those of the      *)
(* user's directory if a database there opens, else those of the old one.  *)
Facts(ip) ==
  LET from == IF Opens(files, "primary") # {} THEN "primary" ELSE "legacy"
  IN  {<<k, from, ip>> : k \in Opens(files, from)}

GeoTypeOK ==
  /\ files \in Situations
  /\ opened \in [place : Places, kinds : SUBSET Kinds]
  /\ cache \in Seq([node : Nodes, ip : Addresses, info : SUBSET (Kinds \X Places \X Addresses)])
  /\ Len(cache) <= Capacity
  /\ DOMAIN cacheIndex \subseteq Addresses
  /\ recency \in Seq(Addresses)

(* The index and the list are of one mind: each address indexed has the    *)
(* node its iterator points at, and no node is without an index entry.     *)
IndexAgrees ==
  /\ DOMAIN cacheIndex = {cache[p].ip : p \in 1 .. Len(cache)}
  /\ \A p \in 1 .. Len(cache) : cacheIndex[cache[p].ip] = cache[p].node
  /\ \A p, q \in 1 .. Len(cache) :
       cache[p].node = cache[q].node \/ cache[p].ip = cache[q].ip => p = q

(* The cache holds the addresses looked up last, in the order of their     *)
(* last lookup, and as many of them as fit.                                *)
HoldsTheRecent ==
  /\ Len(cache) = IF Len(recency) < Capacity THEN Len(recency) ELSE Capacity
  /\ \A p \in 1 .. Len(cache) : cache[p].ip = recency[p]

(* GeoIPResolver::lookup keeps its list and its index in step: it holds    *)
(* exactly the addresses used last, no iterator dangles, and whatever the  *)
(* sequence of hits, misses and evictions an answer is what the installed  *)
(* databases say of that very address.                                     *)
CacheIsSound ==
  /\ IndexAgrees /\ HoldsTheRecent
  /\ \A ip \in Addresses : Answer(ip) = Facts(ip)
============================================================================
