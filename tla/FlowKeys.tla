----------------------------- MODULE FlowKeys -----------------------------
(***************************************************************************)
(* core::FlowAggregator::keyFor and isDownstream (FlowAggregator.cpp): the *)
(* key under which both directions of a conversation are counted.          *)
(*                                                                         *)
(* An endpoint is an address and a port.  Addresses are numbers, in the    *)
(* order in which the code compares their texts; NoAddress is the empty    *)
(* text.                                                                   *)
(***************************************************************************)
EXTENDS Integers

NoAddress == 0
Endpoint  == [ip : Nat, port : Nat]
NoKey     == [src |-> NoAddress, dst |-> NoAddress, proto |-> "none"]

LikelyServerPorts ==
  (1 .. 1024) \union {1194, 1433, 3306, 3478, 5222, 5432, 5900, 6379, 6443,
                      8080, 8443, 9092, 9200, 27017, 51820}

IsLikelyServerPort(port) == port \in LikelyServerPorts

(* std::tie(ip, port) <= std::tie(ip, port)                                *)
NotAfter(a, b) == a.ip < b.ip \/ (a.ip = b.ip /\ a.port <= b.port)

(* The endpoint a packet p's conversation lists first, the "client".       *)
ClientIsSource(p) ==
  LET srcIsServer == IsLikelyServerPort(p.src.port)
      dstIsServer == IsLikelyServerPort(p.dst.port)
  IN  IF srcIsServer = dstIsServer THEN NotAfter(p.src, p.dst) ELSE dstIsServer

(* Mutant: the server rule without the order.                              *)
KeyFor_ServerRuleOnly(p) ==
  IF p.src.ip = NoAddress \/ p.dst.ip = NoAddress \/ p.proto \notin {"TCP", "UDP"}
  THEN NoKey
  ELSE IF IsLikelyServerPort(p.src.port)
  THEN [src |-> p.dst, dst |-> p.src, proto |-> p.proto]
  ELSE [src |-> p.src, dst |-> p.dst, proto |-> p.proto]

(* Only TCP and UDP packets with both addresses belong to a flow.          *)
KeyFor(p) ==
  IF p.src.ip = NoAddress \/ p.dst.ip = NoAddress \/ p.proto \notin {"TCP", "UDP"}
  THEN NoKey
  ELSE IF ClientIsSource(p)
       THEN [src |-> p.src, dst |-> p.dst, proto |-> p.proto]
       ELSE [src |-> p.dst, dst |-> p.src, proto |-> p.proto]

(* Towards the key's src endpoint: the source is the key's dst endpoint.   *)
IsDownstream(p, key) == p.src = key.dst

(* What the other endpoint sends in answer to p.                           *)
Reversed(p) == [src |-> p.dst, dst |-> p.src, proto |-> p.proto]

(* The same conversation, in either direction.                             *)
SameConversation(p, q) ==
  /\ p.proto = q.proto
  /\ \/ p.src = q.src /\ p.dst = q.dst
     \/ p.src = q.dst /\ p.dst = q.src
===========================================================================
