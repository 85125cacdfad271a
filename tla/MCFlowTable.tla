---------------------------- MODULE MCFlowTable ----------------------------
(* What the Flows window shows, the two resolvers behind its columns, and  *)
(* the text it exports.  The four keep no state in common, so that a       *)
(* behaviour is one of one of them, "part", while the others rest.         *)
(*   - the table: three flows, two of them with one peer and two of one    *)
(*     host, one without a measured RTT, a ring of two samples;            *)
(*   - GeoIP: four addresses in a cache of two and every combination of    *)
(*     missing, unreadable and good files;                                 *)
(*   - processes: one port of both protocols, on one address and on all    *)
(*     of them, two identifiers and two names that the system uses again,  *)
(*     three changes of the system, two clock ticks, with a refresh once   *)
(*     both have passed; packets from and to this host, without ports and  *)
(*     of neither protocol;                                                *)
(*   - the text: every name of up to two bytes that are one of each kind,  *)
(*     and sequences of three and four at the limits of UTF-8, whole, cut  *)
(*     short and followed by another byte; no, one and two flows.          *)
EXTENDS FlowTable, GeoIPResolver, ProcessResolver, FlowExporter, TLC

VARIABLE part

Anywhere    == <<"0.0.0.0", "::">>
Side(ip, n) == [ip |-> ip, port |-> n]
SomePackets ==
  {[protocol |-> protocol, src |-> Side("local", n), dst |-> Side("remote", m)] :
     protocol \in {"TCP", "UDP"}, n \in {0, 1}, m \in {0, 1}}
    \union {[protocol |-> "TCP", src |-> Side("remote", 1), dst |-> Side("local", 1)],
            [protocol |-> "UDP", src |-> Side("local", 0), dst |-> Side("local", 1)],
            [protocol |-> "ICMP", src |-> Side("local", 1), dst |-> Side("remote", 1)]}
Symmetric   == Permutations(Pids) \union Permutations(ProcNames)
TheAddress  == <<"x", "y", "x">>
ThePlace    == [x |-> 1, y |-> 2]
TheHost     == <<1, 1, 2>>
TheRtt      == <<3, 0, 1>>
TheBytes    == <<2, 2, 1>>
MinusOne    == -1
AllFiles    == [Places -> [Kinds -> File]]

(* A byte of each kind, and characters at the limits.                      *)
SomeBytes == {8, 10, 13, 27, 34, 44, 65, 92, 127, 128, 191, 193, 194, 237, 240, 255}
Sequences3 == {<<224, 159, 191>>, <<224, 160, 128>>, <<237, 159, 191>>, <<237, 160, 128>>,
               <<239, 191, 191>>, <<225, 65, 128>>, <<225, 128, 34>>}
Sequences4 == {<<240, 143, 191, 191>>, <<240, 144, 128, 128>>, <<244, 143, 191, 191>>,
               <<244, 144, 128, 128>>, <<241, 128, 10, 44>>, <<245, 128, 128, 128>>}
Cut(s)    == {SubSeq(s, 1, n) : n \in 1 .. Len(s)}
SomeNames ==
  {<<>>} \union {<<a>> : a \in SomeBytes} \union (SomeBytes \X SomeBytes)
    \union {s \o <<b>> : s \in UNION {Cut(t) : t \in Sequences3 \union Sequences4},
                        b \in {34, 66, 128}}

Exported(host, process) == [hostname |-> host, dstIP |-> <<49>>, process |-> process]
SomeFlows ==
  {<<>>} \union {<<Exported(s, <<65>>)>> : s \in SomeNames}
    \union {<<Exported(<<65>>, s), Exported(s, <<>>)>> : s \in SomeNames}

AllVars == <<part, tvars, geo, pvars, xvars>>

RestInit ==
  /\ part # "geo" => files = [p \in Places |-> [k \in Kinds |-> "missing"]]
  /\ part # "process" => sockets = [e \in Bindable |-> NoPid]
                         /\ procs = [p \in Pids |-> NoName]
  /\ part # "text" => exported = <<>> /\ format = "csv"

MCInit ==
  /\ part \in {"table", "geo", "process", "text"}
  /\ RestInit /\ TInit /\ GeoInit /\ PInit /\ XInit

MCNext ==
  \/ part = "table" /\ TNext /\ UNCHANGED <<part, geo, pvars, xvars>>
  \/ part = "geo" /\ GeoNext /\ UNCHANGED <<part, tvars, pvars, xvars>>
  \/ part = "process" /\ PNext /\ UNCHANGED <<part, tvars, geo, xvars>>
  \/ part = "text" /\ XNext /\ UNCHANGED <<part, tvars, geo, pvars>>

MCSpec == MCInit /\ [][MCNext]_AllVars
============================================================================
