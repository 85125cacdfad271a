----------------------------- MODULE MCSession -----------------------------
(* Four captures.  Conversations with one server port, with none and with  *)
(* two, in both directions, told apart by the lengths, at unsorted times;  *)
(* connection attempts with refusals, to a server port and between two     *)
(* high ports; a stream whose segments overlap, are lost, repeated and     *)
(* reordered across the end of a sequence space of eight; and names from   *)
(* every source, with DNS answers before and after the flows they name.    *)
EXTENDS AnalysisSession

client == [ip |-> 2, port |-> 40000]
server == [ip |-> 1, port |-> 443]
peerA  == [ip |-> 1, port |-> 6000]
peerA2 == [ip |-> 1, port |-> 6001]
peerB  == [ip |-> 3, port |-> 6000]
ns     == [ip |-> 4, port |-> 53]
dnsSrv == [ip |-> 1, port |-> 53]

noFlags == [syn |-> FALSE, ack |-> FALSE, rst |-> FALSE]
SYN     == [noFlags EXCEPT !.syn = TRUE]
SYNACK  == [SYN EXCEPT !.ack = TRUE]
RST     == [noFlags EXCEPT !.rst = TRUE]

Packet(proto, src, dst, len) ==
  [proto |-> proto, src |-> src, dst |-> dst, length |-> len, flags |-> noFlags,
   payload |-> 0, pos |-> 0, sni |-> NoName, host |-> NoName,
   service |-> NoName, tunnel |-> FALSE, dns |-> FALSE, answers |-> <<>>,
   ech |-> FALSE]

Tcp(src, dst, flags)     == [Packet("TCP", src, dst, 1) EXCEPT !.flags = flags]
Data(src, dst, pos, len) == [Packet("TCP", src, dst, len) EXCEPT !.pos = pos, !.payload = len]
Dns(answers, ech) ==
  [Packet("UDP", dnsSrv, client, 1) EXCEPT !.dns = TRUE, !.answers = answers, !.ech = ech]

Conversations ==
  {Packet("TCP", client, server, 1), Packet("TCP", server, client, 2),
   Packet("UDP", peerA, peerB, 1), Packet("UDP", peerB, peerA, 3),
   Packet("UDP", peerA2, peerB, 1), Packet("UDP", ns, [server EXCEPT !.port = 53], 2),
   Packet("ICMP", client, server, 1)}

Attempts ==
  {Tcp(client, server, SYN), Tcp(server, client, SYNACK), Tcp(server, client, RST),
   Tcp(peerB, peerA, SYN), Tcp(peerA, peerB, SYNACK)}

Stream ==
  {Data(client, server, pos, len) : pos \in 6 .. 9, len \in {1, 2}} \union
  {Data(server, client, 7, 2), Tcp(server, client, RST)}

Naming ==
  {Packet("TCP", client, server, 1), Data(client, server, 0, 1),
   [Packet("TCP", server, client, 1) EXCEPT !.host = "dns"],
   [Packet("TCP", client, server, 1) EXCEPT !.host = "dns", !.sni = "sni"],
   Dns(<<>>, TRUE),
   Dns(<<[address |-> 1, name |-> "dns"]>>, FALSE),
   Dns(<<[address |-> 2, name |-> "sni"], [address |-> 2, name |-> "dns"]>>, FALSE),
   Packet("ARP", [client EXCEPT !.port = 0], [server EXCEPT !.port = 0], 1)}

Capture(traffic, times, processes, recovered, length) ==
  [traffic |-> traffic, times |-> times, processes |-> processes,
   recovered |-> recovered, length |-> length]

OneCapture == {Capture(Attempts, {0, 1, 2}, {NoName}, {NoName}, 4)}

TheCaptures ==
  OneCapture \union
  {Capture(Conversations, 0 .. 3, {NoName}, {NoName}, 3),
   Capture(Stream, {0}, {NoName}, {NoName}, 4),
   Capture(Naming, {1}, {NoName, "dns"}, {NoName, "sni"}, 4)}

AllTraffic == UNION {Conversations, Attempts, Stream, Naming}

Services == [n \in Names |-> IF n = "sni" THEN "doh" ELSE NoName]
============================================================================
