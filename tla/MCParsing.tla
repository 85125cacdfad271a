----------------------------- MODULE MCParsing -----------------------------
(* Frames of every link type, tunnels nested up to five deep, headers that *)
(* are malformed, padded or short, and DNS, TLS, QUIC and HTTP payloads;   *)
(* each captured whole and cut after every number of bytes.                *)
EXTENDS PacketParser
LOCAL INSTANCE FiniteSetsExt
LOCAL INSTANCE SequencesExt

---------------------------------------------------------------------------
(* What is sent: vectors with their lengths, and messages made of them.    *)
Num(n, w)    == [i \in 1 .. w |-> (n \div 256 ^ (w - i)) % 256]
Vec(w, s)    == Num(Len(s), w) \o s
Zeros(n)     == [i \in 1 .. n |-> 0]
VarintOf(n)  == IF n < 64 THEN <<n>> ELSE <<64 + n \div 256, n % 256>>

Says(sni, host, by, response) ==
  [sni |-> sni, host |-> host, by |-> by, dns |-> response]
Silent == Says(None, None, 0, {})

Message(bytes, says) == [len |-> Len(bytes), bytes |-> bytes, lines |-> <<>>, says |-> says]
Data(bytes, name) == Message(bytes, Says(name, None, Len(bytes), {}))
Opaque(n) == [len |-> n, bytes |-> <<>>, lines |-> <<>>, says |-> Silent]

(* Hosts: the bytes of a name, one for all.                                *)
Video == <<121>>
Games == <<120, 46>>

NameExt(list) == <<0, 0>> \o Vec(2, Vec(2, list))
HostName(n)   == <<0>> \o Vec(2, n)
OtherExt      == <<0, 10>> \o Vec(2, <<7, 7>>)

Hello(exts) ==
  <<1>> \o Vec(3, Zeros(34) \o Vec(1, <<9>>) \o Vec(2, <<0, 5>>) \o Vec(1, <<0>>) \o Vec(2, exts))
Record(hello) == <<22, 3, 1>> \o Vec(2, hello)

TlsData ==
  {Data(Record(Hello(OtherExt \o NameExt(HostName(Video)))), Video),
   Data(Record(Hello(NameExt(<<1>> \o Vec(2, <<5>>) \o HostName(Games)))), Games),
   Data(Record(Hello(OtherExt)), None),
   Data(Record(Hello(<<0, 0, 0, 9, 0, 1>>)), None),
   Data(Record(<<2>> \o Vec(3, Zeros(40))), None)}

Crypto(off, s) == <<6>> \o VarintOf(off) \o VarintOf(Len(s)) \o s

Initial(first, version, token, frames, seal) ==
  <<first>> \o Num(version, 4) \o Vec(1, <<1, 2, 3, 4>>) \o Vec(1, <<5>>)
    \o VarintOf(Len(token)) \o token
    \o VarintOf(Len(frames) + 17) \o <<0>> \o frames \o <<seal>> \o Zeros(15)

TheHello == Hello(NameExt(HostName(Video)))
Part1 == SubSeq(TheHello, 1, 30)
Part2 == SubSeq(TheHello, 31, Len(TheHello))
V2       == 1798521807

(* Another packet in the same datagram.                                    *)
Trailed(d) == [d EXCEPT !.len = @ + 1, !.bytes = @ \o <<255>>]

QuicData ==
  {Data(Initial(192, 1, <<>>, Crypto(0, TheHello) \o <<0>>, 1), Video),
   Data(Initial(208, V2, <<8>>, <<2, 9, 0, 1, 0, 3, 4>> \o Crypto(30, Part2) \o <<1>> \o Crypto(0, Part1), 1), Video),
   Trailed(Data(Initial(192, 1, <<>>, <<3, 9, 0, 0, 0, 3, 4, 5>> \o Crypto(0, TheHello), 1), Video)),
   Data(Initial(192, 1, <<>>, Crypto(0, TheHello) \o <<28>>, 1), None),
   Data(Initial(192, 1, <<>>, Crypto(0, TheHello), 0), None),
   Data(Initial(208, 1, <<>>, Crypto(0, TheHello), 1), None),
   Data(Initial(192, 2, <<>>, Crypto(0, TheHello), 1), None),
   Data(Initial(192, 1, <<>>, Crypto(0, Part1), 1), None)}

Line(kind, n, told, value) == [kind |-> kind, len |-> n, told |-> told, value |-> value]
Http(lines, host, by) ==
  [len |-> FoldLeft(LAMBDA s, l : s + l.len, 0, lines), bytes |-> <<>>, lines |-> lines,
   says |-> Says(None, host, by, {})]

HttpData ==
  {Http(<<Line("request", 16, 5, None), Line("other", 8, 0, None),
          Line("host", 9, 0, Games), Line("blank", 2, 0, None)>>, Games, 33),
   Http(<<Line("request", 16, 5, None), Line("blank", 2, 0, None),
          Line("host", 9, 0, Games)>>, None, 0),
   Http(<<Line("request", 2040, 5, None), Line("host", 9, 0, Games)>>, None, 0),
   Http(<<Line("response", 15, 12, None), Line("other", 8, 0, None)>>, None, 0)}

---------------------------------------------------------------------------
(* DNS: a name is written plainly, or as its first labels and a pointer to *)
(* an offset where the rest of it is.                                      *)
Plain(n) == FoldLeft(LAMBDA s, l : s \o Vec(1, l), <<>>, n) \o <<0>>
Pointing(n, off) == FoldLeft(LAMBDA s, l : s \o Vec(1, l), <<>>, n) \o <<192, off>>

Rr(name, rrtype, class, data) ==
  name \o Num(rrtype, 2) \o Num(class, 2) \o Zeros(4) \o Vec(2, data)
Response(questions, answers) ==
  Zeros(2) \o <<129, 128>> \o Num(Len(questions), 2) \o Num(Len(answers), 2) \o Zeros(4)
    \o FlattenSeq([i \in DOMAIN questions |-> questions[i] \o <<0, 1, 0, 1>>])
    \o FlattenSeq(answers)

La == <<97>>
Lb == <<98, 98>>
Host == <<La, Lb>>          (* a.bb: its bb is at offset 14               *)
Other == <<<<99>>, Lb>>     (* c.bb                                       *)
Ip == <<10, 0, 0, 1>>

Is(t, n, v) == [type |-> t, name |-> n, value |-> v]
Dns(bytes, q, answers) ==
  Message(bytes, Says(None, None, Len(bytes), {[query |-> q, answers |-> answers]}))
NotDns(bytes) == Message(bytes, Silent)

DnsData ==
  {Dns(Response(<<Plain(Host)>>, <<Rr(<<192, 12>>, 1, 1, Ip)>>), Host, <<Is("A", Host, Ip)>>),
   Dns(Response(<<Plain(Host)>>,
         <<Rr(<<192, 12>>, 5, 1, Pointing(<<<<99>>>>, 14)), Rr(<<192, 34>>, 1, 1, Ip)>>),
       Host, <<Is("CNAME", Host, Other), Is("A", Other, Ip)>>),
   Dns(Response(<<>>, <<Rr(Plain(Host), 12, 32769, <<192, 14>>), Rr(<<0>>, 28, 1, Zeros(16))>>),
       <<>>, <<Is("PTR", Host, <<Lb>>), Is("AAAA", <<>>, Zeros(16))>>),
   Dns(Response(<<Plain(Host), <<192, 14>>>>,
         <<Rr(<<192, 14>>, 33, 1, <<0, 1, 0, 0, 1, 187>> \o Pointing(<<>>, 12)), Rr(<<192, 14>>, 5, 3, <<0>>)>>),
       Host, <<Is("SRV", <<Lb>>, <<1, Host, 443>>)>>),
   Dns(Response(<<>>, <<Rr(Plain(<<La>>), 16, 1, Vec(1, <<1, 2>>) \o Vec(1, <<3, 4>>)),
                        Rr(<<192, 12>>, 65, 1, <<0, 1, 0, 0, 1, 0, 0, 0, 5, 0, 1, 8>>),
                        Rr(<<192, 12>>, 64, 1, <<0, 2>> \o Plain(<<Lb>>))>>),
       <<>>, <<Is("TXT", <<La>>, <<1, 2, 32>>), Is("HTTPS", <<La>>, <<1, <<La>>, TRUE>>),
               Is("SVCB", <<La>>, <<2, <<Lb>>, FALSE>>)>>),
   (* A record too short for its name, which runs on into the next.        *)
   Dns(Response(<<>>, <<Rr(<<0>>, 5, 1, <<1>>), Rr(<<0>>, 1, 1, Ip)>>), <<>>, <<Is("A", <<>>, Ip)>>),
   (* Pointers to pointers, and forward ones.                              *)
   Dns(Response(<<>>, <<Rr(<<192, 24>>, 12, 1, <<192, 37>>), Rr(<<0>>, 12, 1, <<1, 97, 0>>)>>),
       <<>>, <<Is("PTR", <<La>>, <<La>>), Is("PTR", <<>>, <<La>>)>>),
   NotDns(Response(<<<<192, 12>>>>, <<Rr(<<192, 12>>, 1, 1, Ip)>>)),
   NotDns(Response(<<<<192, 99>>>>, <<>>)),
   NotDns(Response(<<<<64>>>>, <<Rr(<<0>>, 1, 1, Ip)>>)),
   NotDns([Response(<<>>, <<Rr(<<0>>, 1, 1, Ip)>>) EXCEPT ![3] = 1]),
   NotDns(Zeros(11))}

---------------------------------------------------------------------------
(* Headers.  The total of a header is what is sent from it on, and `more`. *)
H(kind, len, next, more, src, dst) ==
  [kind |-> kind, len |-> len, next |-> next, total |-> more, src |-> src, dst |-> dst,
   plain |-> TRUE, bytes |-> <<>>]
Odd(h) == [h EXCEPT !.plain = FALSE]

Eth(next)       == H("Ethernet", 14, next, 0, None, None)
Tagged(next)    == H("Ethernet", 18, next, 0, None, None)
Link(len, next) == H("link", len, next, 0, None, None)
V4(next, a, b)  == H("IPv4", 20, next, 0, a, b)
V6(next, a, b)  == H("IPv6", 40, next, 0, a, b)
Ext(next)       == H("V6Ext", 8, next, 0, None, None)
Tun(kind, len, next) == H(kind, len, next, 0, None, None)
T(s, d)         == H("TCP", 20, "data", 0, s, d)
U(s, d)         == H("UDP", 8, "data", 0, s, d)
Icmp4           == H("ICMP", 8, "data", 0, None, None)
More(h, n)      == [h EXCEPT !.total = n]
Long(h, n)      == [h EXCEPT !.len = n]

(* Of what a tunnel carries only as much as a DNS header would take is     *)
(* read: the first bytes of IPv4 or IPv6, and an identifier of zero.       *)
TunnelBytes(h) ==
  IF h.kind = "VXLAN" THEN <<IF h.plain THEN 8 ELSE 0>> \o Zeros(11)
  ELSE IF h.kind = "GENEVE" THEN
    <<(h.len - 8) \div 4 + (IF h.plain THEN 0 ELSE 64), 0>>
      \o (IF h.next \in DOMAIN EtherTypes THEN EtherTypes[h.next] ELSE <<136, 71>>)
      \o Zeros(4) \o <<IF h.next = "IPv6" THEN 96 ELSE 69, 0, 0, 40>>
  ELSE <<>>

Sealed(layers, n) ==
  [i \in DOMAIN layers |->
     LET real == FoldLeft(LAMBDA s, h : s + h.len, n, SubSeq(layers, i, Len(layers)))
     IN [layers[i] EXCEPT !.total = Max({0, real + @}), !.bytes = TunnelBytes(layers[i])]]

Frame(link, layers, data, pad) ==
  [link |-> link, layers |-> Sealed(layers, data.len), data |-> data, pad |-> pad]

Ether(layers) == Frame("Ethernet", layers, Opaque(3), 0)
Empty(layers) == Frame("Ethernet", layers, Opaque(0), 0)

Inner == <<V4("TCP", "c", "d"), T(7, 443)>>
Vx(h) == <<Eth("IPv4"), V4("UDP", "a", "b"), U(9, 4789), h>>
Gn(h) == <<Eth("IPv6"), V6("UDP", "a", "b"), U(6081, 9), h>>
From53(port) == <<Eth("IPv4"), V4("UDP", "a", "b"), U(53, port)>>
Deep(n) == FlattenSeq([i \in 1 .. n |-> <<V4("GRE", "a", "b"), Tun("GRE", 4, "IPv4")>>])

TunnelFrames == {Ether(s) : s \in {
  <<Eth("IPv4"), V4("GRE", "a", "b"), Tun("GRE", 8, "IPv4")>> \o Inner,
  <<Eth("IPv4"), V4("GRE", "a", "b"), Tun("GRE", 4, "TEB"), Eth("IPv6"), V6("UDP", "c", "d"), U(7, 51820)>>,
  <<Eth("IPv4"), V4("GRE", "a", "b"), Odd(Tun("GRE", 4, "IPv4"))>> \o Inner,
  <<Eth("IPv4"), V4("GRE", "a", "b"), Tun("GRE", 4, "PPP")>>,
  Vx(Tun("VXLAN", 8, "TEB")) \o <<Tagged("IPv4")>> \o Inner,
  Vx(Tun("VXLAN", 8, "TEB")) \o <<Eth("ARP"), H("ARP", 28, "data", 0, "c", "d")>>,
  Vx(Odd(Tun("VXLAN", 8, "TEB"))) \o <<Eth("IPv4")>> \o Inner,
  Gn(Tun("GENEVE", 12, "IPv6")) \o <<V6("TCP", "c", "d"), T(7, 443)>>,
  Gn(Tun("GENEVE", 8, "TEB")) \o <<Eth("IPv4")>> \o Inner,
  Gn(Tun("GENEVE", 8, "other")), Gn(Odd(Tun("GENEVE", 8, "IPv4"))) \o Inner,
  <<Eth("MPLS"), Tun("MPLS", 8, "data")>> \o Inner,
  <<Eth("MPLS"), Tun("MPLS", 36, "data")>> \o Inner,
  <<Eth("MPLS"), Tun("MPLS", 4, "data"), H("other", 4, "data", 0, None, None)>>,
  <<Tagged("PPPoE"), Tun("PPPoE", 8, "IPv4")>> \o Inner,
  <<Eth("PPPoE"), Tun("PPPoE", 8, "LCP")>>,
  <<Eth("IPv4"), V4("IPv4", "a", "b"), V4("IPv6", "c", "d"), V6("TCP", "e", "f"), T(7, 80)>>,
  <<Eth("IPv6"), V6("V6Ext", "a", "b"), Ext("IPv6"), V6("UDP", "c", "d"), U(7, 5353)>>,
  <<Eth("IPv4")>> \o Deep(4) \o Inner,
  <<Eth("IPv4")>> \o Deep(5) \o Inner,
  <<Eth("IPv4")>> \o Deep(4) \o <<V4("IPv4", "c", "d")>> \o Inner,
  <<Eth("IPv4")>> \o Deep(4) \o <<V4("UDP", "c", "d"), U(9, 4789), Tun("VXLAN", 8, "TEB"), Eth("IPv4")>> \o Inner,
  Vx(Tun("VXLAN", 8, "TEB")) \o <<Eth("IPv4")>> \o Deep(3) \o <<V4("UDP", "c", "d"), U(9, 53)>>,
  <<Eth("IPv4")>> \o Deep(3) \o <<V4("UDP", "c", "d"), U(9, 4789), Tun("VXLAN", 8, "TEB"),
     Eth("MPLS"), Tun("MPLS", 4, "data")>> \o Inner}}

CarriedFrames == {Empty(s) : s \in {
  Vx(Tun("VXLAN", 8, "TEB")) \o <<Eth("IPv4")>> \o Inner,
  Vx(Tun("VXLAN", 8, "TEB")) \o <<Eth("IPv4"), V4("ICMP", "c", "d"), Icmp4>>,
  From53(4789) \o <<Tun("VXLAN", 8, "TEB"), Eth("IPv4"), V4("UDP", "c", "d"), U(53, 7)>>,
  From53(6081) \o <<Tun("GENEVE", 8, "IPv4"), V4("UDP", "c", "d"), U(7, 53)>>,
  From53(6081) \o <<Tun("GENEVE", 8, "IPv6"), V6("UDP", "c", "d"), U(53, 7)>>,
  From53(6081) \o <<Tun("GENEVE", 12, "IPv6"), V6("TCP", "c", "d"), T(7, 443)>>,
  From53(6081) \o <<Odd(Tun("GENEVE", 8, "IPv6")), V6("UDP", "c", "d"), U(53, 7)>>,
  From53(6081) \o <<Tun("GENEVE", 8, "other")>>,
  <<Eth("IPv4")>> \o Inner}}

PlainFrames == {Ether(s) : s \in {
  <<Eth("IPv4"), V4("TCP", "a", "b"), Long(T(7, 80), 24)>>,
  <<Eth("IPv4"), V4("TCP", "a", "b"), Long(T(7, 80), 16)>>,
  <<Eth("IPv4"), Long(V4("TCP", "a", "b"), 24), T(443, 80)>>,
  <<Eth("IPv4"), Long(V4("TCP", "a", "b"), 16), T(7, 80)>>,
  <<Eth("IPv4"), Odd(V4("data", "a", "b"))>>,
  <<Eth("IPv4"), More(V4("TCP", "a", "b"), -2), T(7, 80)>>,
  <<Eth("IPv4"), More(V4("TCP", "a", "b"), 5), T(7, 80)>>,
  <<Eth("IPv4"), More(V4("TCP", "a", "b"), -30), T(7, 80)>>,
  <<Eth("IPv4"), V4("UDP", "a", "b"), More(U(7, 53), -2)>>,
  <<Eth("IPv4"), V4("UDP", "a", "b"), More(U(7, 53), -5)>>,
  <<Eth("IPv4"), V4("UDP", "a", "b"), More(U(7, 53), -11)>>,
  <<Eth("IPv4"), More(V4("UDP", "a", "b"), -1), More(U(7, 4500), 6)>>,
  <<Eth("IPv6"), V6("V6Ext", "a", "b"), Ext("V6Ext"), Ext("UDP"), U(7, 443)>>,
  <<Eth("IPv6"), More(V6("V6Ext", "a", "b"), -19), Ext("UDP"), U(7, 443)>>,
  <<Eth("IPv6"), V6("ICMPv6", "a", "b"), H("ICMPv6", 8, "data", 0, None, None)>>,
  <<Eth("IPv4"), V4("ESP", "a", "b")>>, <<Eth("IPv4"), V4("OSPF", "a", "b")>>,
  <<Eth("ARP"), H("ARP", 28, "data", 0, "a", "b")>>,
  <<Eth("ARP"), Odd(H("ARP", 20, "data", 0, None, None))>>, <<Eth("LLDP")>>}}

PaddedFrames ==
  {Frame("Ethernet", <<Eth("IPv4"), V4("TCP", "a", "b"), T(7, 443)>>, Opaque(1), 6)}
    \union {Frame("Ethernet", <<Eth("IPv6"), V6("UDP", "a", "b"), U(7, 443)>>, Opaque(1), 6)}

Packet == <<V4("TCP", "a", "b"), T(7, 443)>>
LinkFrames == {Frame(l[1], <<Link(l[2], l[3])>> \o Packet, Opaque(2), 0) : l \in {
  <<"LinuxSLL", 16, "IPv4">>, <<"LinuxSLL2", 20, "IPv4">>,
  <<"NullLoopback", 4, "IPv4">>, <<"NullLoopback", 4, "other">>, <<"Loop", 4, "IPv4">>,
  <<"RawIP", 0, "data">>, <<"IPv4", 0, "data">>, <<"Unsupported", 30, "data">>}}
  \union {Frame("IPv6", <<Link(0, "data"), V6("UDP", "a", "b"), U(7, 8)>>, Opaque(2), 0)}
  \union {Frame("LinuxSLL", <<Link(16, "VLAN")>>, Opaque(4), 0)}
  \union {Frame("RawIP", <<Link(0, "data"), H("other", 9, "data", 0, None, None)>>, Opaque(2), 0)}

PayloadFrames ==
  {Frame("Ethernet", <<Eth("IPv4"), V4("UDP", "a", "b"), U(53, 7)>>, d, 0) : d \in DnsData}
    \union {Frame("Ethernet", <<Eth("IPv4"), V4("UDP", "a", "b"), U(7, 8443)>>, d, 0) : d \in QuicData}
    \union {Frame("Ethernet", <<Eth("IPv4"), V4("TCP", "a", "b"), T(7, 443)>>, d, 2) : d \in TlsData}
    \union {Frame("Ethernet", <<Eth("IPv4"), V4("TCP", "a", "b"), T(7, 80)>>, d, 0) : d \in HttpData}
    \union {Frame("Ethernet", Vx(Tun("VXLAN", 8, "TEB")) \o <<Eth("IPv4"), V4("UDP", "c", "d"), U(53, 7)>>,
                CHOOSE d \in DnsData : d.says.dns # {}, 0)}

TheFrames == TunnelFrames \union CarriedFrames \union PlainFrames \union PaddedFrames
  \union LinkFrames \union PayloadFrames

TheNeedles == (Video :> {"youtube"}) @@ (Games :> {"x.com", "xbox.com"})
=============================================================================
