---------------------------- MODULE PacketParser ----------------------------
(***************************************************************************)
(* core::ProtocolParser::parse as a whole, and core::DNSParser on its      *)
(* result, as AnalysisSession::feed calls them: the frame is decoded       *)
(* (PacketDecoder), then the payload is looked into, and then, if it is    *)
(* DNS, read as a message.                                                 *)
(*                                                                         *)
(* The data after the last header of a frame is bytes, or the lines of an  *)
(* HTTP message, [kind, len, told, value]; what it says, for the           *)
(* properties to compare with, is in `says`, with the number of its bytes  *)
(* that say it.                                                            *)
(***************************************************************************)
EXTENDS PacketDecoder, DnsMessage, ClientHello, TLC
LOCAL INSTANCE FiniteSetsExt
LOCAL INSTANCE SequencesExt

CONSTANT Needles  (* for a host name, the patterns of the catalog in it    *)

VARIABLE dns      (* what DNSParser::parseResponse returned                *)

pvars == <<dvars, dns>>

PInit == DInit /\ dns = {}

HasPayload == parsed.payloadLength > 0 /\ parsed.payloadOffset < size

(* How much of the payload was captured.                                   *)
Available ==
  IF HasPayload THEN Lesser(parsed.payloadLength, size - parsed.payloadOffset) ELSE 0

(* What is read begins where the payload is said to: at the data, or at a  *)
(* tunnel's header when the packet in the tunnel set no payload.           *)
AtData  == parsed.payloadOffset = DataStart(frame)
LeftAt  == {i \in DOMAIN frame.layers :
              frame.layers[i].kind \in UdpTunnels /\ Start(frame, i) = parsed.payloadOffset}
Source  ==
  IF LeftAt = {} THEN frame.data
  ELSE [bytes |-> frame.layers[CHOOSE i \in LeftAt : TRUE].bytes, lines |-> <<>>]

FirstBytes(d, n) == SubSeq(d.bytes, 1, Lesser(n, Len(d.bytes)))

(* Mutant: what was sent is read, captured or not.                         *)
Payload_Sent == frame.data.bytes

Payload == FirstBytes(Source, Available)

---------------------------------------------------------------------------
(* The labels by port; those that the properties tell apart.               *)
TcpServices == (80 :> "HTTP") @@ (443 :> "HTTPS") @@ (853 :> "DNS-over-TLS")
UdpServices == (53 :> "DNS") @@ (443 :> "QUIC") @@ (4500 :> "IPsec")
  @@ (5353 :> "mDNS") @@ (4789 :> "VXLAN") @@ (6081 :> "GENEVE") @@ (51820 :> "WireGuard")

(* classifyTcpPort(), classifyUdpPort(): the destination port first.       *)
Classified(q, services) ==
  LET known == SelectSeq(<<q.dport, q.sport>>, LAMBDA p : p \in DOMAIN services) IN
  IF q.service = None /\ known # <<>>
  THEN [q EXCEPT !.service = services[known[1]]] ELSE q

(* A selection of the catalog, in its order; the first pattern found in a  *)
(* host name, in lower case, names the service.                            *)
Catalog == <<
  [needle |-> "cloudflare-dns.com", label |-> "DNS-over-HTTPS"],
  [needle |-> "youtube",            label |-> "YouTube"],
  [needle |-> "x.com",              label |-> "X (Twitter)"],
  [needle |-> "cloudflare",         label |-> "Cloudflare"],
  [needle |-> "microsoft",          label |-> "Microsoft"],
  [needle |-> "xbox.com",           label |-> "Xbox Live"],
  [needle |-> "teams.microsoft",    label |-> "Microsoft Teams"],
  [needle |-> "webex",              label |-> "Webex"]>>

IdentifyService(host) ==
  LET found == SelectSeq(Catalog, LAMBDA c : c.needle \in Needles[host]) IN
  IF found = <<>> THEN None ELSE found[1].label

(* The name in a TLS record.                                               *)
TlsName(b) ==
  IF LooksLikeTlsHandshake(b) THEN SniFromRecord(b) \ {<<>>} ELSE {}

(* parseTLS()                                                              *)
ParseTls(q) ==
  IF TlsName(Payload) = {} THEN q
  ELSE LET sni == CHOOSE s \in TlsName(Payload) : TRUE IN
       [q EXCEPT !.sni = sni, !.service = IdentifyService(sni)]

(* parseHTTP() looks at the lines of so many of n bytes.                   *)
MaxScanned == 2048
Scanned(n) == Lesser(n, MaxScanned)

(* Where line i ends, with its CRLF.                                       *)
LineEnd(lines, i) ==
  LET ends[j \in 0 .. Len(lines)] == IF j = 0 THEN 0 ELSE ends[j - 1] + lines[j].len
  IN  ends[i]

(* The first line is told from twelve bytes of a response, or the method   *)
(* and a space of a request.                                               *)
IsHttp(lines, n) == lines # <<>> /\ Scanned(n) >= lines[1].told

(* The Host headers of the head of a request.                              *)
HostLines(lines, n) ==
  {i \in 1 .. Len(lines) :
     /\ lines[1].kind = "request" /\ lines[i].kind = "host"
     /\ LineEnd(lines, i) <= Scanned(n)
     /\ \A j \in 1 .. i - 1 : lines[j].kind # "blank"}

(* What the first of them says.                                            *)
HttpName(lines, n) ==
  IF ~IsHttp(lines, n) \/ HostLines(lines, n) = {} THEN {}
  ELSE {lines[Min(HostLines(lines, n))].value} \ {None}

(* parseHTTP()                                                             *)
ParseHttp(q) ==
  LET lines == Source.lines
      http  == [q EXCEPT !.service = IF @ = None THEN "HTTP" ELSE @]
      host  == CHOOSE h \in HttpName(lines, Available) : TRUE
  IN IF ~IsHttp(lines, Available) THEN q
     ELSE IF HttpName(lines, Available) = {} THEN http
     ELSE [http EXCEPT !.hostname = host,
             !.service = IF IdentifyService(host) = None THEN @ ELSE IdentifyService(host)]

(* Tunnels that encrypt and ride on UDP are told by their port.            *)
Marked(q) ==
  [q EXCEPT !.encrypted = @ \/ q.service \in {"WireGuard", "OpenVPN", "IPsec"}]

DpiTcp ==
  /\ decoder = "dpi" /\ parsed.protocol = "TCP"
  /\ LET seen == IF ~HasPayload THEN parsed
                 ELSE IF LooksLikeTlsHandshake(Payload) THEN ParseTls(parsed)
                 ELSE ParseHttp(parsed)
     IN parsed' = Marked(Classified(seen, TcpServices))
  /\ decoder' = "dns" /\ UNCHANGED <<given, position, dns>>

(* The name in a QUIC packet.                                              *)
QuicName(b) == ExtractInitialSni(b) \ {<<>>}

(* Such a packet is told by its shape, whatever its port.                  *)
Quic(q) ==
  LET named == IF QuicName(Payload) = {} THEN q
               ELSE LET s == CHOOSE s \in QuicName(Payload) : TRUE IN
                    [q EXCEPT !.sni = s,
                              !.service = IF @ = None THEN IdentifyService(s) ELSE @]
  IN [named EXCEPT !.service = IF @ = None THEN "QUIC" ELSE @]

DpiUdp ==
  /\ decoder = "dpi" /\ parsed.protocol = "UDP"
  /\ LET seen == IF HasPayload /\ LooksLikeLongHeader(Payload) THEN Quic(parsed) ELSE parsed
     IN parsed' = Marked(Classified(seen, UdpServices))
  /\ decoder' = "dns" /\ UNCHANGED <<given, position, dns>>

DpiNone ==
  /\ decoder = "dpi" /\ parsed.protocol \notin {"TCP", "UDP"}
  /\ parsed' = Marked(parsed)
  /\ decoder' = "dns" /\ UNCHANGED <<given, position, dns>>

DnsPorts == {53, 5353, 5355}

(* DNSParser::parseResponse()                                              *)
ParseResponse ==
  /\ decoder = "dns"
  /\ dns' = IF /\ parsed.protocol = "UDP" /\ HasPayload
               /\ {parsed.sport, parsed.dport} \cap DnsPorts # {}
            THEN ParseMessage(Payload) ELSE {}
  /\ decoder' = "done" /\ UNCHANGED <<given, position, parsed>>

Returned == decoder = "done" /\ UNCHANGED pvars

PNext ==
  \/ Decode /\ UNCHANGED dns
  \/ DpiTcp \/ DpiUdp \/ DpiNone \/ ParseResponse \/ Returned

PSpec == PInit /\ [][PNext]_pvars

---------------------------------------------------------------------------
(* What is read of the first n bytes of data d behind header h.            *)
Reading(h, d, n) ==
  [sni  |-> IF h.kind = "TCP" THEN TlsName(FirstBytes(d, n)) ELSE QuicName(FirstBytes(d, n)),
   host |-> IF h.kind = "TCP" THEN HttpName(d.lines, n) ELSE {},
   dns  |-> IF h.kind = "UDP" /\ {h.src, h.dst} \cap DnsPorts # {}
            THEN ParseMessage(FirstBytes(d, n)) ELSE {}]

Nothing == [sni |-> {}, host |-> {}, dns |-> {}]

(* As a field of the report.                                               *)
Field(names) == IF names = {} THEN None ELSE CHOOSE s \in names : TRUE

(* What d is said to say is what is read of all of it.  It takes so many   *)
(* bytes: of one fewer nothing is read, and the rest adds nothing to what  *)
(* they say, as no name in them is completed by what follows the answers.  *)
SaysWhatIsRead(h, d) ==
  /\ d.says.by \in Nat
  /\ Field(Reading(h, d, d.says.by).sni)  = d.says.sni
  /\ Field(Reading(h, d, d.says.by).host) = d.says.host
  /\ Reading(h, d, d.says.by).dns = d.says.dns
  /\ Reading(h, d, Len(d.bytes) + MaxScanned) = Reading(h, d, d.says.by)
  /\ d.says.by > 0 => Reading(h, d, d.says.by - 1) = Nothing

ASSUME DataAssumption == \A f \in Frames :
  /\ f.data.bytes \in Seq(0 .. 255)
  /\ f.data.bytes = <<>> \/ f.data.lines = <<>>
  /\ Len(f.data.lines) \in Nat
  /\ \A i \in 1 .. Len(f.data.lines) : f.data.lines[i].len \in Nat
  /\ f.data.lines # <<>> => f.data.lines[1].told \in Nat \ {0}
  /\ \A i \in 1 .. Len(f.layers) :
       f.layers[i].kind \in {"TCP", "UDP"} /\ Start(f, i + 1) = DataStart(f) =>
         SaysWhatIsRead(f.layers[i], f.data)

---------------------------------------------------------------------------
(* Where the last of header i's packet was sent, if the header says so.    *)
Declares(h) == h.kind \in IpVersions \union {"UDP"} /\ h.total >= h.len

PacketEnds(f, i) ==
  {Start(f, j) + f.layers[j].total : j \in {j \in 1 .. i : Declares(f.layers[j])}}

(* Analyzers index the capture by the payload's place: it starts where a   *)
(* TCP or UDP header of the frame ends and stops where the capture does,   *)
(* or the first to end of the packets around that header, however those    *)
(* are cut, padded or nested.  It may be an outer packet's header: that it *)
(* is the innermost's is PayloadIsInnermost.                               *)
PayloadIsExact ==
  decoder = "done" /\ parsed.payloadLength > 0 =>
    \E i \in DOMAIN frame.layers :
      /\ frame.layers[i].kind \in {"TCP", "UDP"}
      /\ parsed.payloadOffset = Start(frame, i + 1)
      /\ parsed.payloadOffset + parsed.payloadLength =
           Min({size} \union PacketEnds(frame, i))

(* The encapsulations of f, by the header that makes each.                 *)
TunnelName(f, i) ==
  LET kind == f.layers[i].kind
      over == IF i = 1 THEN None ELSE f.layers[i - 1].kind
  IN CASE kind \in {"MPLS", "PPPoE", "GRE", "VXLAN", "GENEVE"} -> kind
       [] kind = "IPv4" /\ over \in IpVersions \union {"V6Ext"} -> "IP-in-IP"
       [] kind = "IPv6" /\ over \in IpVersions \union {"V6Ext"} -> "6in4"
       [] OTHER -> None

Transports       == {"TCP", "UDP", "ICMP", "ICMPv6", "GRE"}
TunnelHeaders(f) == {i \in DOMAIN f.layers : TunnelName(f, i) # None}
Endpoints(f)     == {i \in DOMAIN f.layers : f.layers[i].kind \in IpVersions \union {"ARP"}}

(* The names of those among the first i headers, from the outside in.      *)
NamesTo(f, i) ==
  LET names[j \in 0 .. Len(f.layers)] ==
        IF j = 0 THEN <<>>
        ELSE IF TunnelName(f, j) = None THEN names[j - 1]
        ELSE Append(names[j - 1], TunnelName(f, j))
  IN  names[i]

(* The kinds that are read after a header of a kind.                       *)
ReadAfter(kind) ==
  CASE kind \in {"link", "Ethernet"}  -> IpVersions \union {"MPLS", "PPPoE", "ARP"}
    [] kind \in {"MPLS", "PPPoE"}     -> IpVersions
    [] kind \in {"GRE", "GENEVE"}     -> IpVersions \union {"Ethernet"}
    [] kind = "IPv4"                  -> IpVersions \union Transports
    [] kind \in {"IPv6", "V6Ext"}     -> IpVersions \union Transports \union {"V6Ext"}
    [] kind = "UDP"                   -> {"VXLAN", "GENEVE"}
    [] kind = "VXLAN"                 -> {"Ethernet"}
    [] OTHER                          -> {}

(* Some headers do not say what follows them, and then it must be IP.      *)
Unspoken(f, i) ==
  \/ f.layers[i].kind = "MPLS"
  \/ f.layers[i].kind = "link" /\ f.link \notin {"LinuxSLL", "LinuxSLL2"}

(* All headers were captured and are of a kind the decoders read there.    *)
Clear(f) ==
  /\ f.link # "Unsupported" /\ size >= DataStart(f) /\ size > 0
  /\ Len(NamesTo(f, Len(f.layers))) <= MaxTunnelDepth
  /\ \A i \in DOMAIN f.layers :
       /\ f.layers[i].plain
       /\ Declares(f.layers[i]) => Start(f, i) + f.layers[i].total >= DataStart(f)
       /\ f.layers[i].kind = "IPv4" => f.layers[i].len >= 20 /\ Declares(f.layers[i])
       /\ f.layers[i].kind = "MPLS" => f.layers[i].len <= 32
       /\ f.layers[i].kind \in {"MPLS", "PPPoE"} => i < Len(f.layers)
       /\ i < Len(f.layers) =>
            /\ f.layers[i + 1].kind \in ReadAfter(f.layers[i].kind)
            /\ IF Unspoken(f, i) THEN f.layers[i + 1].kind \in IpVersions
               ELSE f.layers[i + 1].kind = Promised(f.layers[i])

(* What is shown of a packet in tunnels is the packet inside: its own      *)
(* endpoints, with the outermost carrier's beside them and the names of    *)
(* the tunnels from the outside in, however they are nested.               *)
InnermostIsShown ==
  decoder = "done" /\ Clear(frame) =>
    LET last  == frame.layers[Max(Endpoints(frame))]
        outer == frame.layers[Min(Endpoints(frame))]
    IN /\ parsed.tunnel = NamesTo(frame, Len(frame.layers))
       /\ Endpoints(frame) # {} =>
            /\ parsed.src = last.src /\ parsed.dst = last.dst
            /\ IF \E t \in TunnelHeaders(frame) : t > Min(Endpoints(frame))
               THEN parsed.outerSrc = outer.src /\ parsed.outerDst = outer.dst
               ELSE parsed.outerSrc = None /\ parsed.outerDst = None

(* The payload is the data, and what the data says is in the part of it    *)
(* that was captured.                                                      *)
Told == AtData /\ Available > 0 /\ Available >= frame.data.says.by

(* The payload is left at a GENEVE header, and its EtherType (as IPv6's)   *)
(* has the bit that tells a DNS response.                                  *)
LeftAtResponse ==
  HasPayload /\ \E i \in LeftAt : frame.layers[i].bytes[3] >= 128

(* A DNS response names hosts, so it is read as it was written, with its   *)
(* names spelled out, or not at all if it was cut or cannot be read; but   *)
(* for a GENEVE header that is read as one.                                *)
AnswersAreTheRecords ==
  decoder = "done" =>
    \/ LeftAtResponse
    \/ dns = IF Told /\ parsed.protocol = "UDP" THEN frame.data.says.dns ELSE {}

(* The name a client asks for, in TLS, QUIC or HTTP, is reported when all  *)
(* of the message that carries it was captured; of a part, nothing is.     *)
NamesAreRead ==
  decoder = "done" =>
    /\ parsed.sni = IF Told THEN frame.data.says.sni ELSE None
    /\ parsed.hostname = IF Told THEN frame.data.says.host ELSE None

---------------------------------------------------------------------------
(* "payloadLength == 0 means the packet carried no L4 payload"             *)
(* (ParsedPacket.hpp), and a payload that is reported is that of the       *)
(* packet that is reported, the innermost.                                 *)
PayloadIsInnermost ==
  decoder = "done" /\ Clear(frame) /\ frame.layers[Len(frame.layers)].kind = "TCP"
    /\ parsed.payloadLength > 0 => parsed.payloadOffset = DataStart(frame)

(* "Returns no value when the packet is not a DNS response we can read."   *)
(* (DNSParser.hpp): a response is one that was sent.  TLC refutes it, with *)
(* an empty response read from a GENEVE header before IPv6.                *)
ResponsesWereSent ==
  decoder = "done" => dns \subseteq frame.data.says.dns

(* "Both directions of a conversation resolve to the same label."          *)
LabelsHaveNoDirection ==
  \A table \in {TcpServices, UdpServices} : \A a, b \in DOMAIN table \union {0} :
    LET q(s, d) == [Unparsed EXCEPT !.sport = s, !.dport = d] IN
    Classified(q(a, b), table).service = Classified(q(b, a), table).service

(* "The map is ordered by specificity - more specific patterns first."     *)
Within == {<<"x.com", "xbox.com">>, <<"microsoft", "teams.microsoft">>,
           <<"cloudflare", "cloudflare-dns.com">>}
SpecificFirst ==
  \A i, j \in DOMAIN Catalog :
    <<Catalog[i].needle, Catalog[j].needle>> \in Within => j < i
=============================================================================
